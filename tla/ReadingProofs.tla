---------------------------- MODULE ReadingProofs ----------------------------
(***************************************************************************)
(* Proofs about the parts of the server that read: the file cache and its  *)
(* copies (FileCache), for any number of downloads, copies and contents,   *)
(* and the search (Retrieval), for any chunks, indexes, rows, limits and   *)
(* page sizes.  The two have no state in common.                           *)
(***************************************************************************)
EXTENDS Retrieval, FileCache, FiniteSetTheorems, SequenceTheorems, TLAPS
----------------------------------------------------------------------------
(* The file cache *)

(* What is cached or was read under an etag that is not its own was stored  *)
(* while the file was being downloaded.                                     *)
Told(etag, v) == v = etag \/ <<etag, v>> \in races

CacheInv == \A e \in Contents : cache[e] # Absent => Told(e, cache[e])

(* The etag was read when the file had it; the file that is read next was   *)
(* stored since if it is another one.                                       *)
ReaderInv ==
  \A r \in Readers :
    /\ reader[r].pc # "idle" => file \in seen[r] /\ reader[r].etag \in seen[r]
    /\ reader[r].pc \in {"check", "load"} =>
         file = Absent \/ Told(reader[r].etag, file)
    /\ reader[r].pc = "add" => Told(reader[r].etag, reader[r].got)
    /\ reader[r].pc = "done" =>
         reader[r].got \in seen[r] \/ <<reader[r].etag, reader[r].got>> \in races

SharerInv ==
  \A s \in Sharers :
    /\ sharer[s].pc # "idle" => file \in seen[s]
    /\ sharer[s].pc = "target" => sharer[s].etag \in seen[s]
    /\ sharer[s].pc = "shared" => copy \in seen[s]
    /\ sharer[s].pc = "done" => sharer[s].etag \in seen[s]

Readings == [pc : {"idle", "check", "load", "add", "direct", "stream", "done", "failed"},
             etag : Files, got : Files]

Sharings == [pc : {"idle", "target", "copy", "shared", "done", "failed"},
             etag : Files]

(* The changes of the file, and the steps of downloads and copies. *)
FileAction == PutFile \/ DeleteFile \/ CachePut \/ (\E e \in Contents : Evict(e))
ReadAction(r) == ReadMetadata(r) \/ ReadStep(r)
ShareAction(s) == ReadSource(s) \/ ShareStep(s)

LEMMA NextSplits ==
  ASSUME CacheNext
  PROVE  FileAction \/ (\E r \in Readers : ReadAction(r)) \/ (\E s \in Sharers : ShareAction(s))
BY DEF CacheNext, FileAction, ReadAction, ShareAction

(* Only a file that was there is read into the cache. *)
EtagInv ==
  \A r \in Readers : reader[r].pc \in {"check", "load", "add"} => reader[r].etag \in Contents

TypeInv == CacheTypeOK /\ EtagInv

LEMMA TypeInit == ASSUME CacheAssumption, CacheInit PROVE TypeInv
BY DEF CacheAssumption, CacheInit, TypeInv, CacheTypeOK, EtagInv, Files, Clients

LEMMA TypeOfFileStep ==
  ASSUME CacheAssumption, TypeInv, FileAction
  PROVE  TypeInv'
<1> USE CacheAssumption
<1> CacheTypeOK
  BY DEF TypeInv
<1>1. /\ file' \in Files /\ writes' \in 0..MaxWrites /\ adding' \in SUBSET Contents
      /\ seen' \in [Clients -> SUBSET Files] /\ races' \in SUBSET (Contents \X Files)
  <2>1. ASSUME NEW v \in Files, Store(v)
        PROVE  /\ file' \in Files /\ writes' \in 0..MaxWrites
               /\ seen' \in [Clients -> SUBSET Files] /\ races' \in SUBSET (Contents \X Files)
    <3>1. writes' \in 0..MaxWrites
      BY <2>1 DEF Store, CacheTypeOK, CacheAssumption
    <3>2. \A r \in Fetching : reader[r].etag \in Contents
      BY DEF Fetching, EtagInv, TypeInv
    <3> QED BY <2>1, <3>1, <3>2 DEF Store, CacheTypeOK
  <2>2. CASE PutFile
    BY <2>1, <2>2 DEF PutFile, CacheTypeOK, Files
  <2>3. CASE DeleteFile
    BY <2>1, <2>3 DEF DeleteFile, CacheTypeOK, Files
  <2>4. CASE CachePut \/ \E e \in Contents : Evict(e)
    BY <2>4 DEF CachePut, Evict, CacheTypeOK
  <2> QED BY <2>2, <2>3, <2>4 DEF FileAction
<1>2. cache' \in [Contents -> Files \ Big]
  BY DEF CacheTypeOK, FileAction, PutFile, DeleteFile, CachePut, Evict, Store, Cached, Files,
     CacheAssumption
<1>3. UNCHANGED <<reader, sharer, copy>>
  BY DEF FileAction, PutFile, DeleteFile, CachePut, Evict, Store
<1> QED BY <1>1, <1>2, <1>3 DEF CacheTypeOK, TypeInv, EtagInv

LEMMA TypeOfReadStep ==
  ASSUME CacheAssumption, TypeInv, NEW r \in Readers, ReadAction(r)
  PROVE  TypeInv'
<1> USE CacheAssumption
<1> CacheTypeOK /\ EtagInv
  BY DEF TypeInv
<1> reader \in [Readers -> Readings]
  BY DEF CacheTypeOK, Readings
<1>1. UNCHANGED <<file, writes, adding, sharer, copy, races>>
  BY DEF ReadAction, ReadStep, ReadMetadata, CheckFile, LoadFile, AddContent,
     CheckDirect, StreamFile, Reading
<1>2. seen' \in [Clients -> SUBSET (Files)]
  BY DEF CacheTypeOK, ReadAction, ReadStep, ReadMetadata, CheckFile, LoadFile,
     AddContent, CheckDirect, StreamFile, Begin
<1>3. cache' \in [Contents -> Files \ Big]
  BY DEF CacheTypeOK, ReadAction, ReadStep, ReadMetadata, CheckFile, LoadFile,
     AddContent, CheckDirect, StreamFile, Cached
<1>4. reader' \in [Readers -> Readings] /\ EtagInv'
  <2>1. ASSUME NEW e \in Files, NEW v \in Files, Return(r, e, v)
        PROVE  reader' \in [Readers -> Readings] /\ EtagInv'
    BY <2>1 DEF Return, Readings, EtagInv
  <2>2. ASSUME NEW to \in {"load", "direct", "stream", "failed"}, Goto(r, to),
               to = "load" => reader[r].etag \in Contents
        PROVE  reader' \in [Readers -> Readings] /\ EtagInv'
    BY <2>2 DEF Goto, Readings, EtagInv
  <2>3. CASE ReadMetadata(r)
    <3>1. CASE Hit(file)
      <4>1. cache[file] \in Files /\ file \in Files
        BY <3>1 DEF CacheTypeOK, Hit, Files
      <4> QED BY <2>1, <2>3, <3>1, <4>1 DEF ReadMetadata
    <3>2. CASE ~Hit(file)
      <4>1. reader' = [reader EXCEPT ![r].etag = file,
              ![r].pc = IF file # Absent /\ file \notin Big THEN "check" ELSE "direct"]
        BY <2>3, <3>2 DEF ReadMetadata
      <4>2. reader' \in [Readers -> Readings]
        <5>1. ASSUME NEW to \in {"check", "direct"}
              PROVE  [reader EXCEPT ![r].etag = file, ![r].pc = to] \in [Readers -> Readings]
          <6>1. reader[r] \in Readings /\ file \in Files
            BY DEF CacheTypeOK
          <6>2. [reader[r] EXCEPT !.etag = file, !.pc = to] \in Readings
            BY <5>1, <6>1 DEF Readings
          <6> QED BY <6>2
        <5> QED BY <4>1, <5>1
      <4>3. EtagInv'
        BY <4>1 DEF EtagInv, CacheTypeOK, Readings, Files
      <4> QED BY <4>2, <4>3
    <3> QED BY <3>1, <3>2
  <2>4. CASE CheckFile(r)
    <3>1. reader[r].etag \in Contents
      BY <2>4 DEF CheckFile, EtagInv
    <3>2. cache[reader[r].etag] \in Files /\ reader[r].etag \in Files
      BY <3>1 DEF CacheTypeOK, Files
    <3> QED BY <2>1, <2>2, <2>4, <3>1, <3>2 DEF CheckFile
  <2>5. CASE LoadFile(r)
    <3>1. CASE file = Absent
      BY <2>2, <2>5, <3>1 DEF LoadFile
    <3>2. CASE file # Absent
      <4>1. reader' = [reader EXCEPT ![r].pc = "add", ![r].got = file]
        BY <2>5, <3>2 DEF LoadFile
      <4>2. reader[r].etag \in Contents
        BY <2>5 DEF LoadFile, EtagInv
      <4>3. reader' \in [Readers -> Readings]
        <5>1. [reader[r] EXCEPT !.pc = "add", !.got = file] \in Readings
          BY <3>2 DEF Readings, CacheTypeOK
        <5> QED BY <4>1, <5>1
      <4>4. EtagInv'
        BY <4>1, <4>2 DEF EtagInv, Readings
      <4> QED BY <4>3, <4>4
    <3> QED BY <3>1, <3>2
  <2>6. CASE AddContent(r)
    <3>1. reader[r].etag \in Contents
      BY <2>6 DEF AddContent, EtagInv
    <3>2. cache'[reader[r].etag] \in Files /\ reader[r].etag \in Files
      BY <1>3, <3>1 DEF Files
    <3> QED BY <2>1, <2>2, <2>6, <3>2 DEF AddContent
  <2>7. CASE CheckDirect(r) \/ StreamFile(r)
    BY <2>1, <2>2, <2>7 DEF CheckDirect, StreamFile, CacheTypeOK, Files
  <2> QED BY <2>3, <2>4, <2>5, <2>6, <2>7 DEF ReadAction, ReadStep
<1> QED BY <1>1, <1>2, <1>3, <1>4 DEF CacheTypeOK, TypeInv, Readings

LEMMA TypeOfShareStep ==
  ASSUME CacheAssumption, TypeInv, NEW s \in Sharers, ShareAction(s)
  PROVE  TypeInv'
<1> CacheTypeOK /\ EtagInv
  BY DEF TypeInv
<1>1. /\ UNCHANGED <<file, writes, cache, adding, reader, races>>
      /\ copy' \in Files
      /\ seen' \in [Clients -> SUBSET (Files)]
  BY DEF CacheTypeOK, ShareAction, ShareStep, ReadSource, ReadTarget, CopyFile,
     EndShare, Sharing, Begin, Clients
<1>2. sharer' \in [Sharers -> Sharings]
  BY DEF CacheTypeOK, ShareAction, ShareStep, ReadSource, ReadTarget, CopyFile,
     EndShare, Pass, Sharings
<1> QED BY <1>1, <1>2 DEF CacheTypeOK, TypeInv, EtagInv, Sharings

LEMMA TypeStep ==
  ASSUME CacheAssumption, TypeInv, [CacheNext]_cacheVars
  PROVE  TypeInv'
<1>1. CASE UNCHANGED cacheVars
  BY <1>1 DEF TypeInv, CacheTypeOK, EtagInv, cacheVars
<1> QED BY <1>1, NextSplits, TypeOfFileStep, TypeOfReadStep, TypeOfShareStep

(* The types hold in every state, and nothing that is too large is cached   *)
(* (_add_to_cache).                                                         *)
THEOREM CacheTypeCorrect == CacheSpec => []CacheTypeOK
<1> USE CacheAssumption
<1>1. CacheInit => TypeInv
  BY TypeInit
<1>2. TypeInv /\ [CacheNext]_cacheVars => TypeInv'
  BY TypeStep
<1>3. TypeInv => CacheTypeOK
  BY DEF TypeInv
<1> QED BY <1>1, <1>2, <1>3, PTL DEF CacheSpec
----------------------------------------------------------------------------
(* What was seen stays seen by whoever has begun; the file is seen, and     *)
(* what is stored is noted for the downloads between their two readings.    *)

LEMMA SeenGrows ==
  ASSUME TypeInv, FileAction, NEW c \in Clients, file \in seen[c]
  PROVE  seen[c] \subseteq seen'[c] /\ file' \in seen'[c]
<1> CacheTypeOK
  BY DEF TypeInv
<1>1. ASSUME NEW v, Store(v)
      PROVE  seen[c] \subseteq seen'[c] /\ file' \in seen'[c]
  BY <1>1 DEF Store, CacheTypeOK
<1>2. CASE CachePut \/ \E e \in Contents : Evict(e)
  BY <1>2 DEF CachePut, Evict
<1> QED BY <1>1, <1>2 DEF FileAction, PutFile, DeleteFile

LEMMA RacesGrow ==
  ASSUME FileAction
  PROVE  /\ races \subseteq races'
         /\ \A r \in Fetching : file' = file \/ <<reader[r].etag, file'>> \in races'
<1>1. ASSUME NEW v, Store(v)
      PROVE  /\ races \subseteq races'
             /\ \A r \in Fetching : file' = file \/ <<reader[r].etag, file'>> \in races'
  BY <1>1 DEF Store
<1>2. CASE CachePut \/ \E e \in Contents : Evict(e)
  BY <1>2 DEF CachePut, Evict
<1> QED BY <1>1, <1>2 DEF FileAction, PutFile, DeleteFile

LEMMA FileStepKeeps ==
  ASSUME CacheAssumption, TypeInv, CacheInv, ReaderInv, SharerInv, FileAction
  PROVE  CacheInv' /\ ReaderInv' /\ SharerInv'
<1> CacheTypeOK
  BY DEF TypeInv
<1>1. races \subseteq races'
  BY RacesGrow
<1>2. CacheInv'
  <2>1. CASE PutFile \/ DeleteFile
    BY <1>1, <2>1 DEF PutFile, DeleteFile, Store, CacheInv, Told
  <2>2. CASE CachePut
    BY <1>1, <2>2 DEF CachePut, Cached, CacheInv, CacheTypeOK, Told
  <2>3. CASE \E e \in Contents : Evict(e)
    BY <1>1, <2>3 DEF Evict, CacheInv, CacheTypeOK, Told
  <2> QED BY <2>1, <2>2, <2>3 DEF FileAction
<1>3. UNCHANGED <<reader, sharer, copy>>
  BY DEF FileAction, PutFile, DeleteFile, CachePut, Evict, Store
<1>4. ReaderInv'
  <2> SUFFICES ASSUME NEW r \in Readers
               PROVE  /\ reader[r].pc # "idle" => file' \in seen'[r] /\ reader[r].etag \in seen'[r]
                      /\ reader[r].pc \in {"check", "load"} =>
                           (file = Absent \/ Told(reader[r].etag, file))'
                      /\ reader[r].pc = "add" => Told(reader[r].etag, reader[r].got)'
                      /\ reader[r].pc = "done" => reader[r].got \in seen'[r]
                           \/ <<reader[r].etag, reader[r].got>> \in races'
    BY <1>3 DEF ReaderInv
  <2>1. CASE reader[r].pc = "idle"
    BY <2>1
  <2>2. CASE reader[r].pc # "idle"
    <3>1. r \in Clients /\ file \in seen[r]
      BY <2>2 DEF Clients, ReaderInv
    <3>2. seen[r] \subseteq seen'[r] /\ file' \in seen'[r]
      BY <3>1, SeenGrows
    <3>3. ASSUME reader[r].pc \in {"check", "load"}
          PROVE  (file = Absent \/ Told(reader[r].etag, file))'
      <4>1. file' = file \/ <<reader[r].etag, file'>> \in races'
        BY <3>3, RacesGrow DEF Fetching
      <4> QED BY <1>1, <1>3, <3>3, <4>1 DEF ReaderInv, Told
    <3> QED BY <1>1, <1>3, <2>2, <3>2, <3>3 DEF ReaderInv, Told
  <2> QED BY <2>1, <2>2
<1>5. SharerInv'
  <2> SUFFICES ASSUME NEW s \in Sharers, sharer[s].pc # "idle"
               PROVE  file' \in seen'[s] /\ seen[s] \subseteq seen'[s]
    BY <1>3 DEF SharerInv
  <2>1. s \in Clients /\ file \in seen[s]
    BY DEF Clients, SharerInv
  <2> QED BY <2>1, SeenGrows
<1> QED BY <1>2, <1>4, <1>5

LEMMA ReadStepKeeps ==
  ASSUME CacheAssumption, TypeInv, CacheInv, ReaderInv, SharerInv, NEW r \in Readers, ReadAction(r)
  PROVE  CacheInv' /\ ReaderInv' /\ SharerInv'
<1> CacheTypeOK /\ EtagInv
  BY DEF TypeInv
<1> reader \in [Readers -> Readings]
  BY DEF CacheTypeOK, Readings
<1>1. UNCHANGED <<file, writes, adding, sharer, copy, races>>
  BY DEF ReadAction, ReadStep, ReadMetadata, CheckFile, LoadFile, AddContent,
     CheckDirect, StreamFile, Reading
<1>2. \A c \in Clients : c # r => seen'[c] = seen[c]
  BY DEF CacheTypeOK, ReadAction, ReadStep, ReadMetadata, CheckFile, LoadFile, AddContent,
     CheckDirect, StreamFile, Begin
<1>3. \A x \in Readers : x # r => reader'[x] = reader[x]
  BY DEF ReadAction, ReadStep, ReadMetadata, CheckFile, LoadFile, AddContent,
     CheckDirect, StreamFile, Goto, Return
<1>4. r \in Clients /\ r \notin Sharers
  BY DEF Clients, CacheAssumption
<1>5. SharerInv'
  BY <1>1, <1>2, <1>4 DEF SharerInv, Clients
<1> DEFINE Right(x) ==
       /\ file \in seen'[r] /\ x.etag \in seen'[r]
       /\ x.pc \in {"check", "load"} => file = Absent \/ Told(x.etag, file)
       /\ x.pc = "add" => Told(x.etag, x.got)
       /\ x.pc = "done" => x.got \in seen'[r] \/ <<x.etag, x.got>> \in races
<1>6. SUFFICES CacheInv' /\ Right(reader'[r])
  <2>1. \A x \in Readers \ {r} : x \in Clients
    BY DEF Clients
  <2> QED BY <1>1, <1>2, <1>3, <1>5, <2>1 DEF ReaderInv, Told
<1>7. ASSUME NEW e, NEW v, Return(r, e, v), file \in seen'[r], e \in seen'[r],
             v \in seen'[r] \/ Told(e, v)
      PROVE  Right(reader'[r])
  BY <1>7 DEF Return, Readings, Told
<1>8. ASSUME NEW to \in {"load", "direct", "stream", "failed"}, Goto(r, to), UNCHANGED seen,
             reader[r].pc # "idle", to = "load" => reader[r].pc = "check"
      PROVE  Right(reader'[r])
  <2>1. reader'[r].pc = to /\ reader'[r].etag = reader[r].etag
    BY <1>8 DEF Goto, Readings
  <2> QED BY <1>8, <2>1 DEF ReaderInv
<1>9. UNCHANGED cache => CacheInv'
  BY <1>1 DEF CacheInv, Told
<1>10. CASE ReadMetadata(r)
  <2>1. seen'[r] = {file}
    BY <1>4, <1>10 DEF ReadMetadata, Begin, CacheTypeOK
  <2>2. CacheInv'
    BY <1>9, <1>10 DEF ReadMetadata
  <2>3. CASE Hit(file)
    <3>1. Told(file, cache[file])
      BY <2>3 DEF Hit, CacheInv, CacheTypeOK, Files
    <3> QED BY <1>7, <1>10, <2>1, <2>2, <2>3, <3>1 DEF ReadMetadata
  <2>4. CASE ~Hit(file)
    <3>1. /\ reader'[r].etag = file
          /\ reader'[r].pc = IF file # Absent /\ file \notin Big THEN "check" ELSE "direct"
      BY <1>10, <2>4 DEF ReadMetadata, Readings
    <3> QED BY <2>1, <2>2, <3>1 DEF Told
  <2> QED BY <2>3, <2>4
<1>11. ASSUME ReadStep(r)
       PROVE  /\ UNCHANGED seen /\ reader[r].pc # "idle"
              /\ file \in seen[r] /\ reader[r].etag \in seen[r]
  BY <1>11 DEF ReadStep, CheckFile, LoadFile, AddContent, CheckDirect, StreamFile, ReaderInv
<1>12. CASE CheckFile(r)
  <2>1. CacheInv'
    BY <1>9, <1>12 DEF CheckFile
  <2>2. CASE Goto(r, "load") \/ Goto(r, "direct")
    BY <1>8, <1>11, <1>12, <2>1, <2>2 DEF CheckFile, ReadStep
  <2>3. CASE Hit(reader[r].etag) /\ Return(r, reader[r].etag, cache[reader[r].etag])
    <3>1. Told(reader[r].etag, cache[reader[r].etag])
      BY <1>12, <2>3 DEF CheckFile, EtagInv, Hit, CacheInv
    <3> QED BY <1>7, <1>11, <1>12, <2>1, <2>3, <3>1 DEF ReadStep
  <2> QED BY <1>12, <2>2, <2>3 DEF CheckFile
<1>13. CASE LoadFile(r)
  <2>1. CacheInv'
    BY <1>9, <1>13 DEF LoadFile
  <2>2. CASE file = Absent
    BY <1>8, <1>11, <1>13, <2>1, <2>2 DEF LoadFile, ReadStep
  <2>3. CASE file # Absent
    <3>1. reader'[r].pc = "add" /\ reader'[r].got = file /\ reader'[r].etag = reader[r].etag
      BY <1>13, <2>3 DEF LoadFile, Readings
    <3>2. Told(reader[r].etag, file)
      BY <1>13, <2>3 DEF LoadFile, ReaderInv
    <3> QED BY <1>11, <1>13, <2>1, <3>1, <3>2 DEF ReadStep
  <2> QED BY <2>2, <2>3
<1>14. CASE AddContent(r)
  <2> DEFINE etag == reader[r].etag
  <2>1. etag \in Contents /\ Told(etag, reader[r].got)
    BY <1>14 DEF AddContent, EtagInv, ReaderInv
  <2>2. cache' \in {cache, [cache EXCEPT ![etag] = reader[r].got]}
    BY <1>14 DEF AddContent, Cached
  <2>3. CacheInv'
    BY <1>1, <2>1, <2>2 DEF CacheInv, CacheTypeOK, Told
  <2>4. CASE cache'[etag] # Absent
    <3>1. Told(etag, cache'[etag])
      BY <1>1, <2>1, <2>3, <2>4 DEF CacheInv, Told
    <3> QED BY <1>7, <1>11, <1>14, <2>3, <2>4, <3>1 DEF AddContent, ReadStep
  <2>5. CASE cache'[etag] = Absent
    BY <1>8, <1>11, <1>14, <2>3, <2>5 DEF AddContent, ReadStep
  <2> QED BY <2>4, <2>5
<1>15. CASE CheckDirect(r) \/ StreamFile(r)
  <2>1. CacheInv'
    BY <1>9, <1>15 DEF CheckDirect, StreamFile
  <2> QED BY <1>7, <1>8, <1>11, <1>15, <2>1 DEF CheckDirect, StreamFile, ReadStep
<1> QED BY <1>10, <1>12, <1>13, <1>14, <1>15 DEF ReadAction, ReadStep

LEMMA ShareStepKeeps ==
  ASSUME CacheAssumption, TypeInv, CacheInv, ReaderInv, SharerInv, NEW s \in Sharers, ShareAction(s)
  PROVE  CacheInv' /\ ReaderInv' /\ SharerInv'
<1> CacheTypeOK
  BY DEF TypeInv
<1> sharer \in [Sharers -> Sharings]
  BY DEF CacheTypeOK, Sharings
<1>1. UNCHANGED <<file, writes, cache, adding, reader, races>>
  BY DEF ShareAction, ShareStep, ReadSource, ReadTarget, CopyFile, EndShare, Sharing
<1>2. /\ \A c \in Clients : c # s => seen'[c] = seen[c]
      /\ s \in Clients /\ s \notin Readers
  BY DEF CacheTypeOK, ShareAction, ShareStep, ReadSource, ReadTarget, CopyFile, EndShare, Begin,
     Clients, CacheAssumption
<1>3. CacheInv' /\ ReaderInv'
  BY <1>1, <1>2 DEF CacheInv, ReaderInv, Clients, Told
<1>4. \A x \in Sharers : x # s => sharer'[x] = sharer[x]
  BY DEF ShareAction, ShareStep, ReadSource, ReadTarget, CopyFile, EndShare, Pass
<1>5. copy' = copy \/ copy' = file
  BY DEF ShareAction, ShareStep, ReadSource, ReadTarget, CopyFile, EndShare
<1>6. /\ sharer'[s].pc # "idle" => file \in seen'[s]
      /\ sharer'[s].pc = "target" => sharer'[s].etag \in seen'[s]
      /\ sharer'[s].pc = "shared" => copy' \in seen'[s]
      /\ sharer'[s].pc = "done" => sharer'[s].etag \in seen'[s]
  <2>1. CASE ReadSource(s)
    BY <1>2, <2>1 DEF ReadSource, Begin, CacheTypeOK
  <2>2. CASE ReadTarget(s)
    BY <2>2 DEF ReadTarget, Pass, SharerInv, Sharings
  <2>3. CASE CopyFile(s)
    BY <2>3 DEF CopyFile, Pass, SharerInv, Sharings
  <2>4. CASE EndShare(s)
    BY <2>4 DEF EndShare, SharerInv
  <2> QED BY <2>1, <2>2, <2>3, <2>4 DEF ShareAction, ShareStep
<1>7. SharerInv'
  <2>1. ASSUME NEW x \in Sharers, x # s
        PROVE  /\ sharer'[x] = sharer[x] /\ seen'[x] = seen[x]
               /\ sharer[x].pc # "idle" => file \in seen[x]
    BY <1>2, <1>4, <2>1 DEF SharerInv, Clients
  <2> QED BY <1>1, <1>5, <1>6, <2>1 DEF SharerInv
<1> QED BY <1>3, <1>7

LEMMA CacheInvariant == CacheSpec => [](TypeInv /\ CacheInv /\ ReaderInv /\ SharerInv)
<1> USE CacheAssumption
<1> DEFINE Inv == TypeInv /\ CacheInv /\ ReaderInv /\ SharerInv
<1>1. CacheInit => Inv
  <2> SUFFICES ASSUME CacheInit PROVE Inv
    OBVIOUS
  <2>1. TypeInv
    BY TypeInit
  <2> QED BY <2>1 DEF CacheInit, CacheInv, ReaderInv, SharerInv
<1>2. Inv /\ [CacheNext]_cacheVars => Inv'
  <2> SUFFICES ASSUME Inv, [CacheNext]_cacheVars PROVE Inv'
    OBVIOUS
  <2>1. TypeInv'
    BY TypeStep
  <2>2. CASE UNCHANGED cacheVars
    BY <2>1, <2>2 DEF cacheVars, CacheInv, ReaderInv, SharerInv, Told
  <2> QED BY <2>1, <2>2, NextSplits, FileStepKeeps, ReadStepKeeps, ShareStepKeeps
<1> QED BY <1>1, <1>2, PTL DEF CacheSpec

(* However the file changes, to earlier contents too, and the cache is      *)
(* filled and emptied, a download returns what the file was at some moment  *)
(* since it began, or what was stored while a download of the same etag     *)
(* was between its two readings (CachingFileStorage.download_file).         *)
THEOREM ReadsWereTrueCorrect == CacheSpec => []ReadsWereTrue
<1>1. ReaderInv => ReadsWereTrue
  BY DEF ReaderInv, ReadsWereTrue
<1> QED BY <1>1, CacheInvariant, PTL

(* A copy that a user gets is what the document was at some moment since    *)
(* the citation was being added, whoever copied it (copy_file_to_user).     *)
THEOREM SharedWasTrueCorrect == CacheSpec => []SharedWasTrue
<1>1. SharerInv => SharedWasTrue
  BY DEF SharerInv, SharedWasTrue
<1> QED BY <1>1, CacheInvariant, PTL
----------------------------------------------------------------------------
(* Numbers *)

(* Every set of numbers that is not empty has a least one. *)
LEMMA LeastNumber ==
  ASSUME NEW T \in SUBSET Nat, T # {}
  PROVE  \E m \in T : \A k \in T : m <= k
<1>1. PICK m \in T : \A k \in T : ~(<<k, m>> \in OpToRel(<, Nat))
  BY WFMin, NatLessThanWellFounded, Zenon
<1>2. \A k \in T : ~(k < m)
  BY <1>1, Zenon DEF OpToRel
<1> QED
  BY <1>2

(* What holds of 0, and of n + 1 if it does of n, holds up to N. *)
LEMMA UpTo ==
  ASSUME NEW N \in Nat, NEW T, 0 \in T, \A n \in 0..(N-1) : n \in T => n + 1 \in T
  PROVE  \A n \in 0..N : n \in T
<1> DEFINE Bad == {n \in 0..N : n \notin T}
<1>1. SUFFICES ASSUME Bad # {} PROVE FALSE
  OBVIOUS
<1>2. PICK m \in Bad : \A k \in Bad : m <= k
  <2>1. Bad \in SUBSET Nat
    OBVIOUS
  <2> HIDE DEF Bad
  <2> QED
    BY <1>1, <2>1, LeastNumber
<1>3. m \in 0..N /\ m \notin T /\ m # 0
  OBVIOUS
<1>4. m - 1 \in 0..(N-1) /\ m - 1 \notin Bad
  BY <1>2, <1>3
<1>5. m - 1 \in T
  BY <1>4
<1> QED
  BY <1>3, <1>4, <1>5
----------------------------------------------------------------------------
(* Sorted *)

(* The pairs order the elements of S, and there are finitely many. *)
IsOrder(S, ahead) ==
  /\ IsFiniteSet(S)
  /\ \A x \in S : <<x, x>> \notin ahead
  /\ \A x, y \in S : x # y => <<x, y>> \in ahead \/ <<y, x>> \in ahead
  /\ \A x, y, z \in S : <<x, y>> \in ahead /\ <<y, z>> \in ahead => <<x, z>> \in ahead

(* s has the elements of S, each once and in their order. *)
IsSorted(s, S, ahead) ==
  /\ Cardinality(S) \in Nat
  /\ s \in [1..Cardinality(S) -> S]
  /\ \A p, q \in 1..Cardinality(S) : p < q => <<s[p], s[q]>> \in ahead
  /\ \A x \in S : \E p \in 1..Cardinality(S) : s[p] = x

(* How many elements of S come before x. *)
Rank(S, ahead, x) == Cardinality({y \in S : <<y, x>> \in ahead})

(* Ranks are smaller than the number of elements, and grow along the order. *)
LEMMA RankLess ==
  ASSUME NEW S, NEW ahead, IsOrder(S, ahead)
  PROVE  /\ \A x \in S : Rank(S, ahead, x) \in 0..(Cardinality(S) - 1)
         /\ \A x, y \in S : <<x, y>> \in ahead => Rank(S, ahead, x) < Rank(S, ahead, y)
         /\ Cardinality(S) \in Nat
<1>1. Cardinality(S) \in Nat
  BY FS_CardinalityType DEF IsOrder
<1>2. ASSUME NEW x \in S
      PROVE  Rank(S, ahead, x) \in 0..(Cardinality(S) - 1)
  <2> DEFINE B == {y \in S : <<y, x>> \in ahead}
  <2>1. B \in SUBSET S /\ x \notin B
    BY DEF IsOrder
  <2>2. IsFiniteSet(B) /\ Cardinality(B) <= Cardinality(S) /\ (Cardinality(S) = Cardinality(B) => S = B)
    BY <2>1, FS_Subset DEF IsOrder
  <2>3. Cardinality(B) \in Nat
    BY <2>2, FS_CardinalityType
  <2>4. Rank(S, ahead, x) = Cardinality(B)
    BY DEF Rank
  <2> HIDE DEF B
  <2> QED
    BY <1>1, <2>1, <2>2, <2>3, <2>4
<1>3. ASSUME NEW x \in S, NEW y \in S, <<x, y>> \in ahead
      PROVE  Rank(S, ahead, x) < Rank(S, ahead, y)
  <2> DEFINE B == {z \in S : <<z, x>> \in ahead}
             C == {z \in S : <<z, y>> \in ahead}
  <2>1. B \in SUBSET C /\ x \in C /\ x \notin B
    BY <1>3 DEF IsOrder
  <2>2. IsFiniteSet(C)
    <3>1. C \in SUBSET S
      OBVIOUS
    <3> QED
      BY <3>1, FS_Subset DEF IsOrder
  <2>3. Rank(S, ahead, x) = Cardinality(B) /\ Rank(S, ahead, y) = Cardinality(C)
    BY DEF Rank
  <2> HIDE DEF B, C
  <2>4. IsFiniteSet(B) /\ Cardinality(B) <= Cardinality(C) /\ (Cardinality(C) = Cardinality(B) => C = B)
    BY <2>1, <2>2, FS_Subset
  <2>5. Cardinality(B) \in Nat /\ Cardinality(C) \in Nat
    BY <2>2, <2>4, FS_CardinalityType
  <2> QED
    BY <2>1, <2>3, <2>4, <2>5
<1> QED
  BY <1>1, <1>2, <1>3

(* No two elements have the same rank. *)
LEMMA RankOne ==
  ASSUME NEW S, NEW ahead, IsOrder(S, ahead), NEW x \in S, NEW y \in S,
         Rank(S, ahead, x) = Rank(S, ahead, y)
  PROVE  x = y
<1>1. /\ <<x, y>> \in ahead => Rank(S, ahead, x) < Rank(S, ahead, y)
      /\ <<y, x>> \in ahead => Rank(S, ahead, y) < Rank(S, ahead, x)
      /\ Rank(S, ahead, x) \in 0..(Cardinality(S) - 1)
      /\ Cardinality(S) \in Nat
  BY RankLess
<1> QED
  BY <1>1 DEF IsOrder

(* Every rank is that of an element: an injection into as many ranks as     *)
(* there are elements.                                                      *)
LEMMA RankOnto ==
  ASSUME NEW S, NEW ahead, IsOrder(S, ahead), NEW p \in 1..Cardinality(S)
  PROVE  \E x \in S : Rank(S, ahead, x) = p - 1
<1> DEFINE N == Cardinality(S)
           T == 0..(N-1)
           f == [x \in S |-> Rank(S, ahead, x)]
<1>1. N \in Nat /\ f \in [S -> T]
  BY RankLess
<1>2. \A x, y \in S : f[x] = f[y] => x = y
  BY RankOne
<1>3. f \in Injection(S, T)
  <2> HIDE DEF f, T
  <2> QED
    BY <1>1, <1>2 DEF Injection, IsInjective
<1>4. IsFiniteSet(T) /\ Cardinality(T) = N
  <2>1. 0 \in Int /\ N - 1 \in Int
    BY <1>1
  <2> QED
    BY <1>1, <2>1, FS_Interval
<1>5. f \in Surjection(S, T)
  <2> HIDE DEF f, T
  <2> QED
    BY <1>3, <1>4, FS_Injection
<1>6. p - 1 \in T
  BY <1>1
<1>7. \E x \in S : f[x] = p - 1
  BY <1>5, <1>6 DEF Surjection
<1> QED
  BY <1>7

(* Sorted has the elements of S in their order, each at its rank. *)
LEMMA SortedIs ==
  ASSUME NEW S, NEW ahead, IsOrder(S, ahead)
  PROVE  /\ IsSorted(Sorted(S, ahead), S, ahead)
         /\ \A x \in S : x = Sorted(S, ahead)[Rank(S, ahead, x) + 1]
         /\ \A p \in 1..Cardinality(S) : Rank(S, ahead, Sorted(S, ahead)[p]) = p - 1
<1> DEFINE N == Cardinality(S)
           s == Sorted(S, ahead)
<1>1. s = [p \in 1..N |-> CHOOSE x \in S : Rank(S, ahead, x) = p - 1]
  BY DEF Sorted, Rank
<1>2. N \in Nat
  BY RankLess
<1> HIDE DEF s, N
<1>3. \A p \in 1..N : s[p] \in S /\ Rank(S, ahead, s[p]) = p - 1
  BY <1>1, RankOnto DEF N
<1>4. \A p \in 1..N : \A x \in S : Rank(S, ahead, x) = p - 1 => s[p] = x
  BY <1>3, RankOne
<1>5. \A p, q \in 1..N : p < q => <<s[p], s[q]>> \in ahead
  <2> SUFFICES ASSUME NEW p \in 1..N, NEW q \in 1..N, p < q
               PROVE  <<s[p], s[q]>> \in ahead
    OBVIOUS
  <2>1. s[p] \in S /\ s[q] \in S /\ Rank(S, ahead, s[p]) = p - 1 /\ Rank(S, ahead, s[q]) = q - 1
    BY <1>3
  <2>2. s[p] # s[q] /\ ~(Rank(S, ahead, s[q]) < Rank(S, ahead, s[p]))
    BY <2>1
  <2>3. <<s[q], s[p]>> \notin ahead
    BY <2>1, <2>2, RankLess
  <2> QED
    BY <2>1, <2>2, <2>3 DEF IsOrder
<1>6. \A x \in S : Rank(S, ahead, x) + 1 \in 1..N /\ s[Rank(S, ahead, x) + 1] = x
  <2> SUFFICES ASSUME NEW x \in S
               PROVE  Rank(S, ahead, x) + 1 \in 1..N /\ s[Rank(S, ahead, x) + 1] = x
    OBVIOUS
  <2>1. Rank(S, ahead, x) \in 0..(N - 1)
    BY RankLess DEF N
  <2> DEFINE p == Rank(S, ahead, x) + 1
  <2>2. p \in 1..N /\ Rank(S, ahead, x) = p - 1
    BY <1>2, <2>1
  <2> HIDE DEF p
  <2>3. s[p] = x
    BY <1>4, <2>2
  <2> QED
    BY <2>2, <2>3 DEF p
<1>7. s \in [1..N -> S]
  BY <1>1, <1>3
<1> QED
  BY <1>2, <1>3, <1>5, <1>6, <1>7 DEF IsSorted, s, N

(* The first n numbers are n. *)
LEMMA CountIs ==
  ASSUME NEW n \in Nat
  PROVE  IsFiniteSet(1..n) /\ Cardinality(1..n) = n
<1>1. 1 \in Int /\ n \in Int /\ (IF 1 > n THEN 0 ELSE n - 1 + 1) = n
  OBVIOUS
<1> QED
  BY <1>1, FS_Interval

(* Numbers are ordered, and the first n of them stay where they are. *)
LEMMA LessIsOrder ==
  ASSUME NEW n \in Nat, NEW P \in SUBSET (1..n)
  PROVE  IsOrder(P, Less(P))
<1>1. IsFiniteSet(1..n)
  BY FS_Interval
<1>2. IsFiniteSet(P)
  BY <1>1, FS_Subset
<1> QED
  BY <1>2 DEF IsOrder, Less

(* What a sequence has at some places: a place for each of its elements. *)
IsPlacing(place, s, P) ==
  /\ place \in [1..Cardinality(P) -> P]
  /\ \A p \in 1..Cardinality(P) : At(s, P)[p] = s[place[p]]
  /\ \A p, q \in 1..Cardinality(P) : p < q => place[p] < place[q]
  /\ \A n \in P : \E p \in 1..Cardinality(P) : place[p] = n
  /\ \A L \in 0..Len(s) : 1..L \subseteq P =>
        L <= Cardinality(P) /\ \A p \in 1..L : place[p] = p

(* At keeps the order of the places, and a beginning that is taken as a     *)
(* whole stays where it is.                                                 *)
LEMMA AtIs ==
  ASSUME NEW X, NEW s \in Seq(X), NEW P \in SUBSET (1..Len(s))
  PROVE  /\ Cardinality(P) \in Nat /\ Cardinality(P) <= Len(s)
         /\ At(s, P) \in Seq(X) /\ Len(At(s, P)) = Cardinality(P)
         /\ \E place : IsPlacing(place, s, P)
<1> DEFINE N == Cardinality(P)
           place == Sorted(P, Less(P))
<1>0. Len(s) \in Nat /\ \A n \in 1..Len(s) : s[n] \in X
  OBVIOUS
<1>1. IsOrder(P, Less(P))
  BY <1>0, LessIsOrder
<1>2. IsSorted(place, P, Less(P)) /\ \A x \in P : x = place[Rank(P, Less(P), x) + 1]
  BY <1>1, SortedIs
<1>3. N \in Nat /\ place \in [1..N -> P] /\ \A n \in P : \E p \in 1..N : place[p] = n
  BY <1>2 DEF IsSorted
<1>4. N <= Len(s)
  <2>1. IsFiniteSet(1..Len(s)) /\ Cardinality(1..Len(s)) = Len(s)
    BY <1>0, CountIs
  <2> QED
    BY <2>1, FS_Subset
<1>5. At(s, P) = [p \in 1..N |-> s[place[p]]]
  <2>1. At(s, P) = [p \in DOMAIN place |-> s[place[p]]]
    BY DEF At
  <2> HIDE DEF place
  <2> QED
    BY <1>3, <2>1
<1>6. \A p, q \in 1..N : p < q => place[p] < place[q]
  <2>1. \A p, q \in 1..N : p < q => <<place[p], place[q]>> \in Less(P)
    BY <1>2 DEF IsSorted
  <2> HIDE DEF place, N
  <2> QED
    BY <2>1 DEF Less
<1>7. ASSUME NEW L \in 0..Len(s), 1..L \subseteq P
      PROVE  L <= N /\ \A p \in 1..L : place[p] = p
  <2>1. IsFiniteSet(1..L) /\ Cardinality(1..L) = L
    BY <1>0, CountIs
  <2>2. L <= N
    <3>1. IsFiniteSet(P) /\ 1..L \in SUBSET P
      BY <1>1, <1>7 DEF IsOrder
    <3> QED
      BY <2>1, <3>1, FS_Subset
  <2>3. ASSUME NEW p \in 1..L
        PROVE  place[p] = p
    <3>0. p \in P /\ P \subseteq Nat \ {0} /\ 1..L \subseteq P /\ p \in 1..L /\ L \in Nat
      BY <1>0, <1>7
    <3>1. {y \in P : <<y, p>> \in Less(P)} = 1..(p-1)
      <4>1. \A y \in P : <<y, p>> \in Less(P) <=> y < p
        BY <3>0 DEF Less
      <4>2. \A y \in P : y < p => y \in 1..(p-1)
        BY ONLY <3>0
      <4>3. \A y \in 1..(p-1) : y \in P /\ y < p
        BY ONLY <3>0
      <4> HIDE DEF place
      <4> QED
        BY <4>1, <4>2, <4>3
    <3>2. Cardinality(1..(p-1)) = p - 1
      BY <3>0, CountIs
    <3>3. Rank(P, Less(P), p) = p - 1
      BY <3>1, <3>2 DEF Rank
    <3>4. p \in P /\ p - 1 + 1 = p
      BY <1>0, <1>7
    <3> HIDE DEF place
    <3> QED
      BY <1>2, <3>3, <3>4
  <2> QED
    BY <2>2, <2>3
<1> HIDE DEF N, place
<1>8. At(s, P) \in [1..N -> X]
  BY <1>0, <1>3, <1>5
<1>9. At(s, P) \in Seq(X) /\ Len(At(s, P)) = N
  BY <1>3, <1>8
<1>10. \A p \in 1..N : At(s, P)[p] = s[place[p]]
  BY <1>5
<1> QED
  <2>1. IsPlacing(place, s, P)
    BY <1>3, <1>6, <1>7, <1>10 DEF IsPlacing, N
  <2> QED
    BY <1>3, <1>4, <1>9, <2>1 DEF N

(* Only has the elements of the sequence that are of the set. *)
LEMMA OnlyIs ==
  ASSUME NEW X, NEW s \in Seq(X), NEW S
  PROVE  /\ Only(s, S) \in Seq(X) /\ Only(s, S) \in Seq(S)
         /\ Len(Only(s, S)) <= Len(s)
         /\ \A n \in DOMAIN s : s[n] \in S => s[n] \in ToSet(Only(s, S))
<1> DEFINE P == {n \in DOMAIN s : s[n] \in S}
<1>1. P \in SUBSET (1..Len(s)) /\ \A n \in P : s[n] \in S
  OBVIOUS
<1>2. Only(s, S) = At(s, P)
  BY DEF Only
<1> HIDE DEF P
<1> DEFINE t == At(s, P)
           N == Cardinality(P)
<1>3. /\ N \in Nat /\ N <= Len(s) /\ t \in Seq(X) /\ Len(t) = N
      /\ \E place \in [1..N -> P] :
           (\A p \in 1..N : t[p] = s[place[p]]) /\ \A n \in P : \E p \in 1..N : place[p] = n
  BY <1>1, AtIs DEF IsPlacing
<1> HIDE DEF t, N
<1>4. \A p \in 1..N : t[p] \in S
  BY <1>1, <1>3
<1>5. t \in Seq(S)
  <2>1. t \in [1..N -> S]
    BY <1>3, <1>4
  <2> QED
    BY <1>3, <2>1
<1>6. \A n \in P : s[n] \in ToSet(t)
  <2>1. \A n \in P : \E p \in 1..N : s[n] = t[p]
    BY <1>3
  <2>2. DOMAIN t = 1..N
    BY <1>3
  <2>3. ToSet(t) = {t[p] : p \in 1..N}
    BY <2>2 DEF ToSet
  <2> QED
    BY <2>1, <2>3
<1>7. \A n \in DOMAIN s : s[n] \in S => n \in P
  BY DEF P
<1> QED
  BY <1>2, <1>3, <1>5, <1>6, <1>7 DEF t

(* A part of a sequence: with what is before it, it is a beginning. *)
LEMMA SliceIs ==
  ASSUME NEW X, NEW s \in Seq(X), NEW k \in 0..Len(s), NEW size \in Nat
  PROVE  /\ Slice(s, k, size) \in Seq(X)
         /\ Len(Slice(s, k, size)) = IF k + size > Len(s) THEN Len(s) - k ELSE size
         /\ \A n \in 1..Len(Slice(s, k, size)) : Slice(s, k, size)[n] = s[k+n]
         /\ SubSeq(s, 1, k) \o Slice(s, k, size) = SubSeq(s, 1, k + Len(Slice(s, k, size)))
         /\ k + Len(Slice(s, k, size)) <= Len(s)
<1> DEFINE m == k + 1
           e == IF k + size > Len(s) THEN Len(s) ELSE k + size
<1>1. /\ Len(s) \in Nat /\ m \in Int /\ e \in Int /\ \A i \in m..e : s[i] \in X
      /\ e <= Len(s) /\ k <= e /\ e - m + 1 = e - k
  OBVIOUS
<1>2. Slice(s, k, size) = SubSeq(s, m, e)
  BY DEF Slice
<1>3. e - k = IF k + size > Len(s) THEN Len(s) - k ELSE size
  OBVIOUS
<1> HIDE DEF e
<1>4. /\ SubSeq(s, m, e) \in Seq(X)
      /\ Len(SubSeq(s, m, e)) = IF m <= e THEN e - m + 1 ELSE 0
      /\ \A i \in 1 .. e - m + 1 : SubSeq(s, m, e)[i] = s[m+i-1]
  BY <1>1, SubSeqProperties
<1>5. Len(SubSeq(s, m, e)) = e - k
  BY <1>1, <1>4
<1>6. \A i \in 1..(e-k) : SubSeq(s, m, e)[i] = s[k+i]
  BY <1>1, <1>4
<1>7. SubSeq(s, 1, k) \o SubSeq(s, m, e) = SubSeq(s, 1, e)
  <2>1. 1 \in 1..Len(s)+1 /\ k \in 1-1..Len(s) /\ e \in k..Len(s)
    BY <1>1
  <2> QED
    BY <2>1, ConcatAdjacentSubSeq
<1>8. k + (e - k) = e
  BY <1>1
<1> QED
  BY <1>1, <1>2, <1>3, <1>4, <1>5, <1>6, <1>7, <1>8

(* A part of what is ordered is ordered. *)
LEMMA SubOrder ==
  ASSUME NEW S, NEW ahead, IsOrder(S, ahead), NEW T \in SUBSET S
  PROVE  IsOrder(T, ahead)
<1>1. IsFiniteSet(T)
  BY FS_Subset DEF IsOrder
<1> QED
  BY <1>1 DEF IsOrder

(* Firsts has one element of each key, and no other of that key is before   *)
(* it.                                                                      *)
LEMMA FirstsIs ==
  ASSUME NEW S, NEW ahead, IsOrder(S, ahead), NEW key
  PROVE  /\ Firsts(S, ahead, key) \in SUBSET S
         /\ IsOrder(Firsts(S, ahead, key), ahead)
         /\ \A x, y \in Firsts(S, ahead, key) : key[x] = key[y] => x = y
         /\ \A x \in S : \E f \in Firsts(S, ahead, key) :
              key[f] = key[x] /\ (f = x \/ <<f, x>> \in ahead)
<1>1. Firsts(S, ahead, key) \in SUBSET S
  BY DEF Firsts
<1>2. ASSUME NEW x \in Firsts(S, ahead, key), NEW y \in Firsts(S, ahead, key), key[x] = key[y]
      PROVE  x = y
  BY <1>2 DEF Firsts, IsOrder
<1>3. ASSUME NEW x \in S
      PROVE  \E f \in Firsts(S, ahead, key) : key[f] = key[x] /\ (f = x \/ <<f, x>> \in ahead)
  <2> DEFINE T == {n \in Nat : \E y \in S : key[y] = key[x] /\ Rank(S, ahead, y) = n}
  <2>1. \A y \in S : Rank(S, ahead, y) \in Nat
    BY RankLess
  <2>2. T # {}
    BY <2>1
  <2>3. PICK n \in T : \A k \in T : n <= k
    <3>1. T \in SUBSET Nat
      OBVIOUS
    <3> HIDE DEF T
    <3> QED
      BY <2>2, <3>1, LeastNumber
  <2>4. PICK f \in S : key[f] = key[x] /\ Rank(S, ahead, f) = n
    BY <2>3
  <2>5. \A y \in S : key[y] = key[x] => ~(Rank(S, ahead, y) < Rank(S, ahead, f))
    BY <2>1, <2>3, <2>4
  <2> HIDE DEF T
  <2>6. \A y \in S : <<y, f>> \in ahead => key[y] # key[f]
    BY <2>4, <2>5, RankLess
  <2>7. f \in Firsts(S, ahead, key)
    BY <2>6 DEF Firsts
  <2>8. <<x, f>> \notin ahead
    BY <2>4, <2>6
  <2> QED
    BY <2>4, <2>7, <2>8 DEF IsOrder
<1> QED
  BY <1>1, <1>2, <1>3, SubOrder

(* The first elements of a sequence, size at most. *)
LEMMA PrefixIs ==
  ASSUME NEW X, NEW s \in Seq(X), NEW size \in Nat
  PROVE  /\ Slice(s, 0, size) \in Seq(X)
         /\ Len(Slice(s, 0, size)) = IF size > Len(s) THEN Len(s) ELSE size
         /\ \A n \in 1..Len(Slice(s, 0, size)) : n \in 1..Len(s) /\ Slice(s, 0, size)[n] = s[n]
<1> DEFINE t == Slice(s, 0, size)
<1>1. Len(s) \in Nat /\ 0 \in 0..Len(s) /\ 0 + size = size /\ Len(s) - 0 = Len(s)
  OBVIOUS
<1>2. t \in Seq(X) /\ Len(t) = (IF 0 + size > Len(s) THEN Len(s) - 0 ELSE size)
      /\ \A n \in 1..Len(t) : t[n] = s[0+n]
  BY <1>1, SliceIs
<1> HIDE DEF t
<1>3. Len(t) \in Nat /\ Len(t) <= Len(s)
  BY <1>1, <1>2
<1>4. \A n \in 1..Len(t) : n \in 1..Len(s) /\ 0 + n = n
  BY <1>1, <1>3
<1> QED
  BY <1>1, <1>2, <1>4 DEF t
----------------------------------------------------------------------------
(* Pages of results *)

(* The hits are the first of the different rows of s, and all of them if    *)
(* they are fewer than the limit.                                           *)
IsFirst(hits, s) ==
  /\ hits \in Seq(Refs) /\ Len(hits) <= Limit
  /\ \A m, n \in 1..Len(hits) : hits[m] = hits[n] => m = n
  /\ \A n \in 1..Len(hits) : \E j \in 1..Len(s) : s[j] = hits[n]
  /\ Len(hits) < Limit => \A j \in 1..Len(s) : \E n \in 1..Len(hits) : hits[n] = s[j]
  /\ \A n \in 1..Len(hits), j \in 1..Len(s) :
       (\A m \in 1..n : hits[m] # s[j]) => \E i \in 1..(j-1) : s[i] = hits[n]

(* new has the hits and then the first of each other kind, at most the      *)
(* limit: the places that its elements have in all.                         *)
IsCollected(new, hits, all) ==
  /\ new \in Seq(Refs) /\ Len(new) <= Limit /\ Len(hits) <= Len(new)
  /\ \A p, q \in 1..Len(new) : new[p] = new[q] => p = q
  /\ \E place \in [1..Len(new) -> 1..Len(all)] :
       /\ \A p \in 1..Len(new) : new[p] = all[place[p]]
       /\ \A p, q \in 1..Len(new) : p < q => place[p] < place[q]
       /\ \A p \in 1..Len(hits) : place[p] = p
       /\ \A n \in 1..Len(all) :
            \/ \E p \in 1..Len(new) : place[p] <= n /\ all[n] = new[p]
            \/ Len(new) = Limit /\ \A p \in 1..Len(new) : place[p] < n

(* What a page adds to the hits, as Collect has it (the loop of             *)
(* relevance_search).                                                       *)
LEMMA CollectIs ==
  ASSUME NEW hits \in Seq(Refs), NEW page \in Seq(Refs), Limit \in Nat,
         \A m, n \in 1..Len(hits) : hits[m] = hits[n] => m = n, Len(hits) <= Limit
  PROVE  IsCollected(Collect(hits, page), hits, hits \o page)
<1> DEFINE all == hits \o page
           P == Firsts(1..Len(all), Less(1..Len(all)), all)
           t == At(all, P)
           N == Cardinality(P)
           new == Collect(hits, page)
           K == IF Limit > N THEN N ELSE Limit
<1>1. /\ all \in Seq(Refs) /\ Len(all) = Len(hits) + Len(page)
      /\ \A n \in 1..Len(hits) : all[n] = hits[n]
      /\ Len(hits) \in Nat /\ Len(page) \in Nat /\ Len(all) \in Nat
      /\ DOMAIN all = 1..Len(all)
  OBVIOUS
<1>2. new = Slice(t, 0, Limit)
  BY <1>1 DEF Collect
<1> HIDE DEF all
<1>3. IsOrder(1..Len(all), Less(1..Len(all)))
  BY <1>1, LessIsOrder
<1>4. /\ P \in SUBSET (1..Len(all))
      /\ \A x, y \in P : all[x] = all[y] => x = y
      /\ \A x \in 1..Len(all) : \E f \in P :
           all[f] = all[x] /\ (f = x \/ <<f, x>> \in Less(1..Len(all)))
  <2> DEFINE S == 1..Len(all)
             a == Less(S)
  <2> HIDE DEF a, S
  <2>1. IsOrder(S, a)
    BY <1>3 DEF a, S
  <2>2. /\ Firsts(S, a, all) \in SUBSET S
        /\ \A x, y \in Firsts(S, a, all) : all[x] = all[y] => x = y
        /\ \A x \in S : \E f \in Firsts(S, a, all) : all[f] = all[x] /\ (f = x \/ <<f, x>> \in a)
    BY ONLY <2>1, FirstsIs
  <2>3. P = Firsts(S, a, all)
    BY DEF a, S
  <2> HIDE DEF P
  <2> QED
    BY <2>2, <2>3 DEF a, S
<1>5. \A x \in 1..Len(all) : \E f \in P : all[f] = all[x] /\ f <= x
  <2> SUFFICES ASSUME NEW x \in 1..Len(all)
               PROVE  \E f \in P : all[f] = all[x] /\ f <= x
    OBVIOUS
  <2>1. PICK f \in P : all[f] = all[x] /\ (f = x \/ <<f, x>> \in Less(1..Len(all)))
    BY <1>4
  <2>2. f <= x
    BY <1>1, <1>4, <2>1 DEF Less
  <2> QED
    BY <2>1, <2>2
<1>6. 1..Len(hits) \subseteq P
  <2> SUFFICES ASSUME NEW n \in 1..Len(hits)
               PROVE  n \in P
    OBVIOUS
  <2>1. n \in 1..Len(all)
    BY <1>1
  <2>2. PICK f \in P : all[f] = all[n] /\ f <= n
    BY <1>5, <2>1
  <2>3. f \in 1..Len(hits)
    BY <1>1, <1>4, <2>2
  <2>4. f = n
    BY <1>1, <2>2, <2>3
  <2> QED
    BY <2>2, <2>4
<1> HIDE DEF P
<1>7. /\ N \in Nat /\ t \in Seq(Refs) /\ Len(t) = N
      /\ \E place : IsPlacing(place, all, P)
  BY ONLY <1>1, <1>4, AtIs DEF t, N
<1>8. PICK place \in [1..N -> P] :
              /\ \A p \in 1..N : t[p] = all[place[p]]
              /\ \A p, q \in 1..N : p < q => place[p] < place[q]
              /\ \A n \in P : \E p \in 1..N : place[p] = n
              /\ \A L \in 0..Len(all) : 1..L \subseteq P => L <= N /\ \A p \in 1..L : place[p] = p
  BY ONLY <1>7 DEF IsPlacing, t, N
<1> HIDE DEF t, N
<1>9. Len(hits) <= N /\ \A p \in 1..Len(hits) : place[p] = p
  <2>1. Len(hits) \in 0..Len(all)
    BY <1>1
  <2> QED
    BY <1>6, <1>8, <2>1
<1>10. new \in Seq(Refs) /\ Len(new) = K /\ \A n \in 1..K : new[n] = t[n]
  <2> DEFINE u == Slice(t, 0, Limit)
  <2>1. t \in Seq(Refs) /\ Len(t) = N
    BY <1>7
  <2>2. /\ u \in Seq(Refs)
        /\ Len(u) = IF Limit > Len(t) THEN Len(t) ELSE Limit
        /\ \A n \in 1..Len(u) : n \in 1..Len(t) /\ u[n] = t[n]
    BY ONLY Limit \in Nat, <2>1, PrefixIs
  <2> HIDE DEF u, new
  <2>3. new = u
    BY <1>2 DEF u
  <2> QED
    BY ONLY <2>1, <2>2, <2>3 DEF K
<1> HIDE DEF new
<1>11. K \in Nat /\ K <= N /\ K <= Limit /\ Len(hits) <= K /\ (K = N \/ K = Limit)
  BY ONLY Limit \in Nat, Len(hits) <= Limit, <1>1, <1>7, <1>9 DEF K
<1> HIDE DEF K
<1> DEFINE short == [p \in 1..K |-> place[p]]
<1>12. \A p \in 1..K : p \in 1..N /\ short[p] = place[p] /\ place[p] \in P /\ place[p] \in 1..Len(all)
  <2>1. \A p \in 1..K : p \in 1..N /\ short[p] = place[p]
    BY <1>7, <1>11
  <2>2. \A p \in 1..N : place[p] \in P
    OBVIOUS
  <2> HIDE DEF short
  <2> QED
    BY <1>4, <2>1, <2>2
<1>13. short \in [1..K -> 1..Len(all)]
  BY <1>12
<1> HIDE DEF short
<1>14. \A p \in 1..K : new[p] = all[short[p]]
  BY <1>8, <1>10, <1>12
<1>15. \A p, q \in 1..K : p < q => short[p] < short[q]
  BY <1>8, <1>12
<1>16. \A p, q \in 1..K : new[p] = new[q] => p = q
  <2> SUFFICES ASSUME NEW p \in 1..K, NEW q \in 1..K, new[p] = new[q]
               PROVE  p = q
    OBVIOUS
  <2>1. short[p] = short[q]
    BY <1>4, <1>12, <1>14
  <2>2. short[p] \in 1..Len(all) /\ short[q] \in 1..Len(all) /\ p \in Nat /\ q \in Nat
    BY <1>11, <1>13
  <2> QED
    BY <1>15, <2>1, <2>2
<1>17. \A p \in 1..Len(hits) : short[p] = p
  BY <1>1, <1>9, <1>11, <1>12
<1>18. ASSUME NEW n \in 1..Len(all)
       PROVE  \/ \E p \in 1..K : short[p] <= n /\ all[n] = new[p]
              \/ K = Limit /\ \A p \in 1..K : short[p] < n
  <2>1. PICK f \in P : all[f] = all[n] /\ f <= n
    BY <1>5
  <2>2. PICK p \in 1..N : place[p] = f
    BY <1>8
  <2>3. CASE p \in 1..K
    BY <1>12, <1>14, <2>1, <2>2, <2>3
  <2>4. CASE p \notin 1..K
    <3>1. K < p /\ K = Limit
      BY <1>7, <1>11, <2>4
    <3>2. ASSUME NEW q \in 1..K
          PROVE  short[q] < n
      <4>1. q \in 1..N /\ q < p
        BY <1>7, <1>11, <3>1
      <4>2. short[q] < f
        BY <1>8, <1>12, <2>2, <4>1
      <4>3. short[q] \in Nat /\ f \in Nat /\ n \in Nat
        <5>1. short[q] \in 1..Len(all)
          BY ONLY <1>13, q \in 1..K
        <5>2. f \in 1..Len(all) /\ n \in 1..Len(all)
          BY <1>4
        <5> QED
          BY ONLY <1>1, <5>1, <5>2
      <4> QED
        BY <2>1, <4>2, <4>3
    <3> QED
      BY <3>1, <3>2
  <2> QED
    BY <2>3, <2>4
<1> QED
  <2>1. IsCollected(new, hits, all)
    BY <1>10, <1>11, <1>13, <1>14, <1>15, <1>16, <1>17, <1>18 DEF IsCollected
  <2> QED
    BY <2>1 DEF new, all

(* A page more: the hits are the first of the rows so far. *)
LEMMA CollectKeeps ==
  ASSUME NEW hits, NEW s \in Seq(Refs), NEW page \in Seq(Refs), Limit \in Nat, IsFirst(hits, s)
  PROVE  IsFirst(Collect(hits, page), s \o page)
<1> DEFINE all == hits \o page
           rows == s \o page
           new == Collect(hits, page)
           L == Len(hits)
           M == Len(s)
           K == Len(new)
<1>0. hits \in Seq(Refs)
  BY DEF IsFirst
<1>1. /\ L \in Nat /\ M \in Nat /\ Len(page) \in Nat
      /\ Len(all) = L + Len(page) /\ Len(rows) = M + Len(page)
  BY <1>0
<1>2. /\ \A n \in 1..L : all[n] = hits[n]
      /\ \A q \in 1..Len(page) : all[L+q] = page[q]
  BY <1>0
<1>3. /\ \A n \in 1..M : rows[n] = s[n]
      /\ \A q \in 1..Len(page) : rows[M+q] = page[q]
  OBVIOUS
<1>4. IsCollected(new, hits, all)
  BY <1>0, CollectIs DEF IsFirst
<1> HIDE DEF all, rows, new
<1>5. /\ new \in Seq(Refs) /\ K <= Limit /\ L <= K /\ K \in Nat
      /\ \A p, q \in 1..K : new[p] = new[q] => p = q
  BY <1>4 DEF IsCollected
<1>6. PICK place \in [1..K -> 1..Len(all)] :
       /\ \A p \in 1..K : new[p] = all[place[p]]
       /\ \A p, q \in 1..K : p < q => place[p] < place[q]
       /\ \A p \in 1..L : place[p] = p
       /\ \A n \in 1..Len(all) :
            \/ \E p \in 1..K : place[p] <= n /\ all[n] = new[p]
            \/ K = Limit /\ \A p \in 1..K : place[p] < n
  BY <1>4 DEF IsCollected
<1>7. /\ L <= Limit
      /\ \A n \in 1..L : \E j \in 1..M : s[j] = hits[n]
      /\ L < Limit => \A j \in 1..M : \E n \in 1..L : hits[n] = s[j]
      /\ \A n \in 1..L, j \in 1..M :
           (\A m \in 1..n : hits[m] # s[j]) => \E i \in 1..(j-1) : s[i] = hits[n]
  BY DEF IsFirst
<1> HIDE DEF L, M, K
<1>8. \A n \in 1..L : n \in 1..K /\ new[n] = hits[n]
  BY <1>1, <1>2, <1>5, <1>6
<1>9. ASSUME NEW p \in 1..K, p > L
      PROVE  place[p] - L \in 1..Len(page) /\ new[p] = page[place[p] - L]
  <2>1. place[p] > L
    <3>1. CASE L = 0
      BY <1>1, <1>6, <3>1
    <3>2. CASE L # 0
      <4>1. L \in 1..L /\ L \in 1..K /\ L < p
        BY <1>1, <1>5, <1>9, <3>2
      <4>2. place[L] = L /\ place[L] < place[p]
        BY <1>6, <4>1
      <4> QED
        BY <4>2
    <3> QED
      BY <3>1, <3>2
  <2>2. place[p] \in 1..(L + Len(page))
    BY <1>1, <1>6
  <2>3. place[p] - L \in 1..Len(page) /\ L + (place[p] - L) = place[p]
    BY <1>1, <2>1, <2>2
  <2> QED
    BY <1>2, <1>6, <2>3
<1>10. ASSUME NEW n \in 1..K
       PROVE  \E j \in 1..Len(rows) : rows[j] = new[n]
  <2>1. CASE n <= L
    <3>1. PICK j \in 1..M : s[j] = hits[n]
      BY <1>1, <1>7, <2>1
    <3>2. j \in 1..Len(rows) /\ n \in 1..L
      BY <1>1, <2>1
    <3> QED
      BY <1>3, <1>8, <3>1, <3>2
  <2>2. CASE n > L
    <3>1. place[n] - L \in 1..Len(page) /\ new[n] = page[place[n] - L]
      BY <1>9, <2>2
    <3>2. M + (place[n] - L) \in 1..Len(rows)
      BY <1>1, <3>1
    <3> QED
      BY <1>3, <3>1, <3>2
  <2>3. n \in Int /\ L \in Int
    BY ONLY <1>1, n \in 1..K
  <2>4. n <= L \/ n > L
    BY ONLY <2>3
  <2> QED
    BY ONLY <2>1, <2>2, <2>4
<1>11. ASSUME K < Limit, NEW j \in 1..Len(rows)
       PROVE  \E n \in 1..K : new[n] = rows[j]
  <2>1. CASE j <= M
    <3>1. j \in 1..M /\ L < Limit
      BY <1>1, <1>5, <1>11, <2>1
    <3>2. PICK n \in 1..L : hits[n] = s[j]
      BY <1>7, <3>1
    <3> QED
      BY <1>3, <1>8, <3>1, <3>2
  <2>2. CASE j > M
    <3>1. j - M \in 1..Len(page) /\ M + (j - M) = j /\ L + (j - M) \in 1..Len(all)
      BY <1>1, <2>2
    <3>2. rows[j] = page[j - M] /\ all[L + (j - M)] = page[j - M]
      BY <1>2, <1>3, <3>1
    <3>3. K # Limit
      BY <1>5, <1>11
    <3>4. \E n \in 1..K : all[L + (j - M)] = new[n]
      BY <1>6, <3>1, <3>3
    <3> QED
      BY <3>2, <3>4
  <2> QED
    BY <1>1, <2>1, <2>2
<1>12. ASSUME NEW n \in 1..K, NEW j \in 1..Len(rows), \A m \in 1..n : new[m] # rows[j]
       PROVE  \E i \in 1..(j-1) : rows[i] = new[n]
  <2>0. n \in Nat /\ j \in Nat
    OBVIOUS
  <2>1. CASE n <= L /\ j <= M
    <3>1. n \in 1..L /\ j \in 1..M
      BY <1>1, <2>1
    <3>2. \A m \in 1..n : m \in 1..L /\ hits[m] # s[j]
      BY <1>1, <1>3, <1>8, <1>12, <3>1
    <3>3. PICK i \in 1..(j-1) : s[i] = hits[n]
      BY <1>7, <3>1, <3>2
    <3>4. i \in 1..M
      BY <1>1, <3>1
    <3> QED
      BY <1>3, <1>8, <3>1, <3>3, <3>4
  <2>2. CASE n <= L /\ j > M
    <3>1. n \in 1..L
      BY <1>1, <2>2
    <3>2. PICK i \in 1..M : s[i] = hits[n]
      BY <1>7, <3>1
    <3>3. i \in 1..(j-1)
      BY <1>1, <2>0, <2>2
    <3> QED
      BY <1>3, <1>8, <3>1, <3>2, <3>3
  <2>3. CASE n > L
    <3>1. place[n] - L \in 1..Len(page) /\ new[n] = page[place[n] - L]
      BY <1>9, <2>3
    <3>2. j > M
      <4>1. SUFFICES ASSUME j <= M PROVE FALSE
        BY <1>1, <2>0
      <4>2. j \in 1..M /\ L < Limit
        BY <1>1, <1>5, <2>0, <2>3, <4>1
      <4>3. PICK m \in 1..L : hits[m] = s[j]
        BY <1>7, <4>2
      <4>4. m \in 1..n /\ new[m] = rows[j]
        BY <1>1, <1>3, <1>8, <2>0, <2>3, <4>2, <4>3
      <4> QED
        BY <1>12, <4>4
    <3>3. /\ j - M \in 1..Len(page) /\ M + (j - M) = j /\ L + (j - M) \in 1..Len(all)
      BY <1>1, <2>0, <3>2
    <3>4. rows[j] = page[j - M] /\ all[L + (j - M)] = page[j - M]
      BY <1>2, <1>3, <3>3
    <3>5. place[n] < L + (j - M)
      <4>1. CASE \A p \in 1..K : place[p] < L + (j - M)
        BY <4>1
      <4>2. CASE \E p \in 1..K : place[p] <= L + (j - M) /\ all[L + (j - M)] = new[p]
        <5>1. PICK p \in 1..K : place[p] <= L + (j - M) /\ all[L + (j - M)] = new[p]
          BY <4>2
        <5>2. n < p
          BY <1>12, <2>0, <3>4, <5>1
        <5>3. place[n] < place[p]
          BY <1>6, <5>2
        <5>4. place[n] \in Nat /\ place[p] \in Nat
          OBVIOUS
        <5> QED
          BY <1>1, <2>0, <5>1, <5>3, <5>4
      <4> QED
        BY <1>6, <3>3, <4>1, <4>2
    <3>6. M + (place[n] - L) \in 1..(j-1)
      <4>1. place[n] \in Nat
        BY <1>1, <1>6
      <4> QED
        BY <1>1, <2>0, <3>1, <3>5, <4>1
    <3>7. rows[M + (place[n] - L)] = new[n]
      BY <1>3, <3>1
    <3> QED
      BY <3>6, <3>7
  <2> QED
    BY <1>1, <2>0, <2>1, <2>2, <2>3
<1>13. IsFirst(new, rows)
  BY <1>5, <1>10, <1>11, <1>12 DEF IsFirst, K
<1> QED
  BY <1>13 DEF new, rows

(* When there are enough hits, those of the rows to come are no matter. *)
LEMMA FirstOfMore ==
  ASSUME NEW hits, NEW s \in Seq(Refs), NEW k \in 0..Len(s), Limit \in Nat,
         IsFirst(hits, SubSeq(s, 1, k)), Len(hits) = Limit \/ k = Len(s)
  PROVE  IsFirst(hits, s)
<1> DEFINE t == SubSeq(s, 1, k)
<1>1. /\ Len(s) \in Nat /\ k \in Nat /\ k <= Len(s)
      /\ Len(t) = k /\ \A i \in 1..k : t[i] = s[i]
  OBVIOUS
<1>2. \A i \in 1..k : i \in 1..Len(s)
  BY <1>1
<1> HIDE DEF t
<1>3. IsFirst(hits, t)
  BY DEF t
<1>4. /\ hits \in Seq(Refs) /\ Len(hits) <= Limit
      /\ \A m, n \in 1..Len(hits) : hits[m] = hits[n] => m = n
      /\ \A n \in 1..Len(hits) : \E j \in 1..k : t[j] = hits[n]
      /\ Len(hits) < Limit => \A j \in 1..k : \E n \in 1..Len(hits) : hits[n] = t[j]
      /\ \A n \in 1..Len(hits), j \in 1..k :
           (\A m \in 1..n : hits[m] # t[j]) => \E i \in 1..(j-1) : t[i] = hits[n]
  BY <1>1, <1>3 DEF IsFirst
<1>5. \A n \in 1..Len(hits) : \E j \in 1..Len(s) : s[j] = hits[n]
  BY <1>1, <1>2, <1>4
<1>6. ASSUME Len(hits) < Limit, NEW j \in 1..Len(s)
      PROVE  \E n \in 1..Len(hits) : hits[n] = s[j]
  <2>1. k = Len(s)
    BY <1>6
  <2> QED
    BY <1>1, <1>4, <1>6, <2>1
<1>7. ASSUME NEW n \in 1..Len(hits), NEW j \in 1..Len(s), \A m \in 1..n : hits[m] # s[j]
      PROVE  \E i \in 1..(j-1) : s[i] = hits[n]
  <2>1. CASE j <= k
    <3>1. j \in 1..k
      BY <2>1
    <3>2. \A m \in 1..n : hits[m] # t[j]
      BY <1>1, <1>7, <3>1
    <3>3. PICK i \in 1..(j-1) : t[i] = hits[n]
      BY <1>4, <3>1, <3>2
    <3>4. i \in 1..k
      BY <1>1, <3>1
    <3> QED
      BY <1>1, <3>3, <3>4
  <2>2. CASE j > k
    <3>1. PICK i \in 1..k : t[i] = hits[n]
      BY <1>4
    <3>2. i \in 1..(j-1)
      BY <1>1, <2>2
    <3> QED
      BY <1>1, <3>1, <3>2
  <2> QED
    BY <1>1, <2>1, <2>2
<1> QED
  BY <1>4, <1>5, <1>6, <1>7 DEF IsFirst

(* What HitsAreTheFirst says of such hits. *)
LEMMA FirstRows ==
  ASSUME NEW hits, NEW rows \in Seq(Refs), IsFirst(hits, rows)
  PROVE  /\ Cardinality(ToSet(hits)) = Len(hits)
         /\ ToSet(hits) \subseteq ToSet(rows)
         /\ Len(hits) < Limit => ToSet(hits) = ToSet(rows)
         /\ \A r \in ToSet(rows), n \in DOMAIN hits :
              (\A m \in 1..n : hits[m] # r) => FirstRow(rows, hits[n]) < FirstRow(rows, r)
<1>1. /\ hits \in Seq(Refs) /\ Len(hits) \in Nat /\ Len(rows) \in Nat
      /\ DOMAIN hits = 1..Len(hits) /\ DOMAIN rows = 1..Len(rows)
  BY DEF IsFirst
<1>2. Cardinality(ToSet(hits)) = Len(hits)
  <2>1. hits \in Bijection(1..Len(hits), ToSet(hits))
    <3>1. hits \in [1..Len(hits) -> ToSet(hits)]
      BY <1>1 DEF ToSet
    <3>2. \A m, n \in 1..Len(hits) : hits[m] = hits[n] => m = n
      BY DEF IsFirst
    <3>3. \A x \in ToSet(hits) : \E n \in 1..Len(hits) : hits[n] = x
      BY <1>1 DEF ToSet
    <3> QED
      BY <3>1, <3>2, <3>3 DEF Bijection, Injection, IsInjective, Surjection
  <2>2. ExistsBijection(1..Len(hits), ToSet(hits))
    BY <2>1 DEF ExistsBijection
  <2> QED
    BY <1>1, <2>2, CountIs, FS_Bijection
<1>3. ToSet(hits) \subseteq ToSet(rows) /\ (Len(hits) < Limit => ToSet(hits) = ToSet(rows))
  <2>1. \A n \in DOMAIN hits : \E j \in DOMAIN rows : rows[j] = hits[n]
    BY <1>1 DEF IsFirst
  <2>2. Len(hits) < Limit => \A j \in DOMAIN rows : \E n \in DOMAIN hits : hits[n] = rows[j]
    BY <1>1 DEF IsFirst
  <2>3. ToSet(hits) \subseteq ToSet(rows)
    BY ONLY <2>1 DEF ToSet
  <2>4. ASSUME Len(hits) < Limit
        PROVE  ToSet(rows) \subseteq ToSet(hits)
    BY ONLY <2>2, <2>4 DEF ToSet
  <2> QED
    BY <2>3, <2>4
<1>4. \A r \in ToSet(rows) : /\ FirstRow(rows, r) \in 1..Len(rows) /\ rows[FirstRow(rows, r)] = r
                             /\ \A m \in 1..Len(rows) : rows[m] = r => FirstRow(rows, r) <= m
  <2> SUFFICES ASSUME NEW r \in ToSet(rows)
               PROVE  /\ FirstRow(rows, r) \in 1..Len(rows) /\ rows[FirstRow(rows, r)] = r
                      /\ \A m \in 1..Len(rows) : rows[m] = r => FirstRow(rows, r) <= m
    OBVIOUS
  <2> DEFINE T == {n \in 1..Len(rows) : rows[n] = r}
             f == FirstRow(rows, r)
  <2>1. T \in SUBSET Nat /\ T # {}
    BY <1>1 DEF ToSet
  <2>2. PICK n \in T : \A k \in T : n <= k
    <3> HIDE DEF T
    <3> QED
      BY <2>1, LeastNumber
  <2>3. n \in DOMAIN rows /\ rows[n] = r /\ \A m \in 1..(n-1) : rows[m] # r
    <3>1. n \in 1..Len(rows) /\ rows[n] = r
      BY <2>2
    <3>2. \A m \in 1..(n-1) : m \in 1..Len(rows) /\ ~(n <= m)
      BY <1>1, <3>1
    <3> QED
      BY <1>1, <2>2, <3>1, <3>2
  <2>4. f \in DOMAIN rows /\ rows[f] = r /\ \A m \in 1..(f-1) : rows[m] # r
    BY <2>3 DEF FirstRow
  <2> HIDE DEF f
  <2>5. \A m \in 1..Len(rows) : rows[m] = r => f <= m
    BY <1>1, <2>4
  <2> QED
    BY <1>1, <2>4, <2>5 DEF f
<1>5. ASSUME NEW r \in ToSet(rows), NEW n \in 1..Len(hits), \A m \in 1..n : hits[m] # r
      PROVE  FirstRow(rows, hits[n]) < FirstRow(rows, r)
  <2> DEFINE j == FirstRow(rows, r)
             h == FirstRow(rows, hits[n])
  <2>1. j \in 1..Len(rows) /\ rows[j] = r
    BY <1>4
  <2>2. hits[n] \in ToSet(rows)
    BY <1>1, <1>3 DEF ToSet
  <2>3. h \in 1..Len(rows) /\ \A m \in 1..Len(rows) : rows[m] = hits[n] => h <= m
    BY <1>4, <2>2
  <2> HIDE DEF j, h
  <2>4. PICK i \in 1..(j-1) : rows[i] = hits[n]
    BY <1>5, <2>1 DEF IsFirst
  <2>5. i \in 1..Len(rows) /\ h <= i
    BY <1>1, <2>1, <2>3, <2>4
  <2>6. h < j
    BY <1>1, <2>1, <2>3, <2>5
  <2> QED
    BY <2>6 DEF j, h
<1> QED
  BY <1>1, <1>2, <1>3, <1>5

----------------------------------------------------------------------------
(* Sums *)

(* What is defined from the number before it exists. *)
IsRecursive(f, X, N, base, step) ==
  f \in [0..N -> X] /\ f[0] = base /\ \A m \in 1..N : f[m] = step[<<m, f[m-1]>>]

(* There is such a function, for every number of steps. *)
LEMMA RecursiveExists ==
  ASSUME NEW X, NEW N \in Nat, NEW base \in X, NEW step \in [(1..N) \X X -> X]
  PROVE  \E f : IsRecursive(f, X, N, base, step)
<1> DEFINE IsUpTo(f, n) == IsRecursive(f, X, n, base, step)
           T == {n \in 0..N : \E f : IsUpTo(f, n)}
<1>1. 0 \in T
  <2>1. IsUpTo([n \in 0..0 |-> base], 0)
    BY DEF IsRecursive
  <2>2. 0 \in 0..N
    OBVIOUS
  <2> HIDE DEF IsUpTo
  <2> QED
    BY <2>1, <2>2
<1>2. ASSUME NEW n \in 0..(N-1), n \in T
      PROVE  n + 1 \in T
  <2>1. PICK f : IsUpTo(f, n)
    BY <1>2
  <2> DEFINE g == [m \in 0..(n+1) |-> IF m = n + 1 THEN step[<<n + 1, f[n]>>] ELSE f[m]]
  <2>a. f \in [0..n -> X] /\ f[0] = base /\ \A m \in 1..n : f[m] = step[<<m, f[m-1]>>]
    BY <2>1 DEF IsRecursive
  <2>2. f[n] \in X /\ n + 1 \in 1..N /\ \A m \in 0..(n+1) : m # n + 1 => m \in 0..n
    BY <2>a
  <2>3. step[<<n + 1, f[n]>>] \in X
    BY <2>2
  <2>4. g \in [0..(n+1) -> X]
    BY <2>a, <2>2, <2>3
  <2>5. g[0] = base
    BY <2>a
  <2>6. ASSUME NEW m \in 1..(n+1)
        PROVE  g[m] = step[<<m, g[m-1]>>]
    <3>1. g[m-1] = f[m-1]
      OBVIOUS
    <3>2. CASE m = n + 1
      <4>1. g[m] = step[<<n + 1, f[n]>>] /\ m - 1 = n
        BY <3>2
      <4> QED
        BY <3>1, <3>2, <4>1
    <3>3. CASE m # n + 1
      <4>1. m \in 1..n /\ g[m] = f[m]
        BY <3>3
      <4> QED
        BY <2>a, <3>1, <4>1
    <3> QED
      BY <3>2, <3>3
  <2>7. IsUpTo(g, n + 1)
    <3> HIDE DEF g
    <3> QED
      BY <2>4, <2>5, <2>6 DEF IsRecursive
  <2>8. n + 1 \in 0..N
    OBVIOUS
  <2> HIDE DEF g, IsUpTo
  <2> QED
    BY <2>7, <2>8
<1> HIDE DEF T
<1>3. N \in T
  <2>1. \A n \in 0..N : n \in T
    BY <1>1, <1>2, UpTo
  <2> QED
    BY <2>1
<1> QED
  BY <1>3 DEF T

(* The function that Total is the last value of. *)
IsTotal(t, f, n) == t = [m \in 0..n |-> IF m = 0 THEN 0 ELSE t[m-1] + f[m]]

(* Total adds up: every sum is the one before and one number more. *)
LEMMA TotalIs ==
  ASSUME NEW n \in Nat, NEW f \in [1..n -> Nat]
  PROVE  \E t \in [0..n -> Nat] : /\ t[0] = 0 /\ \A m \in 1..n : t[m] = t[m-1] + f[m]
                                  /\ Total(f, n) = t[n]
<1> DEFINE t == CHOOSE t : IsTotal(t, f, n)
<1>1. Total(f, n) = t[n]
  BY DEF Total, IsTotal
<1>2. \E g : IsTotal(g, f, n)
  <2> DEFINE step == [p \in (1..n) \X Nat |-> p[2] + f[p[1]]]
  <2>1. step \in [(1..n) \X Nat -> Nat]
    OBVIOUS
  <2>2. \A m \in 1..n, k \in Nat : step[<<m, k>>] = k + f[m]
    OBVIOUS
  <2> HIDE DEF step
  <2>3. PICK g \in [0..n -> Nat] : g[0] = 0 /\ \A m \in 1..n : g[m] = step[<<m, g[m-1]>>]
    <3>1. 0 \in Nat
      OBVIOUS
    <3> QED
      <4>1. \E g : IsRecursive(g, Nat, n, 0, step)
        BY <2>1, <3>1, RecursiveExists
      <4> QED
        BY <4>1 DEF IsRecursive
  <2>4. \A m \in 0..n : g[m] = IF m = 0 THEN 0 ELSE g[m-1] + f[m]
    <3>1. ASSUME NEW m \in 1..n
          PROVE  g[m] = g[m-1] + f[m]
      <4>1. g[m-1] \in Nat
        OBVIOUS
      <4> QED
        BY <2>2, <2>3, <4>1
    <3> QED
      BY <2>3, <3>1
  <2>5. g = [m \in 0..n |-> IF m = 0 THEN 0 ELSE g[m-1] + f[m]]
    BY <2>4
  <2> QED
    BY <2>5 DEF IsTotal
<1>3. IsTotal(t, f, n)
  BY <1>2
<1> HIDE DEF t
<1>4. /\ t = [m \in 0..n |-> IF m = 0 THEN 0 ELSE t[m-1] + f[m]]
      /\ \A m \in 0..n : t[m] = IF m = 0 THEN 0 ELSE t[m-1] + f[m]
  BY <1>3 DEF IsTotal
<1>5. t[0] = 0 /\ \A m \in 1..n : t[m] = t[m-1] + f[m]
  BY <1>4
<1>6. t \in [0..n -> Nat]
  <2> DEFINE T == {m \in 0..n : t[m] \in Nat}
  <2>1. 0 \in T
    BY <1>5
  <2>2. ASSUME NEW m \in 0..(n-1), m \in T
        PROVE  m + 1 \in T
    <3>1. m + 1 \in 1..n /\ m + 1 - 1 = m /\ t[m] \in Nat
      BY <2>2
    <3>2. t[m+1] = t[m] + f[m+1] /\ f[m+1] \in Nat
      BY <1>5, <3>1
    <3> QED
      BY <3>1, <3>2
  <2> HIDE DEF T
  <2>3. \A m \in 0..n : m \in T
    BY <2>1, <2>2, UpTo
  <2>4. \A m \in 0..n : t[m] \in Nat
    BY <2>3 DEF T
  <2> QED
    BY <1>4, <2>4
<1> QED
  BY <1>1, <1>5, <1>6

(* A sum of numbers that are no more is no more. *)
LEMMA TotalAtMost ==
  ASSUME NEW n \in Nat, NEW f \in [1..n -> Nat], NEW g \in [1..n -> Nat],
         \A m \in 1..n : f[m] <= g[m]
  PROVE  Total(f, n) \in Nat /\ Total(g, n) \in Nat /\ Total(f, n) <= Total(g, n)
<1>1. PICK t \in [0..n -> Nat] : t[0] = 0 /\ (\A m \in 1..n : t[m] = t[m-1] + f[m]) /\ Total(f, n) = t[n]
  BY TotalIs
<1>2. PICK u \in [0..n -> Nat] : u[0] = 0 /\ (\A m \in 1..n : u[m] = u[m-1] + g[m]) /\ Total(g, n) = u[n]
  BY TotalIs
<1> DEFINE T == {m \in 0..n : t[m] <= u[m]}
<1>3. 0 \in T
  BY <1>1, <1>2
<1>4. ASSUME NEW m \in 0..(n-1), m \in T
      PROVE  m + 1 \in T
  <2>1. m + 1 \in 1..n /\ m \in 0..n /\ m + 1 - 1 = m /\ t[m] <= u[m]
    BY <1>4
  <2>2. t[m+1] = t[m] + f[m+1] /\ u[m+1] = u[m] + g[m+1] /\ f[m+1] <= g[m+1]
    BY <1>1, <1>2, <2>1
  <2>3. t[m] \in Nat /\ u[m] \in Nat /\ f[m+1] \in Nat /\ g[m+1] \in Nat
    BY <2>1
  <2>4. t[m+1] <= u[m+1] /\ m + 1 \in 0..n
    BY <2>1, <2>2, <2>3
  <2> QED
    BY <2>4
<1> HIDE DEF T
<1>5. \A m \in 0..n : m \in T
  BY <1>3, <1>4, UpTo
<1>6. n \in 0..n
  OBVIOUS
<1> QED
  BY <1>1, <1>2, <1>5, <1>6 DEF T

(* A sum with at most one part that is not zero. *)
LEMMA TotalOne ==
  ASSUME NEW n \in Nat, NEW f \in [1..n -> Nat], NEW k \in 1..n, \A m \in 1..n : m # k => f[m] = 0
  PROVE  Total(f, n) = f[k]
<1>1. PICK t \in [0..n -> Nat] : t[0] = 0 /\ (\A m \in 1..n : t[m] = t[m-1] + f[m]) /\ Total(f, n) = t[n]
  BY TotalIs
<1> DEFINE T == {m \in 0..n : t[m] = IF m < k THEN 0 ELSE f[k]}
<1>2. 0 \in T
  BY <1>1
<1>3. ASSUME NEW m \in 0..(n-1), m \in T
      PROVE  m + 1 \in T
  <2>1. m + 1 \in 1..n /\ m + 1 \in 0..n /\ m + 1 - 1 = m /\ t[m] = IF m < k THEN 0 ELSE f[k]
    BY <1>3
  <2>2. t[m+1] = t[m] + f[m+1]
    BY <1>1, <2>1
  <2>a. m + 1 # k => f[m+1] = 0
    BY <2>1
  <2>3. f[k] \in Nat /\ k \in Nat
    OBVIOUS
  <2>4. t[m+1] = IF m + 1 < k THEN 0 ELSE f[k]
    BY <2>1, <2>2, <2>a, <2>3
  <2> QED
    BY <2>1, <2>4
<1> HIDE DEF T
<1>4. \A m \in 0..n : m \in T
  BY <1>2, <1>3, UpTo
<1>5. n \in 0..n /\ ~(n < k)
  OBVIOUS
<1> QED
  BY <1>1, <1>4, <1>5 DEF T

(* A sum of zeros. *)
LEMMA TotalZero ==
  ASSUME NEW n \in Nat, NEW f \in [1..n -> Nat], \A m \in 1..n : f[m] = 0
  PROVE  Total(f, n) = 0
<1>1. CASE n = 0
  <2>1. PICK t \in [0..n -> Nat] : t[0] = 0 /\ Total(f, n) = t[n]
    BY TotalIs
  <2> QED
    BY <1>1, <2>1
<1>2. CASE n # 0
  <2>1. 1 \in 1..n /\ f[1] = 0
    BY <1>2
  <2> QED
    BY <2>1, TotalOne
<1> QED
  BY <1>1, <1>2

(* The scale is a number: a product of numbers. *)
LEMMA Scales == Scale \in Nat
<1>1. Limit \in Nat
  BY RetrievalAssumption
<1> DEFINE IsScale(t) == t = [n \in 0..Limit |-> IF n = 0 THEN 1 ELSE t[n-1] * (RankConstant + n)]
           t == CHOOSE t : IsScale(t)
<1>2. Scale = t[Limit]
  BY DEF Scale
<1>3. \E g : IsScale(g)
  <2> DEFINE step == [p \in (1..Limit) \X Nat |-> p[2] * (RankConstant + p[1])]
  <2>1. \A m \in 1..Limit, k \in Nat : k * (RankConstant + m) \in Nat
    BY DEF RankConstant
  <2>2. step \in [(1..Limit) \X Nat -> Nat] /\ \A m \in 1..Limit, k \in Nat : step[<<m, k>>] = k * (RankConstant + m)
    BY <2>1
  <2> HIDE DEF step
  <2>3. PICK g \in [0..Limit -> Nat] : g[0] = 1 /\ \A m \in 1..Limit : g[m] = step[<<m, g[m-1]>>]
    <3>1. 1 \in Nat
      OBVIOUS
    <3> QED
      <4>1. \E g : IsRecursive(g, Nat, Limit, 1, step)
        BY <1>1, <2>2, <3>1, RecursiveExists
      <4> QED
        BY <4>1 DEF IsRecursive
  <2>4. \A m \in 0..Limit : g[m] = IF m = 0 THEN 1 ELSE g[m-1] * (RankConstant + m)
    <3>1. ASSUME NEW m \in 1..Limit
          PROVE  g[m] = g[m-1] * (RankConstant + m)
      <4>1. g[m-1] \in Nat
        BY <1>1
      <4> QED
        BY <2>2, <2>3, <4>1
    <3> QED
      BY <1>1, <2>3, <3>1
  <2>5. IsScale(g)
    BY <2>4
  <2> QED
    BY <2>5
<1>4. IsScale(t)
  <2> HIDE DEF IsScale
  <2> QED
    BY <1>3
<1> HIDE DEF t
<1>5. \A m \in 0..Limit : t[m] = IF m = 0 THEN 1 ELSE t[m-1] * (RankConstant + m)
  BY <1>4
<1> DEFINE T == {m \in 0..Limit : t[m] \in Nat}
<1>6. 0 \in T
  BY <1>1, <1>5
<1>7. ASSUME NEW m \in 0..(Limit-1), m \in T
      PROVE  m + 1 \in T
  <2>1. m + 1 \in 0..Limit /\ m + 1 # 0 /\ m + 1 - 1 = m /\ t[m] \in Nat
    BY <1>1, <1>7
  <2>2. t[m+1] = t[m] * (RankConstant + (m + 1)) /\ RankConstant + (m + 1) \in Nat
    BY <1>5, <2>1 DEF RankConstant
  <2>3. t[m+1] \in Nat
    BY <2>1, <2>2
  <2> QED
    BY <2>1, <2>3
<1> HIDE DEF T
<1>8. \A m \in 0..Limit : m \in T
  BY <1>1, <1>6, <1>7, UpTo
<1>9. Limit \in 0..Limit
  BY <1>1
<1> QED
  BY <1>2, <1>8, <1>9 DEF T

(* What is divided by more is no more. *)
LEMMA DivAtMost ==
  ASSUME NEW s \in Nat, NEW a \in Nat \ {0}, NEW b \in Nat, a <= b
  PROVE  s \div a \in Nat /\ s \div b \in Nat /\ s \div b <= s \div a
<1> DEFINE p == s \div a
           q == s \div b
<1>1. b \in Nat \ {0} /\ p \in Nat /\ q \in Nat
  OBVIOUS
<1>2. b * q <= s
  OBVIOUS
<1>3. s < a * (p + 1)
  OBVIOUS
<1> HIDE DEF p, q
<1>4. a * q <= b * q
  BY <1>1
<1>5. a * q < a * (p + 1)
  BY <1>1, <1>2, <1>3, <1>4
<1>6. q < p + 1
  BY <1>1, <1>5
<1> QED
  BY <1>1, <1>6 DEF p, q

----------------------------------------------------------------------------
(* The inductive invariant *)

(* What is known of some documents. *)
RefsOf(D) == {r \in Refs : r.doc \in D}
ChunksOf(D) == {c \in Stored : c.doc \in D}
Hows == {"document", "text", "image", "unknown"}

(* Results without an image. *)
EntriesOf(D) == [chunk : RefsOf(D), how : Hows, image : {{}}]

(* Those whose page has its image if they were found by it. *)
BackedOf(D) ==
  {e \in EntriesOf(D) : e.how = "image" => \E c \in chunks : IsPage(c) /\ Page(c) = PageOf(e)}

(* What the rows of an index are of. *)
RowsFor(k) == IF k = "chunks" THEN Stored ELSE Refs

(* The store; a change that goes on is one of a document. *)
TypesOK ==
  /\ present \in SUBSET Docs /\ chunks \in SUBSET Stored /\ files \in SUBSET Images
  /\ indexed \in [Indexes -> SUBSET Docs]
  /\ order \in [Indexes -> Seq(RowsFor(kind))]
  /\ change \in [doc : Docs \union {None}, kind : {"delete", "reindex", "none"},
                 step : {"wipe", "add", "index", "none"}]
  /\ change.step # "none" => change.doc \in Docs
  /\ changes \in 0..MaxChanges

StoreOK == TypesOK /\ unread \in SUBSET Refs

(* The request: what it is restricted to was asked for. *)
RequestOK ==
  /\ kind \in Kinds /\ asked \in Asks
  /\ subset \in SUBSET Named /\ scope \in SUBSET Named /\ subset \subseteq scope
  /\ sources \in SUBSET Docs
  /\ pc \in {"select", "search", "attach", "load", "done", "failed"}

TaskPcs == {"search", "chunks", "sources", "expand", "done", "failed"}

(* The search of an index has chunks or results of the documents that the   *)
(* search is restricted to, chunks while they are loaded.                   *)
TaskOK(t) ==
  /\ t \in [pc : TaskPcs, offset : Nat, hits : Seq(RefsOf(subset)),
            list : Seq(ChunksOf(subset)) \union Seq(EntriesOf(subset))]
  /\ t.pc \in {"sources", "expand"} => t.list \in Seq(ChunksOf(subset))
  /\ t.pc \in {"search", "chunks", "done", "failed"} => t.list \in Seq(EntriesOf(subset))
  /\ t.hits \in Seq(RowsFor(kind)) /\ (t.pc = "chunks" => kind = "chunks")
  /\ Len(t.hits) <= Limit /\ Len(t.list) <= Limit

TasksOK ==
  /\ DOMAIN task = Indexes
  /\ \A i \in Indexes : TaskOK(task[i])
  /\ pc = "select" => task = [i \in Indexes |-> NoTask]

(* Nothing is found until the lists are combined; there are no images until *)
(* they are attached.                                                       *)
FoundOK ==
  /\ found \in Seq(EntriesOf(subset)) \/ pc = "done"
  /\ pc \in {"select", "search", "failed"} => found = <<>>
  /\ ScopeKept

(* What has been loaded is still there. *)
BackedTask(t) ==
  IF t.pc \in {"sources", "expand"} THEN t.list \in Seq(chunks) ELSE t.list \in Seq(BackedOf(subset))

(* While nothing has changed, every page that was found by its image has it. *)
QuietOK ==
  Quiet => /\ change = NoChange
           /\ \A i \in Indexes : BackedTask(task[i])
           /\ pc = "attach" => found \in Seq(BackedOf(subset))

(* What a search of an index has lost could not be read. *)
OnlyGaps(t) ==
  /\ t.pc = "failed" => ToSet(t.hits) \intersect unread # {}
  /\ t.pc \in {"sources", "expand"} => ToSet(t.hits) \ unread \subseteq ToSet(t.list)

GapsOK ==
  /\ Gaps \subseteq unread
  /\ pc = "failed" => \E r \in unread : r.doc \in subset
  /\ \A i \in Indexes : OnlyGaps(task[i])

(* While nothing has changed, the hits are the first of the rows that were  *)
(* read, and of all rows when the index is not read any more.               *)
FirstOK ==
  Quiet /\ pc = "search" =>
    \A i \in Indexes :
      IF task[i].pc = "search"
      THEN /\ task[i].offset <= Len(Rows(i))
           /\ IsFirst(task[i].hits, SubSeq(Rows(i), 1, task[i].offset))
      ELSE IsFirst(task[i].hits, Rows(i))

(* What is found is what the lists, which stay until the end, are combined  *)
(* to.                                                                      *)
FusedOK ==
  /\ pc \in {"attach", "load"} => \A i \in Indexes : task[i].pc \in {"done", "failed"}
  /\ pc = "attach" => kind = "chunks" /\ found = Fused(Lists)
  /\ pc = "load" => kind = "documents" /\ found = Slice(Fused(Lists), 0, Limit)

(* What ImagesWithinLimit says of a list of results, for the limit that the *)
(* code keeps.                                                              *)
ByImage(list) == {PageOf(list[n]) : n \in {m \in DOMAIN list : list[m].how = "image"}}
MostImages == IF NumImages = 0 THEN 1 ELSE NumImages
WithImage(list) == {n \in DOMAIN list : list[n].image # {}}
PagesWithImage(list) == {PageOf(list[n]) : n \in WithImage(list)}

Fits(list) ==
  /\ Cardinality(WithImage(list)) <= MostImages
  /\ Cardinality({list[n].image : n \in WithImage(list)}) = Cardinality(WithImage(list))

Fair(list) == ByImage(list) \subseteq PagesWithImage(list) \/ PagesWithImage(list) \subseteq ByImage(list)

LimitOK == pc = "done" => Fits(found) /\ (Quiet => Fair(found))

RetrievalInv ==
  /\ StoreOK /\ RequestOK /\ TasksOK /\ FoundOK /\ QuietOK /\ GapsOK /\ FirstOK /\ FusedOK
  /\ LimitOK
----------------------------------------------------------------------------
(* Lists *)

(* The places in some lists: what they are, and that they are ordered. *)
LEMMA PlacesAre ==
  ASSUME NEW N \in Nat, NEW E, NEW lists \in [1..N -> Seq(E)]
  PROVE  /\ \A p \in Places(lists) :
              /\ p[1] \in 1..N /\ p[2] \in 1..Len(lists[p[1]]) /\ p = <<p[1], p[2]>>
              /\ lists[p[1]] \in Seq(E) /\ lists[p[1]][p[2]] \in E
         /\ \A i \in 1..N : \A n \in 1..Len(lists[i]) : <<i, n>> \in Places(lists)
         /\ IsOrder(Places(lists), InTurn(Places(lists)))
<1> DEFINE S == Places(lists)
<1>1. \A i \in 1..N : lists[i] \in Seq(E) /\ Len(lists[i]) \in Nat /\ DOMAIN lists[i] = 1..Len(lists[i])
  OBVIOUS
<1>2. DOMAIN lists = 1..N
  OBVIOUS
<1>3. \A p \in S : /\ p[1] \in 1..N /\ p[2] \in 1..Len(lists[p[1]]) /\ p = <<p[1], p[2]>>
  <2> SUFFICES ASSUME NEW p \in S
               PROVE  p[1] \in 1..N /\ p[2] \in 1..Len(lists[p[1]]) /\ p = <<p[1], p[2]>>
    OBVIOUS
  <2>1. PICK i \in 1..N : p \in {i} \X (DOMAIN lists[i])
    BY <1>2 DEF Places
  <2>2. p[1] = i /\ p[2] \in DOMAIN lists[i] /\ p = <<p[1], p[2]>>
    BY <2>1
  <2> QED
    BY <1>1, <2>2
<1>4. ASSUME NEW i \in 1..N, NEW n \in 1..Len(lists[i])
      PROVE  <<i, n>> \in S
  <2>1. <<i, n>> \in {i} \X (DOMAIN lists[i])
    BY <1>1
  <2> QED
    BY <1>2, <2>1 DEF Places
<1>5. IsFiniteSet(S)
  <2> DEFINE f == [i \in 1..N |-> {i} \X (DOMAIN lists[i])]
             T == {f[i] : i \in 1..N}
  <2>1. IsFiniteSet(T)
    <3>1. f \in Surjection(1..N, T)
      BY DEF Surjection
    <3> HIDE DEF f, T
    <3> QED
      BY <3>1, CountIs, FS_Surjection
  <2>2. \A U \in T : IsFiniteSet(U)
    <3> SUFFICES ASSUME NEW i \in 1..N
                 PROVE  IsFiniteSet({i} \X (DOMAIN lists[i]))
      OBVIOUS
    <3>1. IsFiniteSet({i}) /\ IsFiniteSet(DOMAIN lists[i])
      BY <1>1, CountIs, FS_Singleton
    <3> QED
      BY <3>1, FS_Product
  <2>3. S = UNION T
    BY <1>2 DEF Places
  <2> HIDE DEF T, S
  <2> QED
    BY <2>1, <2>2, <2>3, FS_UNION
<1>6. \A p \in S : p[1] \in Nat /\ p[2] \in Nat
  BY <1>1, <1>3
<1>7. \A p, q \in S : <<p, q>> \in InTurn(S) <=> Earlier(p, q)
  BY DEF InTurn
<1> HIDE DEF S
<1>8. IsOrder(S, InTurn(S))
  <2>1. \A p \in S : ~Earlier(p, p)
    BY <1>6 DEF Earlier
  <2>2. ASSUME NEW p \in S, NEW q \in S, p # q
        PROVE  Earlier(p, q) \/ Earlier(q, p)
    <3>1. p[1] # q[1] \/ p[2] # q[2]
      BY <1>3, <2>2
    <3> QED
      BY <1>6, <3>1 DEF Earlier
  <2>3. \A p, q, r \in S : Earlier(p, q) /\ Earlier(q, r) => Earlier(p, r)
    BY <1>6 DEF Earlier
  <2> QED
    BY <1>5, <1>7, <2>1, <2>2, <2>3 DEF IsOrder
<1>9. \A p \in S : lists[p[1]] \in Seq(E) /\ lists[p[1]][p[2]] \in E
  BY <1>1, <1>3
<1> QED
  BY <1>3, <1>4, <1>8, <1>9 DEF S

(* What lists are joined from is in the joined list. *)
LEMMA JoinedType ==
  ASSUME NEW N \in Nat, NEW E, NEW lists \in [1..N -> Seq(E)]
  PROVE  Joined(lists) \in Seq(E)
<1> DEFINE S == Places(lists)
           sorted == Sorted(S, InTurn(S))
<1>1. IsOrder(S, InTurn(S)) /\ \A p \in S : lists[p[1]][p[2]] \in E
  BY PlacesAre
<1>2. IsSorted(sorted, S, InTurn(S))
  BY <1>1, SortedIs
<1>3. Joined(lists) = [p \in DOMAIN sorted |-> lists[sorted[p][1]][sorted[p][2]]]
  BY DEF Joined
<1> HIDE DEF sorted, S
<1>4. Cardinality(S) \in Nat /\ sorted \in [1..Cardinality(S) -> S]
  BY <1>2 DEF IsSorted
<1>5. Joined(lists) \in [1..Cardinality(S) -> E]
  BY <1>1, <1>3, <1>4
<1> QED
  BY <1>4, <1>5

(* The texts of a page. *)
LEMMA TextsAre ==
  ASSUME chunks \in SUBSET Stored, NEW c
  PROVE  TextsOf(c) \in Seq({t \in Stored : Page(t) = Page(c)})
<1> DEFINE texts == {t \in chunks : t.type = "text" /\ Page(t) = Page(c)}
           ahead == {p \in texts \X texts : p[1].id < p[2].id}
           U == {t \in Stored : Page(t) = Page(c)}
           s == Sorted(texts, ahead)
<1>1. /\ IsFiniteSet(Stored) /\ \A t \in Stored : t.id \in Nat
      /\ \A t, u \in Stored :
           t.doc = u.doc /\ (t.type = "text" <=> u.type = "text") /\ t.id = u.id => t = u
  BY RetrievalAssumption
<1>2. texts \in SUBSET Stored /\ texts \in SUBSET U
  OBVIOUS
<1>3. IsFiniteSet(texts)
  BY <1>1, <1>2, FS_Subset
<1>4. \A t, u \in texts : <<t, u>> \in ahead <=> t.id < u.id
  OBVIOUS
<1>5. \A t, u \in texts : t.id = u.id => t = u
  BY <1>1 DEF Page
<1>6. \A t \in texts : t.id \in Nat
  BY <1>1
<1> HIDE DEF texts, ahead
<1>7. IsOrder(texts, ahead)
  BY <1>3, <1>4, <1>5, <1>6 DEF IsOrder
<1>8. IsSorted(s, texts, ahead)
  BY <1>7, SortedIs
<1>9. TextsOf(c) = s
  BY DEF TextsOf, texts, ahead
<1> HIDE DEF s, U
<1>10. Cardinality(texts) \in Nat /\ s \in [1..Cardinality(texts) -> U]
  BY <1>2, <1>8 DEF IsSorted
<1> QED
  BY <1>9, <1>10 DEF U

(* A chunk becomes results of the same documents; those that stand for an   *)
(* image have the image of their page in the list.                          *)
LEMMA ExpandedType ==
  ASSUME chunks \in SUBSET Stored, NEW D, NEW list, NEW c \in ChunksOf(D)
  PROVE  /\ Expanded(list, c) \in Seq(EntriesOf(D))
         /\ ToSet(list) \subseteq chunks => Expanded(list, c) \in Seq(BackedOf(D))
<1>1. c \in Stored /\ c.doc \in D /\ c \in RefsOf(D)
  BY DEF ChunksOf, RefsOf, Refs
<1>2. \A how \in {"text", "unknown"} : Entry(c, how) \in EntriesOf(D) /\ Entry(c, how) \in BackedOf(D)
  BY <1>1 DEF Entry, EntriesOf, BackedOf, Hows
<1>3. CASE ~Replaced(list, c)
  <2> DEFINE how == IF c.type = "text" THEN "text" ELSE "unknown"
  <2>1. Expanded(list, c) = <<Entry(c, how)>> /\ how \in {"text", "unknown"}
    BY <1>3 DEF Expanded
  <2> HIDE DEF how
  <2> QED
    BY <1>2, <2>1
<1>4. CASE Replaced(list, c)
  <2> DEFINE T == {t \in Stored : Page(t) = Page(c)}
             s == TextsOf(c)
  <2>1. s \in Seq(T)
    BY TextsAre
  <2>2. PICK p \in ToSet(list) : IsPage(p) /\ Page(p) = Page(c)
    BY <1>4 DEF Replaced
  <2>3. ASSUME NEW t \in T
        PROVE  /\ Entry(t, "image") \in EntriesOf(D)
               /\ ToSet(list) \subseteq chunks => Entry(t, "image") \in BackedOf(D)
    <3>1. t \in RefsOf(D)
      BY <1>1 DEF RefsOf, Refs, Page
    <3>2. Page(p) = PageOf(Entry(t, "image"))
      BY <2>2 DEF PageOf, Entry
    <3>3. Entry(t, "image") \in EntriesOf(D)
      BY <3>1 DEF EntriesOf, Entry, Hows
    <3> QED
      BY <2>2, <3>2, <3>3 DEF BackedOf
  <2>4. Expanded(list, c) = [n \in 1..Len(s) |-> Entry(s[n], "image")]
    BY <1>4 DEF Expanded
  <2> HIDE DEF s, T
  <2>5. Len(s) \in Nat /\ \A n \in 1..Len(s) : s[n] \in T
    BY <2>1
  <2>6. Expanded(list, c) \in [1..Len(s) -> EntriesOf(D)]
    BY <2>3, <2>4, <2>5
  <2>7. ToSet(list) \subseteq chunks => Expanded(list, c) \in [1..Len(s) -> BackedOf(D)]
    BY <2>3, <2>4, <2>5
  <2> QED
    BY <2>5, <2>6, <2>7
<1> QED
  BY <1>3, <1>4

----------------------------------------------------------------------------
(* Fusion *)

(* What a list that has each chunk once adds to the score of a chunk. *)
LEMMA ShareIs ==
  ASSUME NEW E, NEW list \in Seq(E), NEW c
  PROVE  /\ Share(list, c) \in Nat
         /\ \A m \in 1..Len(list) : Once(list) /\ list[m].chunk = c => Share(list, c) = Scale \div (RankConstant + m)
         /\ (\A m \in 1..Len(list) : list[m].chunk # c) => Share(list, c) = 0
<1> DEFINE N == Len(list)
           w == [n \in 1..N |-> IF list[n].chunk = c THEN Scale \div (RankConstant + n) ELSE 0]
<1>1. N \in Nat /\ DOMAIN list = 1..N
  OBVIOUS
<1>2. Share(list, c) = Total(w, N)
  BY DEF Share
<1>3. \A n \in 1..N : Scale \div (RankConstant + n) \in Nat
  <2> SUFFICES ASSUME NEW n \in 1..N
               PROVE  Scale \div (RankConstant + n) \in Nat
    OBVIOUS
  <2>1. RankConstant + n \in Nat \ {0} /\ RankConstant + n <= RankConstant + n
    BY <1>1 DEF RankConstant
  <2> DEFINE k == RankConstant + n
  <2> HIDE DEF k
  <2>2. Scale \div k \in Nat
    BY <2>1, Scales, DivAtMost DEF k
  <2> QED
    BY <2>2 DEF k
<1>4. w \in [1..N -> Nat]
  BY <1>3
<1>5. \A n \in 1..N : w[n] = IF list[n].chunk = c THEN Scale \div (RankConstant + n) ELSE 0
  OBVIOUS
<1> HIDE DEF w, N
<1>6. Total(w, N) \in Nat
  BY <1>1, <1>4, TotalAtMost
<1>7. ASSUME NEW m \in 1..N, Once(list), list[m].chunk = c
      PROVE  Total(w, N) = Scale \div (RankConstant + m)
  <2>1. \A n \in 1..N : n # m => w[n] = 0
    BY <1>1, <1>5, <1>7 DEF Once
  <2>2. Total(w, N) = w[m]
    BY <1>1, <1>4, <2>1, TotalOne
  <2> QED
    BY <1>5, <1>7, <2>2
<1>8. ASSUME \A m \in 1..N : list[m].chunk # c
      PROVE  Total(w, N) = 0
  BY <1>1, <1>4, <1>5, <1>8, TotalZero
<1> QED
  BY <1>2, <1>6, <1>7, <1>8 DEF N

(* A chunk that gets no less from any list has no smaller score. *)
LEMMA ScoreIs ==
  ASSUME NEW E, NEW lists \in [Indexes -> Seq(E)], NEW c, NEW d
  PROVE  /\ Score(lists, c) \in Nat /\ Score(lists, d) \in Nat
         /\ (\A i \in Indexes : Share(lists[i], d) <= Share(lists[i], c)) => Score(lists, d) <= Score(lists, c)
<1> DEFINE f == [i \in Indexes |-> Share(lists[i], c)]
           g == [i \in Indexes |-> Share(lists[i], d)]
<1>1. NumIndexes \in Nat /\ Indexes = 1..NumIndexes
  BY RetrievalAssumption DEF Indexes
<1>2. \A i \in Indexes : Share(lists[i], c) \in Nat /\ Share(lists[i], d) \in Nat
  BY ShareIs
<1>3. f \in [1..NumIndexes -> Nat] /\ g \in [1..NumIndexes -> Nat]
  BY <1>1, <1>2
<1>4. Score(lists, c) = Total(f, NumIndexes) /\ Score(lists, d) = Total(g, NumIndexes)
  BY DEF Score
<1>5. ASSUME \A i \in Indexes : Share(lists[i], d) <= Share(lists[i], c)
      PROVE  \A i \in 1..NumIndexes : g[i] <= f[i]
  BY <1>1, <1>5
<1> HIDE DEF f, g
<1>6. Total(f, NumIndexes) \in Nat /\ Total(g, NumIndexes) \in Nat
  <2>1. (\A i \in 1..NumIndexes : f[i] <= f[i]) /\ \A i \in 1..NumIndexes : g[i] <= g[i]
    BY <1>3
  <2> QED
    BY <1>1, <1>3, <2>1, TotalAtMost
<1>7. (\A i \in 1..NumIndexes : g[i] <= f[i]) => Total(g, NumIndexes) <= Total(f, NumIndexes)
  BY <1>1, <1>3, TotalAtMost
<1> QED
  BY <1>4, <1>5, <1>6, <1>7

(* The places that are kept, of each chunk its first. *)
LEMMA UniqIs ==
  ASSUME NEW E, NEW lists \in [Indexes -> Seq(E)]
  PROVE  /\ Uniq(lists) \in SUBSET Places(lists)
         /\ \A p, q \in Uniq(lists) : ChunkAt(lists, p) = ChunkAt(lists, q) => p = q
         /\ \A p \in Places(lists) : \E f \in Uniq(lists) :
              ChunkAt(lists, f) = ChunkAt(lists, p) /\ (f = p \/ Earlier(f, p))
         /\ IsOrder(Uniq(lists), InTurn(Places(lists)))
<1> DEFINE S == Places(lists)
           a == InTurn(S)
           key == [p \in S |-> ChunkAt(lists, p)]
           U == Uniq(lists)
<1>0. NumIndexes \in Nat /\ lists \in [1..NumIndexes -> Seq(E)]
  BY RetrievalAssumption DEF Indexes
<1>1. IsOrder(S, a)
  BY <1>0, PlacesAre
<1>2. U = Firsts(S, a, key)
  BY DEF Uniq
<1>3. \A p \in S : key[p] = ChunkAt(lists, p)
  OBVIOUS
<1>4. \A p, q \in S : <<p, q>> \in a <=> Earlier(p, q)
  BY DEF InTurn
<1> HIDE DEF S, a, key, U
<1>5. /\ U \in SUBSET S
      /\ \A x, y \in U : key[x] = key[y] => x = y
      /\ \A x \in S : \E f \in U : key[f] = key[x] /\ (f = x \/ <<f, x>> \in a)
      /\ IsOrder(U, a)
  BY <1>1, <1>2, FirstsIs
<1>6. \A p, q \in U : ChunkAt(lists, p) = ChunkAt(lists, q) => p = q
  BY <1>3, <1>5
<1>7. \A p \in S : \E f \in U : ChunkAt(lists, f) = ChunkAt(lists, p) /\ (f = p \/ Earlier(f, p))
  BY <1>3, <1>4, <1>5
<1> QED
  BY <1>5, <1>6, <1>7 DEF U, S, a

(* The order of the places by the scores of their chunks. *)
LEMMA AheadIsOrder ==
  ASSUME NEW E, NEW lists \in [Indexes -> Seq(E)]
  PROVE  LET all == Uniq(lists)
         IN  IsOrder(all, {e \in all \X all : Ahead(lists, e[1], e[2])})
<1> DEFINE all == Uniq(lists)
           ahead == {e \in all \X all : Ahead(lists, e[1], e[2])}
           score(p) == Score(lists, ChunkAt(lists, p))
           a == InTurn(Places(lists))
<1>1. all \in SUBSET Places(lists) /\ IsOrder(all, a)
  BY UniqIs
<1>2. \A p, q \in all : <<p, q>> \in a <=> Earlier(p, q)
  BY <1>1 DEF InTurn
<1>3. \A p, q \in all : <<p, q>> \in ahead <=> score(p) > score(q) \/ (score(p) = score(q) /\ Earlier(p, q))
  BY DEF Ahead
<1>4. \A p \in all : score(p) \in Nat
  BY ScoreIs
<1> HIDE DEF all, ahead, score, a
<1>5. IsFiniteSet(all)
  BY <1>1 DEF IsOrder
<1>6. ASSUME NEW p \in all
      PROVE  <<p, p>> \notin ahead
  <2>1. ~Earlier(p, p)
    BY <1>1, <1>2 DEF IsOrder
  <2>2. score(p) \in Nat
    BY <1>4
  <2> QED
    BY <1>3, <2>1, <2>2
<1>7. ASSUME NEW p \in all, NEW q \in all, p # q
      PROVE  <<p, q>> \in ahead \/ <<q, p>> \in ahead
  <2>1. Earlier(p, q) \/ Earlier(q, p)
    BY <1>1, <1>2, <1>7 DEF IsOrder
  <2>2. score(p) \in Nat /\ score(q) \in Nat
    BY <1>4
  <2>3. \/ score(p) > score(q) \/ (score(p) = score(q) /\ Earlier(p, q))
        \/ score(q) > score(p) \/ (score(q) = score(p) /\ Earlier(q, p))
    BY <2>1, <2>2
  <2> QED
    BY <1>3, <2>3
<1>8. \A p, q, r \in all : <<p, q>> \in ahead /\ <<q, r>> \in ahead => <<p, r>> \in ahead
  <2> SUFFICES ASSUME NEW p \in all, NEW q \in all, NEW r \in all, <<p, q>> \in ahead, <<q, r>> \in ahead
               PROVE  <<p, r>> \in ahead
    OBVIOUS
  <2>1. Earlier(p, q) /\ Earlier(q, r) => Earlier(p, r)
    BY <1>1, <1>2 DEF IsOrder
  <2>2. score(p) \in Nat /\ score(q) \in Nat /\ score(r) \in Nat
    BY <1>4
  <2>3. /\ score(p) > score(q) \/ (score(p) = score(q) /\ Earlier(p, q))
        /\ score(q) > score(r) \/ (score(q) = score(r) /\ Earlier(q, r))
    BY <1>3
  <2>4. score(p) > score(r) \/ (score(p) = score(r) /\ Earlier(p, r))
    BY <2>1, <2>2, <2>3
  <2> QED
    BY <1>3, <2>4
<1>9. IsOrder(all, ahead)
  BY <1>5, <1>6, <1>7, <1>8 DEF IsOrder
<1> QED
  BY <1>9 DEF all, ahead

(* list is the combined list, or the first of it: which place each result   *)
(* is from.                                                                 *)
IsFusion(s, list, lists) ==
  LET U == Uniq(lists) IN
  /\ s \in [1..Cardinality(U) -> U]
  /\ Len(list) <= Cardinality(U)
  /\ \A n \in 1..Len(list) : list[n] = lists[s[n][1]][s[n][2]]
  /\ \A p, q \in 1..Cardinality(U) : p < q => s[p] # s[q] /\ Ahead(lists, s[p], s[q])
  /\ \A u \in U : \E p \in 1..Cardinality(U) : s[p] = u

(* The combined list is such a list, with all of the places that are kept. *)
LEMMA FusedIs ==
  ASSUME NEW E, NEW lists \in [Indexes -> Seq(E)]
  PROVE  /\ Cardinality(Uniq(lists)) \in Nat
         /\ Fused(lists) \in Seq(E) /\ Len(Fused(lists)) = Cardinality(Uniq(lists))
         /\ \E s : IsFusion(s, Fused(lists), lists)
<1> DEFINE U == Uniq(lists)
           ahead == {e \in U \X U : Ahead(lists, e[1], e[2])}
           s == Sorted(U, ahead)
           N == Cardinality(U)
<1>0. NumIndexes \in Nat /\ lists \in [1..NumIndexes -> Seq(E)]
  BY RetrievalAssumption DEF Indexes
<1>1. \A p \in U : lists[p[1]][p[2]] \in E
  <2>1. U \in SUBSET Places(lists)
    BY UniqIs
  <2> HIDE DEF U
  <2> QED
    BY <1>0, <2>1, PlacesAre
<1>2. IsOrder(U, ahead)
  BY AheadIsOrder
<1>3. Fused(lists) = [n \in DOMAIN s |-> lists[s[n][1]][s[n][2]]]
  BY DEF Fused
<1>4. \A p, q \in U : <<p, q>> \in ahead => Ahead(lists, p, q)
  OBVIOUS
<1> HIDE DEF U, ahead, s
<1>5. IsSorted(s, U, ahead)
  BY <1>2, SortedIs DEF s
<1>6. /\ N \in Nat /\ s \in [1..N -> U]
      /\ \A p, q \in 1..N : p < q => <<s[p], s[q]>> \in ahead
      /\ \A u \in U : \E p \in 1..N : s[p] = u
  BY <1>5 DEF IsSorted
<1>7. Fused(lists) \in [1..N -> E]
  BY <1>1, <1>3, <1>6
<1>8. Fused(lists) \in Seq(E) /\ Len(Fused(lists)) = N
  BY <1>6, <1>7
<1>9. \A p, q \in 1..N : p < q => s[p] # s[q] /\ Ahead(lists, s[p], s[q])
  BY <1>2, <1>4, <1>6 DEF IsOrder
<1>10. \A n \in 1..N : Fused(lists)[n] = lists[s[n][1]][s[n][2]]
  BY <1>3, <1>6
<1>11. IsFusion(s, Fused(lists), lists)
  BY <1>6, <1>8, <1>9, <1>10 DEF IsFusion, U
<1> QED
  BY <1>6, <1>8, <1>11 DEF U

(* The combined list has no chunk twice. *)
LEMMA FusionIsOnce ==
  ASSUME NEW E, NEW lists \in [Indexes -> Seq(E)], NEW s, NEW list \in Seq(E), IsFusion(s, list, lists)
  PROVE  Once(list)
<1> DEFINE U == Uniq(lists)
           N == Cardinality(U)
<1>0. N \in Nat
  BY FusedIs
<1>1. N \in Nat /\ Len(list) \in Nat /\ DOMAIN list = 1..Len(list)
  BY <1>0
<1>2. \A p, q \in U : ChunkAt(lists, p) = ChunkAt(lists, q) => p = q
  BY UniqIs
<1>3. /\ s \in [1..N -> U] /\ Len(list) <= N
      /\ \A n \in 1..Len(list) : list[n] = lists[s[n][1]][s[n][2]]
      /\ \A p, q \in 1..N : p < q => s[p] # s[q]
  BY DEF IsFusion
<1> HIDE DEF U, N
<1>4. SUFFICES ASSUME NEW m \in 1..Len(list), NEW n \in 1..Len(list), list[m].chunk = list[n].chunk
               PROVE  m = n
  BY <1>1 DEF Once
<1>5. m \in 1..N /\ n \in 1..N
  BY <1>1, <1>3
<1>6. ChunkAt(lists, s[m]) = ChunkAt(lists, s[n])
  BY <1>3, <1>4 DEF ChunkAt
<1>7. s[m] = s[n]
  BY <1>2, <1>3, <1>5, <1>6
<1> QED
  BY <1>1, <1>3, <1>5, <1>7

(* The combined list has the chunks of all of the lists, and no others. *)
LEMMA FusionHasAll ==
  ASSUME NEW E, NEW lists \in [Indexes -> Seq(E)]
  PROVE  {e.chunk : e \in ToSet(Fused(lists))} = {e.chunk : e \in UNION {ToSet(lists[i]) : i \in Indexes}}
<1> DEFINE U == Uniq(lists)
           S == Places(lists)
           F == Fused(lists)
           R == UNION {ToSet(lists[i]) : i \in Indexes}
<1>0. NumIndexes \in Nat /\ lists \in [1..NumIndexes -> Seq(E)] /\ Indexes = 1..NumIndexes
  BY RetrievalAssumption DEF Indexes
<1>1. PICK s : IsFusion(s, F, lists)
  BY FusedIs
<1>2. /\ Cardinality(U) \in Nat /\ Len(F) = Cardinality(U) /\ F \in Seq(E)
  BY FusedIs
<1>3. U \in SUBSET S /\ \A p \in S : \E f \in U : ChunkAt(lists, f) = ChunkAt(lists, p)
  BY UniqIs
<1>4. /\ \A p \in S : p[1] \in Indexes /\ p[2] \in 1..Len(lists[p[1]])
      /\ \A i \in Indexes : \A n \in 1..Len(lists[i]) : <<i, n>> \in S
  BY <1>0, PlacesAre
<1>5. /\ s \in [1..Len(F) -> U] /\ DOMAIN F = 1..Len(F)
      /\ \A n \in 1..Len(F) : F[n] = lists[s[n][1]][s[n][2]]
      /\ \A u \in U : \E p \in 1..Len(F) : s[p] = u
  BY <1>1, <1>2 DEF IsFusion
<1>6. \A i \in Indexes : DOMAIN lists[i] = 1..Len(lists[i])
  OBVIOUS
<1> HIDE DEF U, S, F
<1>7. ASSUME NEW e \in ToSet(F)
      PROVE  e \in R
  <2>1. PICK n \in 1..Len(F) : e = F[n]
    BY <1>5 DEF ToSet
  <2>2. s[n] \in S /\ F[n] = lists[s[n][1]][s[n][2]]
    BY <1>3, <1>5
  <2>3. s[n][1] \in Indexes /\ s[n][2] \in DOMAIN lists[s[n][1]]
    BY <1>4, <1>6, <2>2
  <2> QED
    BY <2>1, <2>2, <2>3 DEF ToSet
<1>8. ASSUME NEW e \in R
      PROVE  \E g \in ToSet(F) : g.chunk = e.chunk
  <2>1. PICK i \in Indexes : e \in ToSet(lists[i])
    OBVIOUS
  <2>2. PICK n \in 1..Len(lists[i]) : e = lists[i][n]
    BY <1>6, <2>1 DEF ToSet
  <2>3. <<i, n>> \in S /\ ChunkAt(lists, <<i, n>>) = e.chunk
    BY <1>4, <2>2 DEF ChunkAt
  <2>4. PICK f \in U : ChunkAt(lists, f) = e.chunk
    BY <1>3, <2>3
  <2>5. PICK p \in 1..Len(F) : s[p] = f
    BY <1>5, <2>4
  <2>6. F[p].chunk = e.chunk
    BY <1>5, <2>4, <2>5 DEF ChunkAt
  <2> QED
    BY <1>5, <2>6 DEF ToSet
<1> QED
  BY <1>7, <1>8 DEF F

(* Nearer to the beginning of a list is worth more. *)
LEMMA ShareAtMost ==
  ASSUME NEW E, NEW list \in Seq(E), Once(list), NEW c, NEW d,
         (\E e \in ToSet(list) : e.chunk = d) => Before(list, c, d)
  PROVE  Share(list, d) <= Share(list, c)
<1>1. Len(list) \in Nat /\ DOMAIN list = 1..Len(list)
  OBVIOUS
<1>2. Share(list, c) \in Nat /\ Share(list, d) \in Nat
  BY ShareIs
<1>3. CASE \A m \in 1..Len(list) : list[m].chunk # d
  <2>1. Share(list, d) = 0
    BY <1>3, ShareIs
  <2> QED
    BY <1>2, <2>1
<1>4. CASE \E m \in 1..Len(list) : list[m].chunk = d
  <2>1. PICK m \in 1..Len(list) : list[m].chunk = d
    BY <1>4
  <2>2. Before(list, c, d)
    BY <1>1, <2>1 DEF ToSet
  <2>3. PICK k \in 1..Len(list) : list[k].chunk = c /\ k < m
    BY <1>1, <2>1, <2>2 DEF Before
  <2>4. Share(list, c) = Scale \div (RankConstant + k) /\ Share(list, d) = Scale \div (RankConstant + m)
    BY <2>1, <2>3, ShareIs
  <2> DEFINE a == RankConstant + k
             b == RankConstant + m
  <2>5. a \in Nat \ {0} /\ b \in Nat /\ a <= b
    BY <1>1, <2>3 DEF RankConstant
  <2> HIDE DEF a, b
  <2>6. Scale \div b <= Scale \div a
    BY <2>5, Scales, DivAtMost
  <2> QED
    BY <2>4, <2>6 DEF a, b
<1> QED
  BY <1>3, <1>4

(* If a chunk is ahead of another in every list that has the other, so it   *)
(* is in the combined list: it gets no less from any list and, when the     *)
(* scores are equal, has an earlier place.                                  *)
LEMMA FusionOrder ==
  ASSUME NEW E, NEW lists \in [Indexes -> Seq(E)], NEW s, NEW list \in Seq(E), IsFusion(s, list, lists),
         \A i \in Indexes : Once(lists[i]), NEW c, NEW d, c # d,
         \A i \in Indexes : (\E e \in ToSet(lists[i]) : e.chunk = d) => Before(lists[i], c, d)
  PROVE  Before(list, c, d) \/ d \notin {e.chunk : e \in ToSet(list)}
<1> DEFINE U == Uniq(lists)
           S == Places(lists)
           N == Cardinality(U)
<1>0. NumIndexes \in Nat /\ lists \in [1..NumIndexes -> Seq(E)] /\ Indexes = 1..NumIndexes
  BY RetrievalAssumption DEF Indexes
<1> N \in Nat
  BY FusedIs
<1>1. Len(list) \in Nat /\ DOMAIN list = 1..Len(list) /\ N \in Nat
  OBVIOUS
<1>2. \A i \in Indexes : Share(lists[i], d) <= Share(lists[i], c)
  <2> SUFFICES ASSUME NEW i \in Indexes
               PROVE  Share(lists[i], d) <= Share(lists[i], c)
    OBVIOUS
  <2>1. lists[i] \in Seq(E) /\ Once(lists[i])
    OBVIOUS
  <2>2. (\E e \in ToSet(lists[i]) : e.chunk = d) => Before(lists[i], c, d)
    OBVIOUS
  <2> QED
    BY <2>1, <2>2, ShareAtMost
<1>3. Score(lists, d) <= Score(lists, c) /\ Score(lists, c) \in Nat /\ Score(lists, d) \in Nat
  BY <1>2, ScoreIs
<1>4. U \in SUBSET S /\ \A p \in S : \E f \in U :
        ChunkAt(lists, f) = ChunkAt(lists, p) /\ (f = p \/ Earlier(f, p))
  BY UniqIs
<1>5. /\ \A p \in S : p[1] \in Indexes /\ p[2] \in 1..Len(lists[p[1]]) /\ p = <<p[1], p[2]>>
      /\ \A i \in Indexes : \A n \in 1..Len(lists[i]) : <<i, n>> \in S
  BY <1>0, PlacesAre
<1>6. /\ s \in [1..N -> U] /\ Len(list) <= N
      /\ \A n \in 1..Len(list) : list[n] = lists[s[n][1]][s[n][2]]
      /\ \A p, q \in 1..N : p < q => Ahead(lists, s[p], s[q])
      /\ \A u \in U : \E p \in 1..N : s[p] = u
  BY DEF IsFusion
<1>7. \A i \in Indexes : DOMAIN lists[i] = 1..Len(lists[i]) /\ Len(lists[i]) \in Nat
  OBVIOUS
<1> HIDE DEF U, S, N
<1>8. ASSUME NEW n \in 1..Len(list), list[n].chunk = d
      PROVE  \E p \in 1..Len(list) : list[p].chunk = c /\ p < n
  <2>1. n \in 1..N /\ s[n] \in U /\ s[n] \in S
    BY <1>1, <1>4, <1>6
  <2> DEFINE u == s[n]
             i == u[1]
             m == u[2]
  <2>2. i \in Indexes /\ m \in 1..Len(lists[i]) /\ u = <<i, m>>
    BY <1>5, <2>1
  <2>3. lists[i][m].chunk = d /\ ChunkAt(lists, u) = d
    BY <1>6, <1>8 DEF ChunkAt
  <2> HIDE DEF u, i, m
  <2>4. Before(lists[i], c, d)
    BY <1>7, <2>2, <2>3 DEF ToSet
  <2>5. PICK k \in 1..Len(lists[i]) : lists[i][k].chunk = c /\ k < m
    BY <1>7, <2>2, <2>3, <2>4 DEF Before
  <2>6. <<i, k>> \in S /\ ChunkAt(lists, <<i, k>>) = c
    BY <1>5, <2>2, <2>5 DEF ChunkAt
  <2>7. PICK f \in U : ChunkAt(lists, f) = c /\ (f = <<i, k>> \/ Earlier(f, <<i, k>>))
    BY <1>4, <2>6
  <2>8. f \in S /\ f[1] \in Nat /\ f[2] \in Nat /\ i \in Nat /\ k \in Nat /\ m \in Nat
    <3>1. f \in S /\ f[1] \in Indexes /\ f[2] \in 1..Len(lists[f[1]])
      BY <1>4, <1>5, <2>7
    <3>2. Len(lists[f[1]]) \in Nat /\ Len(lists[i]) \in Nat
      BY <1>7, <2>2, <3>1
    <3> QED
      BY <1>0, <2>2, <2>5, <3>1, <3>2
  <2>9. Earlier(f, u) /\ ~Earlier(u, f)
    <3>1. u[1] = i /\ u[2] = m
      BY <2>2
    <3>2. f[1] < i \/ (f[1] = i /\ f[2] <= k)
      BY <2>7, <2>8 DEF Earlier
    <3> QED
      BY <2>5, <2>8, <3>1, <3>2 DEF Earlier
  <2>10. PICK p \in 1..N : s[p] = f
    BY <1>6, <2>7
  <2>11. ~Ahead(lists, u, f)
    BY <1>3, <2>3, <2>7, <2>9 DEF Ahead
  <2>12. p # n /\ ~(n < p)
    BY <1>6, <2>1, <2>3, <2>7, <2>10, <2>11 DEF u
  <2>13. p \in 1..Len(list) /\ p < n
    BY <1>1, <2>1, <2>10, <2>12
  <2>14. list[p].chunk = c
    BY <1>6, <2>7, <2>10, <2>13 DEF ChunkAt
  <2> QED
    BY <2>13, <2>14
<1>9. SUFFICES ASSUME d \in {e.chunk : e \in ToSet(list)}
               PROVE  Before(list, c, d)
  OBVIOUS
<1>10. PICK n \in 1..Len(list) : list[n].chunk = d
  BY <1>1, <1>9 DEF ToSet
<1>11. PICK p \in 1..Len(list) : list[p].chunk = c /\ p < n
  BY <1>8, <1>10
<1>12. \A q \in 1..Len(list) : list[q].chunk = d => q = n
  BY <1>1, <1>10, FusionIsOnce DEF Once
<1> QED
  BY <1>1, <1>11, <1>12 DEF Before

----------------------------------------------------------------------------
(* Images *)

AheadIn(list) == {p \in (DOMAIN list) \X (DOMAIN list) : Sooner(list, p[1], p[2])}
Wanted(list) == {n \in DOMAIN list : list[n].how \in {"image", "text"}}

(* The pages in the order in which they are taken. *)
IsPaged(s, list) ==
  LET F == PagesFirst(list, AheadIn(list))
      N == Cardinality(F)
  IN /\ N \in Nat
     /\ s \in [1..N -> Wanted(list)]
     /\ \A p, q \in 1..N : p # q => s[p] # s[q] /\ PageOf(list[s[p]]) # PageOf(list[s[q]])
     /\ \A p, q \in 1..N : p < q => Sooner(list, s[p], s[q])
     /\ \A n \in Wanted(list) : \E p \in 1..N :
          /\ PageOf(list[s[p]]) = PageOf(list[n])
          /\ s[p] = n \/ Sooner(list, s[p], n)
     /\ Required(list) = {PageOf(list[s[p]]) : p \in {q \in 1..N : q = 1 \/ q <= NumImages}}

(* The results that have a page are ordered: those found by an image first. *)
LEMMA SoonerIsOrder ==
  ASSUME NEW E, NEW list \in Seq(E)
  PROVE  IsOrder(Wanted(list), AheadIn(list))
<1>1. Len(list) \in Nat /\ DOMAIN list = 1..Len(list)
  OBVIOUS
<1>2. IsFiniteSet(Wanted(list))
  <2>1. Wanted(list) \in SUBSET (1..Len(list)) /\ IsFiniteSet(1..Len(list))
    BY <1>1, CountIs DEF Wanted
  <2> QED
    BY <2>1, FS_Subset
<1>3. \A n \in Wanted(list) : n \in 1..Len(list) /\ n \in Nat /\ list[n].how \in {"image", "text"}
  BY <1>1 DEF Wanted
<1>4. \A m, n \in Wanted(list) : <<m, n>> \in AheadIn(list) <=> Sooner(list, m, n)
  BY <1>1, <1>3 DEF AheadIn
<1>5. \A n \in Wanted(list) : ~Sooner(list, n, n)
  BY <1>3 DEF Sooner
<1>6. \A m, n \in Wanted(list) : m # n => Sooner(list, m, n) \/ Sooner(list, n, m)
  BY <1>3 DEF Sooner
<1>7. ASSUME NEW m \in Wanted(list), NEW n \in Wanted(list), NEW k \in Wanted(list),
             Sooner(list, m, n), Sooner(list, n, k)
      PROVE  Sooner(list, m, k)
  BY <1>3, <1>7 DEF Sooner
<1> QED
  BY <1>2, <1>4, <1>5, <1>6, <1>7 DEF IsOrder

(* PagesFirst, sorted, takes each page once, and no result of that page is  *)
(* before it.                                                               *)
LEMMA PagesAre ==
  ASSUME NEW E, NEW list \in Seq(E)
  PROVE  \E s : IsPaged(s, list)
<1> DEFINE W == Wanted(list)
           a == AheadIn(list)
           key == [n \in W |-> PageOf(list[n])]
           F == PagesFirst(list, a)
           N == Cardinality(F)
           s == Sorted(F, a)
<1>1. IsOrder(W, a)
  BY SoonerIsOrder
<1>2. F = Firsts(W, a, key)
  BY DEF PagesFirst, Wanted
<1>3. \A n \in W : key[n] = PageOf(list[n])
  OBVIOUS
<1>4. W \in SUBSET (DOMAIN list)
  BY DEF Wanted
<1>5. \A m, n \in W : <<m, n>> \in a => Sooner(list, m, n)
  BY <1>4 DEF AheadIn
<1>6. Required(list) = {PageOf(list[s[p]]) : p \in {q \in DOMAIN s : q = 1 \/ q <= NumImages}}
  BY DEF Required, AheadIn
<1> HIDE DEF W, a, key, F, s
<1>7. /\ F \in SUBSET W
      /\ IsOrder(F, a)
      /\ \A x, y \in F : key[x] = key[y] => x = y
      /\ \A x \in W : \E f \in F : key[f] = key[x] /\ (f = x \/ <<f, x>> \in a)
  BY <1>1, <1>2, FirstsIs
<1>8. IsSorted(s, F, a)
  BY <1>7, SortedIs DEF s
<1>9. /\ N \in Nat /\ s \in [1..N -> F] /\ DOMAIN s = 1..N
      /\ \A p, q \in 1..N : p < q => <<s[p], s[q]>> \in a
      /\ \A x \in F : \E p \in 1..N : s[p] = x
  BY <1>8 DEF IsSorted
<1>10. \A p \in 1..N : s[p] \in F /\ s[p] \in W
  BY <1>7, <1>9
<1>11. ASSUME NEW p \in 1..N, NEW q \in 1..N, p # q
       PROVE  s[p] # s[q] /\ PageOf(list[s[p]]) # PageOf(list[s[q]])
  <2>1. p < q \/ q < p
    BY <1>9, <1>11
  <2>2. s[p] # s[q]
    BY <1>7, <1>9, <1>10, <2>1 DEF IsOrder
  <2> QED
    BY <1>3, <1>7, <1>10, <2>2
<1>12. \A p, q \in 1..N : p < q => Sooner(list, s[p], s[q])
  BY <1>5, <1>9, <1>10
<1>13. ASSUME NEW n \in W
       PROVE  \E p \in 1..N : PageOf(list[s[p]]) = PageOf(list[n]) /\ (s[p] = n \/ Sooner(list, s[p], n))
  <2>1. PICK f \in F : key[f] = key[n] /\ (f = n \/ <<f, n>> \in a)
    BY <1>7
  <2>2. PICK p \in 1..N : s[p] = f
    BY <1>9
  <2> QED
    BY <1>3, <1>5, <1>10, <2>1, <2>2
<1>14. s \in [1..N -> W]
  BY <1>9, <1>10
<1>15. Required(list) = {PageOf(list[s[p]]) : p \in {q \in 1..N : q = 1 \/ q <= NumImages}}
  BY <1>6, <1>9
<1>16. IsPaged(s, list)
  BY <1>9, <1>11, <1>12, <1>13, <1>14, <1>15 DEF IsPaged, W, F, a
<1> QED
  BY <1>16

(* The pages whose images are sent are those of results and few enough, and *)
(* either all of them were found by their image or all pages that were are  *)
(* among them.                                                              *)
LEMMA RequiredIs ==
  ASSUME NEW E, NEW list \in Seq(E)
  PROVE  /\ IsFiniteSet(Required(list)) /\ Cardinality(Required(list)) <= MostImages
         /\ Required(list) \subseteq ByImage(list) \/ ByImage(list) \subseteq Required(list)
         /\ Required(list) \subseteq {PageOf(list[n]) : n \in DOMAIN list}
<1> DEFINE F == PagesFirst(list, AheadIn(list))
           N == Cardinality(F)
           K == {q \in 1..N : q = 1 \/ q <= NumImages}
<1>0. NumImages \in Nat /\ MostImages \in Nat
  BY RetrievalAssumption DEF MostImages
<1>1. PICK s : IsPaged(s, list)
  BY PagesAre
<1>2. /\ N \in Nat
      /\ s \in [1..N -> Wanted(list)]
      /\ \A p, q \in 1..N : p < q => Sooner(list, s[p], s[q])
      /\ \A n \in Wanted(list) : \E p \in 1..N :
           /\ PageOf(list[s[p]]) = PageOf(list[n])
           /\ s[p] = n \/ Sooner(list, s[p], n)
      /\ Required(list) = {PageOf(list[s[p]]) : p \in K}
  BY <1>1 DEF IsPaged
<1> HIDE DEF F, N
<1>3. IsFiniteSet(Required(list)) /\ Cardinality(Required(list)) <= MostImages
  <2>1. K \in SUBSET (1..MostImages)
    <3> SUFFICES ASSUME NEW q \in 1..N, q = 1 \/ q <= NumImages
                 PROVE  q \in 1..MostImages
      OBVIOUS
    <3>1. q \in Nat /\ 1 <= q
      BY <1>2
    <3>2. q <= MostImages
      BY <1>0, <3>1 DEF MostImages
    <3> QED
      BY <1>0, <3>1, <3>2
  <2>2. IsFiniteSet(1..MostImages) /\ Cardinality(1..MostImages) = MostImages
    BY <1>0, CountIs
  <2>3. IsFiniteSet(K) /\ Cardinality(K) <= MostImages
    <3> HIDE DEF K
    <3> QED
      BY <2>1, <2>2, FS_Subset
  <2> DEFINE f == [p \in K |-> PageOf(list[s[p]])]
  <2>4. f \in Surjection(K, Required(list))
    BY <1>2 DEF Surjection
  <2> HIDE DEF f, K
  <2>5. IsFiniteSet(Required(list)) /\ Cardinality(Required(list)) <= Cardinality(K)
    BY <2>3, <2>4, FS_Surjection
  <2>6. Cardinality(Required(list)) \in Nat /\ Cardinality(K) \in Nat
    BY <2>3, <2>5, FS_CardinalityType
  <2> QED
    BY <1>0, <2>3, <2>5, <2>6
<1>4. ASSUME NEW r \in Required(list), r \notin ByImage(list), NEW b \in ByImage(list)
      PROVE  b \in Required(list)
  <2>1. PICK p \in K : r = PageOf(list[s[p]])
    BY <1>2
  <2>2. p \in 1..N /\ s[p] \in Wanted(list) /\ (p = 1 \/ p <= NumImages)
    BY <1>2
  <2>3. s[p] \in DOMAIN list /\ list[s[p]].how # "image"
    BY <1>4, <2>1, <2>2 DEF ByImage, Wanted
  <2>4. PICK n \in DOMAIN list : b = PageOf(list[n]) /\ list[n].how = "image"
    BY DEF ByImage
  <2>5. n \in Wanted(list)
    BY <2>4 DEF Wanted
  <2>6. PICK q \in 1..N : PageOf(list[s[q]]) = b /\ (s[q] = n \/ Sooner(list, s[q], n))
    BY <1>2, <2>4, <2>5
  <2>7. list[s[q]].how = "image"
    BY <2>4, <2>6 DEF Sooner
  <2>8. ~(p < q) /\ p # q
    <3>1. ~Sooner(list, s[p], s[q])
      BY <2>3, <2>7 DEF Sooner
    <3> QED
      BY <1>2, <2>2, <2>3, <2>7, <3>1
  <2>9. q \in K
    BY <1>0, <1>2, <2>2, <2>8
  <2> QED
    BY <1>2, <2>6, <2>9
<1>5. ASSUME NEW r \in Required(list)
      PROVE  \E n \in DOMAIN list : r = PageOf(list[n])
  <2>1. PICK p \in K : r = PageOf(list[s[p]])
    BY <1>2
  <2>2. s[p] \in DOMAIN list
    BY <1>2 DEF Wanted
  <2> QED
    BY <2>1, <2>2
<1> QED
  BY <1>3, <1>4, <1>5

(* A result without images is within every limit. *)
LEMMA NoImages ==
  ASSUME NEW list, \A n \in DOMAIN list : list[n].image = {}
  PROVE  Fits(list) /\ Fair(list)
<1>1. WithImage(list) = {}
  BY DEF WithImage
<1>2. {list[n].image : n \in WithImage(list)} = {} /\ PagesWithImage(list) = {}
  BY <1>1 DEF PagesWithImage
<1>3. Cardinality({}) = 0
  BY FS_EmptySet
<1>4. 0 <= MostImages
  BY RetrievalAssumption DEF MostImages
<1> QED
  BY <1>1, <1>2, <1>3, <1>4 DEF Fits, Fair

(* The result of Attach: each image at the first result of its page. *)
ImageAt(list, images, n) == PageImage(images, PageOf(list[n]))
IsFirstOfPage(list, n) == \A m \in 1..(n-1) : PageOf(list[m]) # PageOf(list[n])
Attached(list, images) ==
  [n \in DOMAIN list |-> IF IsFirstOfPage(list, n) THEN [list[n] EXCEPT !.image = ImageAt(list, images, n)]
                         ELSE list[n]]

(* Images are put into the results, and nothing else of them is changed. *)
LEMMA AttachedIs ==
  ASSUME NEW D, NEW list \in Seq(EntriesOf(D)), NEW images, NEW new, new = Attached(list, images)
  PROVE  /\ DOMAIN new = DOMAIN list
         /\ \A n \in DOMAIN list :
              /\ new[n].chunk = list[n].chunk /\ new[n].how = list[n].how
              /\ PageOf(new[n]) = PageOf(list[n])
              /\ new[n].image = IF IsFirstOfPage(list, n) THEN ImageAt(list, images, n) ELSE {}
<1>1. DOMAIN new = DOMAIN list
  BY DEF Attached
<1> SUFFICES ASSUME NEW n \in DOMAIN list
             PROVE  /\ new[n].chunk = list[n].chunk /\ new[n].how = list[n].how
                    /\ PageOf(new[n]) = PageOf(list[n])
                    /\ new[n].image = IF IsFirstOfPage(list, n) THEN ImageAt(list, images, n) ELSE {}
  BY <1>1
<1>2. list[n] \in [chunk : RefsOf(D), how : Hows, image : {{}}]
  <2>1. list[n] \in EntriesOf(D)
    OBVIOUS
  <2> QED
    BY <2>1 DEF EntriesOf
<1>3. new[n] = IF IsFirstOfPage(list, n) THEN [list[n] EXCEPT !.image = ImageAt(list, images, n)]
               ELSE list[n]
  BY DEF Attached
<1>4. /\ new[n].chunk = list[n].chunk /\ new[n].how = list[n].how
      /\ new[n].image = IF IsFirstOfPage(list, n) THEN ImageAt(list, images, n) ELSE {}
  BY <1>2, <1>3
<1> QED
  BY <1>4 DEF PageOf

(* The images are at different pages, each of which is required. *)
LEMMA AttachedFits ==
  ASSUME NEW D, NEW list \in Seq(EntriesOf(D)), NEW images, NEW new, new = Attached(list, images),
         \A c \in images : Page(c) \in Required(list)
  PROVE  Fits(new) /\ PagesWithImage(new) \subseteq Required(list)
<1> DEFINE W == WithImage(new)
           R == Required(list)
<1>0. Len(list) \in Nat /\ DOMAIN list = 1..Len(list)
  OBVIOUS
<1>1. /\ DOMAIN new = DOMAIN list
      /\ \A n \in DOMAIN list :
           /\ PageOf(new[n]) = PageOf(list[n])
           /\ new[n].image = IF IsFirstOfPage(list, n) THEN ImageAt(list, images, n) ELSE {}
  BY AttachedIs
<1>2. ASSUME NEW n \in W
      PROVE  /\ n \in 1..Len(list) /\ IsFirstOfPage(list, n)
             /\ new[n].image = ImageAt(list, images, n) /\ new[n].image # {}
             /\ PageOf(new[n]) = PageOf(list[n]) /\ PageOf(list[n]) \in R
  <2>1. n \in 1..Len(list) /\ new[n].image # {}
    BY <1>0, <1>1, <1>2 DEF WithImage
  <2>2. IsFirstOfPage(list, n) /\ new[n].image = ImageAt(list, images, n)
    BY <1>0, <1>1, <2>1
  <2>3. PICK c \in images : Page(c) = PageOf(list[n])
    BY <2>1, <2>2 DEF ImageAt, PageImage
  <2> QED
    BY <1>0, <1>1, <2>1, <2>2, <2>3
<1> HIDE DEF W, R
<1>3. ASSUME NEW m \in W, NEW n \in W, PageOf(list[m]) = PageOf(list[n])
      PROVE  m = n
  <2>1. ~(m < n) /\ ~(n < m)
    <3>1. m \in 1..Len(list) /\ n \in 1..Len(list)
      BY <1>2
    <3>2. IsFirstOfPage(list, m) /\ IsFirstOfPage(list, n)
      BY <1>2
    <3>3. (m < n => m \in 1..(n-1)) /\ (n < m => n \in 1..(m-1))
      BY <1>0, <3>1
    <3> QED
      BY <1>3, <3>2, <3>3 DEF IsFirstOfPage
  <2>2. m \in 1..Len(list) /\ n \in 1..Len(list)
    BY <1>2
  <2> QED
    BY <1>0, <2>1, <2>2
<1>4. IsFiniteSet(R) /\ Cardinality(R) <= MostImages
  BY RequiredIs DEF R
<1>5. IsFiniteSet(W) /\ Cardinality(W) <= Cardinality(R)
  <2> DEFINE f == [n \in W |-> PageOf(list[n])]
  <2>1. f \in [W -> R]
    BY <1>2
  <2>2. \A m, n \in W : f[m] = f[n] => m = n
    BY <1>3
  <2> HIDE DEF f
  <2>3. f \in Injection(W, R)
    BY <2>1, <2>2 DEF Injection, IsInjective
  <2> QED
    BY <1>4, <2>3, FS_Injection
<1>6. Cardinality({new[n].image : n \in W}) = Cardinality(W)
  <2> DEFINE T == {new[n].image : n \in W}
             f == [n \in W |-> new[n].image]
  <2>1. \A n \in W : f[n] = new[n].image
    OBVIOUS
  <2>2. f \in [W -> T] /\ \A t \in T : \E n \in W : f[n] = t
    OBVIOUS
  <2> HIDE DEF f, T
  <2>3. ASSUME NEW m \in W, NEW n \in W, f[m] = f[n]
        PROVE  m = n
    <3>1. new[m].image = new[n].image /\ new[m].image # {}
      BY <1>2, <2>1, <2>3
    <3>2. new[m].image = ImageAt(list, images, m) /\ new[n].image = ImageAt(list, images, n)
      BY <1>2
    <3>3. PageOf(list[m]) = PageOf(list[n])
      BY <3>1, <3>2 DEF ImageAt, PageImage
    <3> QED
      BY <1>3, <3>3
  <2>4. f \in Bijection(W, T)
    BY <2>2, <2>3 DEF Bijection, Injection, IsInjective, Surjection
  <2>5. ExistsBijection(W, T)
    BY <2>4 DEF ExistsBijection
  <2> QED
    BY <1>5, <2>5, FS_Bijection DEF T
<1>7. Cardinality(W) <= MostImages
  <2>1. Cardinality(W) \in Nat /\ Cardinality(R) \in Nat /\ MostImages \in Nat
    BY <1>4, <1>5, FS_CardinalityType, RetrievalAssumption DEF MostImages
  <2> QED
    BY <1>4, <1>5, <2>1
<1>8. PagesWithImage(new) \subseteq R
  BY <1>2 DEF PagesWithImage, W
<1> QED
  BY <1>6, <1>7, <1>8 DEF Fits, W, R

(* A page that has images of the whole page has one with the greatest id.   *)
LEMMA PageHasImage ==
  ASSUME NEW images \in SUBSET Images, NEW c \in images, IsPage(c)
  PROVE  PageImage(images, Page(c)) # {}
<1> DEFINE P == {b \in images : IsPage(b) /\ Page(b) = Page(c)}
           ahead == {e \in P \X P : e[1].id < e[2].id}
           s == Sorted(P, ahead)
           N == Cardinality(P)
<1>1. P \in SUBSET Stored /\ c \in P
  BY DEF Images
<1>2. IsFiniteSet(P) /\ \A b \in P : b.id \in Nat
  BY <1>1, RetrievalAssumption, FS_Subset
<1>3. \A b, d \in P : b.id = d.id => b = d
  <2>1. \A b, d \in P : b.doc = d.doc /\ b.type # "text" /\ d.type # "text"
    BY DEF Page, IsPage
  <2> HIDE DEF P
  <2> QED
    BY <1>1, <2>1, RetrievalAssumption
<1>4. \A b, d \in P : <<b, d>> \in ahead <=> b.id < d.id
  OBVIOUS
<1>5. \A b \in P : b \in images /\ IsPage(b) /\ Page(b) = Page(c)
  OBVIOUS
<1>6. \A b \in images : IsPage(b) /\ Page(b) = Page(c) => b \in P
  OBVIOUS
<1> HIDE DEF P, ahead
<1>7. IsOrder(P, ahead)
  BY <1>2, <1>3, <1>4 DEF IsOrder
<1>8. IsSorted(s, P, ahead)
  BY <1>7, SortedIs
<1> HIDE DEF s
<1>9. /\ N \in Nat /\ s \in [1..N -> P]
      /\ \A p, q \in 1..N : p < q => <<s[p], s[q]>> \in ahead
      /\ \A x \in P : \E p \in 1..N : s[p] = x
  BY <1>8 DEF IsSorted
<1> HIDE DEF N
<1>10. PICK k \in 1..N : s[k] = c
  BY <1>1, <1>9
<1>11. N \in 1..N /\ s[N] \in P
  BY <1>9, <1>10
<1>12. ASSUME NEW b \in P
       PROVE  b.id <= s[N].id
  <2>1. PICK p \in 1..N : s[p] = b
    BY <1>9
  <2>2. p = N \/ p < N
    BY <1>9
  <2>3. p < N => b.id < s[N].id
    BY <1>4, <1>9, <1>11, <2>1
  <2> QED
    BY <1>2, <1>11, <2>1, <2>2, <2>3
<1>13. s[N] \in PageImage(images, Page(c))
  BY <1>5, <1>6, <1>11, <1>12 DEF PageImage
<1> QED
  BY <1>13

(* When the results that were found by an image have the image of their     *)
(* page, every such page that is required has it at its first result.       *)
LEMMA AttachedFair ==
  ASSUME chunks \in SUBSET Stored, NEW D, NEW list \in Seq(EntriesOf(D)), list \in Seq(BackedOf(D)),
         NEW new, new = Attached(list, ImagesOf(Required(list)))
  PROVE  Fair(new)
<1> DEFINE images == ImagesOf(Required(list))
<1>0. Len(list) \in Nat /\ DOMAIN list = 1..Len(list) /\ \A n \in 1..Len(list) : list[n] \in BackedOf(D)
  OBVIOUS
<1>1. /\ DOMAIN new = DOMAIN list
      /\ \A n \in DOMAIN list :
           /\ new[n].how = list[n].how /\ PageOf(new[n]) = PageOf(list[n])
           /\ new[n].image = IF IsFirstOfPage(list, n) THEN ImageAt(list, images, n) ELSE {}
  BY AttachedIs
<1>2. ByImage(new) = ByImage(list)
  BY <1>1 DEF ByImage
<1>3. PagesWithImage(new) \subseteq Required(list)
  <2>1. \A c \in images : Page(c) \in Required(list)
    BY DEF ImagesOf
  <2> HIDE DEF images
  <2>2. new = Attached(list, images)
    BY DEF images
  <2> QED
    BY <2>1, <2>2, AttachedFits
<1>4. CASE Required(list) \subseteq ByImage(list)
  BY <1>2, <1>3, <1>4 DEF Fair
<1>5. CASE ByImage(list) \subseteq Required(list)
  <2>1. ASSUME NEW b \in ByImage(list)
        PROVE  b \in PagesWithImage(new)
    <3>1. PICK k \in 1..Len(list) : b = PageOf(list[k]) /\ list[k].how = "image"
      BY <1>0, <2>1 DEF ByImage
    <3>2. PICK c \in chunks : IsPage(c) /\ Page(c) = b
      BY <1>0, <3>1 DEF BackedOf
    <3> DEFINE T == {n \in 1..Len(list) : PageOf(list[n]) = b}
    <3>3. T \in SUBSET Nat /\ T # {}
      BY <1>0, <3>1
    <3> HIDE DEF T
    <3>4. PICK n \in T : \A m \in T : n <= m
      BY <3>3, LeastNumber
    <3>5. n \in 1..Len(list) /\ n \in Nat /\ PageOf(list[n]) = b
      BY <1>0, <3>4 DEF T
    <3>6. IsFirstOfPage(list, n)
      <4> SUFFICES ASSUME NEW m \in 1..(n-1)
                   PROVE  PageOf(list[m]) # PageOf(list[n])
        BY DEF IsFirstOfPage
      <4>1. m \in 1..Len(list) /\ ~(n <= m)
        BY <1>0, <3>5
      <4> QED
        BY <3>4, <3>5, <4>1 DEF T
    <3>7. c \in images /\ images \in SUBSET Images
      BY <1>5, <2>1, <3>2 DEF ImagesOf, Images, IsPage
    <3>8. new[n].image # {}
      <4>1. PageImage(images, Page(c)) # {}
        BY <3>2, <3>7, PageHasImage
      <4> QED
        BY <1>0, <1>1, <3>2, <3>5, <3>6, <4>1 DEF ImageAt
    <3>9. n \in WithImage(new) /\ PageOf(new[n]) = b
      BY <1>0, <1>1, <3>5, <3>8 DEF WithImage
    <3> QED
      BY <3>9 DEF PagesWithImage
  <2> QED
    BY <1>2, <2>1 DEF Fair
<1> QED
  BY <1>4, <1>5, RequiredIs

----------------------------------------------------------------------------
(* The documents of a search *)

(* Whatever get_documents_subset returns was asked for: filters without a   *)
(* clause, which are dropped, hold of every document.                       *)
LEMMA SubsetsAre ==
  ASSUME NEW docs \in SUBSET Docs, NEW meta, NEW filters, NEW tops,
         NEW S \in Subsets(meta, docs, filters, tops)
  PROVE  S \subseteq Asked(meta, filters) /\ S \subseteq Docs
<1>1. Matching(meta, docs, filters) \subseteq Asked(meta, filters)
  <2> SUFFICES ASSUME NEW d \in Matching(meta, docs, filters)
               PROVE  d \in Asked(meta, filters)
    OBVIOUS
  <2>1. d \in Docs
    BY DEF Matching
  <2>2. CASE Effective(filters) # {}
    <3>1. PICK filter \in Effective(filters) : FilterHolds(meta, filter, d)
      BY <2>2 DEF Matching
    <3> QED
      BY <2>1, <3>1 DEF Effective, FilterHolds, Asked
  <2>3. CASE Effective(filters) = {}
    BY <2>1, <2>3 DEF Effective, Asked
  <2> QED
    BY <2>2, <2>3
<1>2. \A top : \A T \in Top(meta, Matching(meta, docs, filters), top) : T \subseteq Matching(meta, docs, filters)
  BY DEF Top
<1>3. CASE tops = {} /\ Effective(filters) = {}
  <2>1. S = Docs
    BY <1>3 DEF Subsets, Everything
  <2>2. Asked(meta, filters) = Docs
    BY <1>3 DEF Effective, Asked
  <2> QED
    BY <2>1, <2>2
<1>4. CASE tops # {} \/ Effective(filters) # {}
  <2>1. S \subseteq Matching(meta, docs, filters)
    BY <1>2, <1>4 DEF Subsets
  <2>2. Matching(meta, docs, filters) \subseteq Docs
    BY DEF Matching
  <2> QED
    BY <1>1, <2>1, <2>2
<1> QED
  BY <1>3, <1>4

(* A sequence of elements of a set is one of elements of a larger set. *)
LEMMA SeqOfMore ==
  ASSUME NEW X, NEW Y, X \subseteq Y, NEW s \in Seq(X)
  PROVE  s \in Seq(Y)
OBVIOUS

(* Results of some documents are results of more documents. *)
LEMMA EntriesOfMore ==
  ASSUME NEW D, NEW F, D \subseteq F
  PROVE  EntriesOf(D) \subseteq EntriesOf(F)
<1>1. RefsOf(D) \subseteq RefsOf(F)
  BY DEF RefsOf
<1> QED
  BY <1>1 DEF EntriesOf

(* Whatever offset is asked for. *)
LEMMA SliceType ==
  ASSUME NEW X, NEW s \in Seq(X), NEW k \in Nat, NEW size \in Nat
  PROVE  Slice(s, k, size) \in Seq(X)
<1> DEFINE m == k + 1
           e == IF k + size > Len(s) THEN Len(s) ELSE k + size
<1>1. Len(s) \in Nat /\ m \in Int /\ e \in Int /\ \A i \in m..e : s[i] \in X
  OBVIOUS
<1>2. Slice(s, k, size) = SubSeq(s, m, e)
  BY DEF Slice
<1> HIDE DEF m, e
<1> QED
  BY <1>1, <1>2, SubSeqProperties

(* Collect keeps to the limit, whatever the rows were when they were read. *)
LEMMA CollectType ==
  ASSUME NEW X, NEW hits \in Seq(X), NEW page \in Seq(X), Limit \in Nat
  PROVE  Collect(hits, page) \in Seq(X) /\ Len(Collect(hits, page)) <= Limit
<1> DEFINE all == hits \o page
           P == Firsts(DOMAIN all, Less(DOMAIN all), all)
           t == At(all, P)
<1>1. all \in Seq(X) /\ Len(all) \in Nat /\ DOMAIN all = 1..Len(all)
  OBVIOUS
<1>2. Collect(hits, page) = Slice(t, 0, Limit)
  BY DEF Collect
<1> HIDE DEF all
<1>3. P \in SUBSET (1..Len(all))
  BY <1>1 DEF Firsts
<1> HIDE DEF P
<1>4. t \in Seq(X)
  BY <1>1, <1>3, AtIs
<1> HIDE DEF t
<1>5. Slice(t, 0, Limit) \in Seq(X) /\ Len(Slice(t, 0, Limit)) = (IF Limit > Len(t) THEN Len(t) ELSE Limit)
  BY <1>4, PrefixIs
<1>6. Len(t) \in Nat
  BY <1>4
<1> QED
  BY <1>2, <1>5, <1>6
----------------------------------------------------------------------------
(* The invariant holds at first and is kept by every change. *)

(* A search of an index that has not begun. *)
LEMMA NoTaskOK ==
  ASSUME NEW i \in Indexes
  PROVE  /\ NoTask.pc = "search" /\ NoTask.offset = 0 /\ NoTask.hits = <<>> /\ TaskOK(NoTask)
         /\ BackedTask(NoTask) /\ OnlyGaps(NoTask)
<1>1. Len(<<>>) = 0 /\ 0 <= Limit
  BY RetrievalAssumption
<1> QED
  BY <1>1 DEF NoTask, TaskOK, TaskPcs, BackedTask, OnlyGaps

(* Whatever is missing may be named by a record. *)
LEMMA GapsAre == Gaps \in SUBSET Refs
BY DEF Gaps, Refs, Images

(* The invariant holds before the search. *)
LEMMA InitOK == Init => RetrievalInv
<1> SUFFICES ASSUME Init
             PROVE  RetrievalInv
  OBVIOUS
<1> USE DEF Init
<1>1. StoreOK
  <2>1. order \in [Indexes -> Seq(RowsFor(kind))]
    OBVIOUS
  <2>2. changes \in 0..MaxChanges
    BY RetrievalAssumption
  <2>3. /\ present \in SUBSET Docs /\ chunks \in SUBSET Stored /\ files \in SUBSET Images
        /\ indexed \in [Indexes -> SUBSET Docs]
    BY RetrievalAssumption
  <2>4. unread \in SUBSET Refs
    BY GapsAre
  <2> QED
    BY <2>1, <2>2, <2>3, <2>4 DEF StoreOK, TypesOK, NoChange
<1>2. RequestOK
  BY DEF RequestOK, Everything, Named
<1>3. TasksOK
  BY NoTaskOK DEF TasksOK
<1>4. FoundOK
  BY DEF FoundOK, ScopeKept
<1>5. QuietOK /\ GapsOK
  BY NoTaskOK DEF QuietOK, GapsOK
<1>6. FirstOK /\ FusedOK /\ LimitOK
  BY DEF FirstOK, FusedOK, LimitOK
<1> QED
  BY <1>1, <1>2, <1>3, <1>4, <1>5, <1>6 DEF RetrievalInv

(* The search does not notice a change until it reads. *)
LEMMA NotQuiet ==
  ASSUME RetrievalInv, StoreOK', UNCHANGED <<request, task>>, changes' # 0,
         unread \subseteq unread', Gaps' \subseteq unread'
  PROVE  RetrievalInv'
<1> USE DEF request
<1>1. RequestOK'
  BY DEF RetrievalInv, RequestOK
<1>2. TasksOK'
  BY DEF RetrievalInv, TasksOK, TaskOK
<1>3. FoundOK'
  BY DEF RetrievalInv, FoundOK, ScopeKept
<1>4. QuietOK' /\ FirstOK'
  BY DEF QuietOK, FirstOK, Quiet
<1>5. GapsOK'
  <2>1. \A i \in Indexes : OnlyGaps(task[i])'
    BY DEF RetrievalInv, GapsOK, OnlyGaps
  <2> QED
    BY <2>1 DEF RetrievalInv, GapsOK
<1>6. FusedOK'
  BY DEF RetrievalInv, FusedOK, Lists
<1>7. LimitOK'
  BY DEF RetrievalInv, LimitOK, Quiet
<1> QED
  BY <1>1, <1>2, <1>3, <1>4, <1>5, <1>6, <1>7 DEF RetrievalInv

(* A change that goes on has been counted, and is of a document. *)
LEMMA Going ==
  ASSUME RetrievalInv, change.step # "none"
  PROVE  changes # 0 /\ change.doc \in Docs
BY DEF RetrievalInv, QuietOK, Quiet, NoChange, StoreOK, TypesOK

(* Deletions, index runs and reordered rows keep the types of the store,    *)
(* are counted, and leave the search alone.                                 *)
LEMMA TypesStep ==
  ASSUME RetrievalInv, Change
  PROVE  TypesOK' /\ changes' # 0 /\ UNCHANGED <<request, task>>
<1>0. TypesOK /\ changes \in Nat /\ MaxChanges \in Nat
  BY RetrievalAssumption DEF RetrievalInv, StoreOK, TypesOK
<1> USE DEF Changing, request
<1>1. ASSUME NEW d \in Docs, NEW k \in {"delete", "reindex"}, BeginChange(d, k)
      PROVE  TypesOK' /\ changes' # 0 /\ UNCHANGED <<request, task>>
  BY <1>0, <1>1 DEF BeginChange, Become, TypesOK
<1>2. ASSUME NEW i \in Indexes, RemoveRecords(i)
      PROVE  TypesOK' /\ changes' # 0 /\ UNCHANGED <<request, task>>
  BY <1>0, <1>2, Going DEF RemoveRecords, TypesOK
<1>3. ASSUME NEW i \in Indexes, AddRecords(i)
      PROVE  TypesOK' /\ changes' # 0 /\ UNCHANGED <<request, task>>
  <2>1. changes # 0 /\ change.doc \in Docs
    BY <1>3, Going DEF AddRecords
  <2>2. indexed' \in [Indexes -> SUBSET Docs]
    BY <1>0, <1>3, <2>1 DEF AddRecords, TypesOK, Doc
  <2>3. change' = NoChange \/ change' = change
    BY <1>3 DEF AddRecords
  <2>4. UNCHANGED <<present, chunks, files, changes, order, request, task>>
    BY <1>3 DEF AddRecords
  <2> QED
    BY <1>0, <2>1, <2>2, <2>3, <2>4 DEF TypesOK, NoChange
<1>4. CASE RemoveFiles
  BY <1>0, <1>4, Going DEF RemoveFiles, TypesOK
<1>5. CASE CommitWipe
  <2>1. changes # 0 /\ change.doc \in Docs
    BY <1>5, Going DEF CommitWipe
  <2>2. chunks' \in SUBSET Stored /\ present' \in SUBSET Docs
    BY <1>0, <1>5 DEF CommitWipe, TypesOK
  <2>3. change' = NoChange \/ change' = [doc |-> change.doc, kind |-> change.kind, step |-> "add"]
    BY <1>5 DEF CommitWipe, Become, Doc
  <2>4. UNCHANGED <<files, indexed, changes, order, request, task>>
    BY <1>5 DEF CommitWipe
  <2> QED
    BY <1>0, <2>1, <2>2, <2>3, <2>4 DEF TypesOK, NoChange
<1>6. CASE AbortWipe
  BY <1>0, <1>6, Going DEF AbortWipe, TypesOK, NoChange
<1>7. CASE AddChunks
  <2>1. changes # 0 /\ change.doc \in Docs
    BY <1>7, Going DEF AddChunks
  <2> QED
    BY <1>0, <1>7, <2>1 DEF AddChunks, Become, Doc, TypesOK, Images
<1>8. ASSUME NEW i \in Indexes, NEW n \in DOMAIN order[i], Reorder(i, n)
      PROVE  TypesOK' /\ changes' # 0 /\ UNCHANGED <<request, task>>
  <2>1. order[i] \in Seq(RowsFor(kind)) /\ n \in 1..Len(order[i]) /\ n < Len(order[i]) /\ Len(order[i]) \in Nat
    BY <1>0, <1>8 DEF Reorder, TypesOK
  <2> DEFINE s == order[i]
             t == [s EXCEPT ![n] = s[n+1], ![n+1] = s[n]]
  <2>2. s[n] \in RowsFor(kind) /\ s[n+1] \in RowsFor(kind)
    BY <2>1
  <2>3. order' = [order EXCEPT ![i] = t]
    BY <1>8 DEF Reorder
  <2> HIDE DEF s
  <2>4. t \in Seq(RowsFor(kind))
    BY <2>1, <2>2 DEF s
  <2> HIDE DEF t
  <2>5. order' \in [Indexes -> Seq(RowsFor(kind))]
    BY <1>0, <2>3, <2>4 DEF TypesOK
  <2> QED
    BY <1>0, <1>8, <2>5 DEF Reorder, TypesOK
<1> QED
  BY <1>1, <1>2, <1>3, <1>4, <1>5, <1>6, <1>7, <1>8 DEF Change

(* They note what cannot be read. *)
LEMMA StoreStep ==
  ASSUME RetrievalInv, Change
  PROVE  /\ StoreOK' /\ changes' # 0 /\ UNCHANGED <<request, task>>
         /\ unread \subseteq unread' /\ Gaps' \subseteq unread'
<1>1. TypesOK' /\ changes' # 0 /\ UNCHANGED <<request, task>>
  BY TypesStep
<1>2. unread \in SUBSET Refs /\ Gaps \subseteq unread
  BY DEF RetrievalInv, StoreOK, GapsOK
<1>3. Gaps' \subseteq Refs
  BY <1>1 DEF Gaps, Refs, Images, TypesOK
<1>4. Changing \/ UNCHANGED <<present, chunks, files, unread>>
  BY DEF Change, BeginChange, RemoveRecords, AddRecords, RemoveFiles, CommitWipe, AbortWipe, AddChunks, Reorder
<1>5. CASE Changing
  BY <1>1, <1>2, <1>3, <1>5 DEF Changing, StoreOK
<1>6. CASE UNCHANGED <<present, chunks, files, unread>>
  <2>1. Gaps' = Gaps
    BY <1>6 DEF Gaps
  <2> QED
    BY <1>1, <1>2, <1>6, <2>1 DEF StoreOK
<1> QED
  BY <1>4, <1>5, <1>6

----------------------------------------------------------------------------
(* The steps of a search keep it. *)

(* The documents are selected: what the search is restricted to was asked   *)
(* for.                                                                     *)
LEMMA SelectStep ==
  ASSUME RetrievalInv, Select
  PROVE  RetrievalInv'
<1> USE DEF Select
<1>0. StoreOK /\ RequestOK /\ TasksOK /\ FoundOK /\ QuietOK /\ GapsOK
  BY DEF RetrievalInv
<1>1. asked \in Asks /\ asked.matcher \in Matchers /\ kind \in Kinds
  BY <1>0 DEF RequestOK, Asks
<1>2. subset' \subseteq scope' /\ scope' \subseteq Named
  <2>1. CASE Exact
    BY <1>1, <2>1 DEF Named
  <2>2. CASE ~Exact
    <3>1. /\ present \in SUBSET Docs
          /\ subset' \in Subsets(asked.meta, present, asked.matcher.filters, asked.matcher.tops)
      BY <1>0, <2>2 DEF StoreOK, TypesOK
    <3>2. scope' = Asked(asked.meta, asked.matcher.filters)
      BY <2>2
    <3>3. scope' \subseteq Docs
      BY <3>2 DEF Asked
    <3> QED
      BY <3>1, <3>2, <3>3, SubsetsAre DEF Named
  <2> QED
    BY <2>1, <2>2
<1>3. order' \in [Indexes -> Seq(RowsFor(kind))]
  <2>1. \A rows \in Queries[kind] : rows \in [Indexes -> Seq(RowsFor(kind))]
    BY <1>1, RetrievalAssumption DEF RowsFor, Kinds
  <2> QED
    BY <1>0, <2>1 DEF StoreOK, TypesOK
<1>4. StoreOK'
  BY <1>0, <1>3 DEF StoreOK, TypesOK
<1>5. RequestOK'
  <2>1. Forgotten \in Asks
    BY <1>1 DEF Forgotten
  <2> QED
    BY <1>0, <1>2, <2>1 DEF RequestOK
<1>6. task' = [i \in Indexes |-> NoTask] /\ found' = <<>> /\ pc' \in {"search", "done"}
  BY <1>0 DEF TasksOK, FoundOK
<1>7. TasksOK'
  <2>1. \A i \in Indexes : TaskOK(task[i])'
    <3> SUFFICES ASSUME NEW i \in Indexes
                 PROVE  TaskOK(task[i])'
      OBVIOUS
    <3>1. Len(<<>>) = 0 /\ 0 <= Limit
      BY RetrievalAssumption
    <3>2. task'[i] = NoTask
      BY <1>6
    <3>3. NoTask \in [pc : TaskPcs, offset : Nat, hits : Seq(RefsOf(subset')),
                      list : Seq(ChunksOf(subset')) \union Seq(EntriesOf(subset'))]
      BY DEF NoTask, TaskPcs
    <3>4. NoTask.pc = "search" /\ NoTask.list = <<>> /\ NoTask.hits = <<>>
      BY DEF NoTask
    <3> QED
      BY <3>1, <3>2, <3>3, <3>4 DEF TaskOK, RefsOf, ChunksOf, EntriesOf
  <2> QED
    BY <1>6, <2>1 DEF TasksOK
<1>8. FoundOK'
  BY <1>6 DEF FoundOK, ScopeKept
<1>9. QuietOK'
  BY <1>0, <1>6 DEF QuietOK, Quiet, NoTask, BackedTask
<1>10. FirstOK'
  <2> SUFFICES ASSUME NEW i \in Indexes
               PROVE  /\ 0 <= Len(Rows(i)')
                      /\ IsFirst(<<>>, SubSeq(Rows(i)', 1, 0))
    BY <1>6 DEF FirstOK, NoTask
  <2>1. order'[i] \in Seq(RowsFor(kind))
    BY <1>3
  <2>2. Rows(i)' \in Seq(RowsFor(kind))
    <3>1. Rows(i)' = Only(order'[i], {r \in Refs : r.doc \in indexed'[i] \intersect subset'})
      BY DEF Rows
    <3> QED
      BY <2>1, <3>1, OnlyIs
  <2>3. SubSeq(Rows(i)', 1, 0) = <<>>
    BY <2>2
  <2>4. Limit \in Nat
    BY RetrievalAssumption
  <2>5. IsFirst(<<>>, <<>>)
    BY <2>4 DEF IsFirst
  <2>6. 0 <= Len(Rows(i)')
    BY <2>2
  <2> QED
    BY <2>3, <2>5, <2>6
<1>11. FusedOK'
  BY <1>6 DEF FusedOK
<1>12. LimitOK'
  <2>1. \A n \in DOMAIN found' : found'[n].image = {}
    BY <1>6
  <2>2. Fits(found') /\ Fair(found')
    BY <2>1, NoImages
  <2> QED
    BY <2>2 DEF LimitOK
<1>13. GapsOK'
  <2>1. \A i \in Indexes : OnlyGaps(task[i])'
    BY <1>6 DEF OnlyGaps, NoTask
  <2> QED
    BY <1>0, <1>6, <2>1 DEF GapsOK, Gaps
<1> QED
  BY <1>4, <1>5, <1>7, <1>8, <1>9, <1>10, <1>11, <1>12, <1>13 DEF RetrievalInv

(* One search of an index goes on. *)
LEMMA TaskStep ==
  ASSUME RetrievalInv, Searching, sources' \in SUBSET Docs, NEW i \in Indexes, NEW t,
         task' = [task EXCEPT ![i] = t], TaskOK(t), OnlyGaps(t), Quiet => BackedTask(t),
         Quiet => IF t.pc = "search"
                  THEN t.offset <= Len(Rows(i)) /\ IsFirst(t.hits, SubSeq(Rows(i), 1, t.offset))
                  ELSE IsFirst(t.hits, Rows(i))
  PROVE  RetrievalInv'
<1> USE DEF Searching, store
<1>0. StoreOK /\ RequestOK /\ TasksOK /\ FoundOK /\ QuietOK /\ GapsOK /\ FirstOK
  BY DEF RetrievalInv
<1>1. StoreOK'
  BY <1>0 DEF StoreOK, TypesOK
<1>2. RequestOK'
  BY <1>0 DEF RequestOK
<1>3. \A j \in Indexes : task'[j] = IF j = i THEN t ELSE task[j]
  BY <1>0 DEF TasksOK
<1>4. DOMAIN task' = Indexes
  BY <1>0 DEF TasksOK
<1>5. TasksOK'
  <2>1. ASSUME NEW j \in Indexes
        PROVE  TaskOK(task[j])'
    <3>1. TaskOK(IF j = i THEN t ELSE task[j])
      BY <1>0 DEF TasksOK
    <3> QED
      BY <1>3, <3>1 DEF TaskOK
  <2> QED
    BY <1>4, <2>1 DEF TasksOK
<1>6. FoundOK'
  BY <1>0 DEF FoundOK, ScopeKept
<1>7. QuietOK'
  <2> SUFFICES ASSUME Quiet
               PROVE  change' = NoChange /\ \A j \in Indexes : BackedTask(task[j])'
    BY DEF QuietOK, Quiet
  <2>1. ASSUME NEW j \in Indexes
        PROVE  BackedTask(task[j])'
    <3>1. BackedTask(IF j = i THEN t ELSE task[j])
      BY <1>0 DEF QuietOK
    <3>2. BackedOf(subset)' = BackedOf(subset)
      BY DEF BackedOf, EntriesOf, RefsOf
    <3> QED
      BY <1>3, <3>1, <3>2 DEF BackedTask
  <2> QED
    BY <1>0, <2>1 DEF QuietOK
<1>8. FirstOK'
  <2> SUFFICES ASSUME Quiet, NEW j \in Indexes
               PROVE  IF task'[j].pc = "search"
                      THEN /\ task'[j].offset <= Len(Rows(j)')
                           /\ IsFirst(task'[j].hits, SubSeq(Rows(j)', 1, task'[j].offset))
                      ELSE IsFirst(task'[j].hits, Rows(j)')
    BY DEF FirstOK, Quiet
  <2>1. Rows(j)' = Rows(j)
    BY DEF Rows
  <2>2. CASE j = i
    BY <1>3, <2>1, <2>2
  <2>3. CASE j # i
    BY <1>0, <1>3, <2>1, <2>3 DEF FirstOK
  <2> QED
    BY <2>2, <2>3
<1>9. FusedOK' /\ LimitOK'
  BY DEF FusedOK, LimitOK
<1>10. GapsOK'
  <2>1. \A j \in Indexes : OnlyGaps(task[j])'
    BY <1>0, <1>3 DEF GapsOK, OnlyGaps
  <2> QED
    BY <1>0, <2>1 DEF GapsOK, Gaps
<1> QED
  BY <1>1, <1>2, <1>5, <1>6, <1>7, <1>8, <1>9, <1>10 DEF RetrievalInv

(* The rows of an index that a search sees are of the documents it is       *)
(* restricted to.                                                           *)
LEMMA RowsAre ==
  ASSUME RetrievalInv, NEW i \in Indexes
  PROVE  Rows(i) \in Seq(Refs) /\ Rows(i) \in Seq(RowsFor(kind)) /\ Rows(i) \in Seq(RefsOf(subset))
<1> DEFINE S == {r \in Refs : r.doc \in indexed[i] \intersect subset}
<1>1. order[i] \in Seq(RowsFor(kind))
  BY DEF RetrievalInv, StoreOK, TypesOK
<1>2. Rows(i) = Only(order[i], S)
  BY DEF Rows
<1>3. S \subseteq RefsOf(subset) /\ RefsOf(subset) \subseteq Refs
  BY DEF RefsOf
<1> HIDE DEF S
<1>4. Rows(i) \in Seq(S) /\ Rows(i) \in Seq(RowsFor(kind))
  BY <1>1, <1>2, OnlyIs
<1>5. Rows(i) \in Seq(RefsOf(subset))
  BY <1>3, <1>4, SeqOfMore
<1> QED
  BY <1>3, <1>4, <1>5, SeqOfMore

(* What is known of a search of an index. *)
LEMMA TaskIs ==
  ASSUME RetrievalInv, NEW i \in Indexes
  PROVE  /\ task[i] \in [pc : TaskPcs, offset : Nat, hits : Seq(RefsOf(subset)),
                         list : Seq(ChunksOf(subset)) \union Seq(EntriesOf(subset))]
         /\ task[i].pc \in {"sources", "expand"} => task[i].list \in Seq(ChunksOf(subset))
         /\ task[i].pc \in {"search", "chunks", "done", "failed"} => task[i].list \in Seq(EntriesOf(subset))
         /\ task[i].hits \in Seq(RowsFor(kind)) /\ (task[i].pc = "chunks" => kind = "chunks")
         /\ Len(task[i].hits) <= Limit /\ Len(task[i].list) <= Limit
         /\ OnlyGaps(task[i]) /\ (Quiet => BackedTask(task[i]))
         /\ Quiet /\ pc = "search" =>
              IF task[i].pc = "search"
              THEN /\ task[i].offset <= Len(Rows(i))
                   /\ IsFirst(task[i].hits, SubSeq(Rows(i), 1, task[i].offset))
              ELSE IsFirst(task[i].hits, Rows(i))
BY DEF RetrievalInv, TasksOK, TaskOK, FirstOK, GapsOK, QuietOK

(* One more page of an index (relevance_search): while nothing changes the  *)
(* hits stay the first of the rows, and when the search stops they are the  *)
(* first of all rows.                                                       *)
LEMMA SearchPageStep ==
  ASSUME RetrievalInv, NEW i \in Indexes, SearchPage(i)
  PROVE  RetrievalInv'
<1> DEFINE rows == Rows(i)
           k == task[i].offset
           page == Slice(rows, k, PageSize[i])
           hits == Collect(task[i].hits, page)
           docs == [n \in 1..Len(hits) |-> Entry(hits[n], "document")]
           more == [task[i] EXCEPT !.hits = hits, !.offset = k + Len(page)]
           ended == [pc |-> IF kind = "documents" THEN "done" ELSE "chunks", offset |-> 0, hits |-> hits,
                     list |-> IF kind = "documents" THEN docs ELSE <<>>]
           D == RefsOf(subset)
<1>0. Limit \in Nat \ {0} /\ PageSize[i] \in Nat \ {0}
  BY RetrievalAssumption
<1>1. /\ task[i].pc = "search" /\ Searching /\ UNCHANGED sources
      /\ IF page # <<>> /\ Len(hits) < Limit THEN task' = [task EXCEPT ![i] = more]
         ELSE task' = [task EXCEPT ![i] = ended]
  BY DEF SearchPage, Put
<1>2. rows \in Seq(Refs) /\ rows \in Seq(D) /\ rows \in Seq(RowsFor(kind))
  BY RowsAre
<1>3. /\ task[i] \in [pc : TaskPcs, offset : Nat, hits : Seq(D),
                      list : Seq(ChunksOf(subset)) \union Seq(EntriesOf(subset))]
      /\ task[i].list \in Seq(EntriesOf(subset)) /\ Len(task[i].list) <= Limit
      /\ task[i].hits \in Seq(RowsFor(kind)) /\ (Quiet => task[i].list \in Seq(BackedOf(subset)))
      /\ Quiet => k <= Len(rows) /\ IsFirst(task[i].hits, SubSeq(rows, 1, k))
  BY <1>1, TaskIs DEF Searching, BackedTask
<1>4. sources' \in SUBSET Docs /\ kind \in Kinds
  BY <1>1 DEF RetrievalInv, RequestOK
<1>5. k \in Nat /\ task[i].hits \in Seq(D)
  BY <1>3
<1> HIDE DEF rows, k
<1>6. page \in Seq(D) /\ page \in Seq(RowsFor(kind))
  BY <1>0, <1>2, <1>5, SliceType
<1>7. Len(page) \in Nat
  BY <1>6
<1>8. Quiet => /\ k \in 0..Len(rows) /\ page \in Seq(Refs)
               /\ Len(page) = (IF k + PageSize[i] > Len(rows) THEN Len(rows) - k ELSE PageSize[i])
               /\ SubSeq(rows, 1, k) \o page = SubSeq(rows, 1, k + Len(page))
               /\ k + Len(page) <= Len(rows)
  <2> SUFFICES ASSUME Quiet
               PROVE  /\ k \in 0..Len(rows) /\ page \in Seq(Refs)
                      /\ Len(page) = (IF k + PageSize[i] > Len(rows) THEN Len(rows) - k ELSE PageSize[i])
                      /\ SubSeq(rows, 1, k) \o page = SubSeq(rows, 1, k + Len(page))
                      /\ k + Len(page) <= Len(rows)
    OBVIOUS
  <2>1. Len(rows) \in Nat
    BY <1>2
  <2>2. k \in 0..Len(rows) /\ PageSize[i] \in Nat
    BY <1>0, <1>3, <1>5, <2>1
  <2>3. rows \in Seq(Refs)
    BY <1>2
  <2> QED
    BY ONLY <2>2, <2>3, SliceIs
<1> HIDE DEF page
<1>9. hits \in Seq(D) /\ hits \in Seq(RowsFor(kind)) /\ Len(hits) <= Limit
  BY <1>0, <1>3, <1>5, <1>6, CollectType
<1>10. Quiet => IsFirst(hits, SubSeq(rows, 1, k + Len(page)))
  <2> SUFFICES ASSUME Quiet
               PROVE  IsFirst(hits, SubSeq(rows, 1, k + Len(page)))
    OBVIOUS
  <2> DEFINE s == SubSeq(rows, 1, k)
  <2>1. s \in Seq(Refs)
    BY <1>2, <1>8
  <2>2. IsFirst(task[i].hits, s) /\ page \in Seq(Refs) /\ s \o page = SubSeq(rows, 1, k + Len(page))
    BY <1>3, <1>8
  <2> HIDE DEF s
  <2>3. IsFirst(hits, s \o page)
    BY <1>0, <2>1, <2>2, CollectKeeps
  <2> QED
    BY <2>2, <2>3
<1> HIDE DEF hits
<1>11. Len(hits) \in Nat /\ \A n \in 1..Len(hits) : hits[n] \in D
  BY <1>9
<1>12. docs \in Seq(EntriesOf(subset)) /\ docs \in Seq(BackedOf(subset)) /\ Len(docs) = Len(hits)
  <2>1. \A n \in 1..Len(hits) : Entry(hits[n], "document") \in EntriesOf(subset)
    BY <1>11 DEF Entry, EntriesOf, Hows
  <2>2. \A n \in 1..Len(hits) : Entry(hits[n], "document") \in BackedOf(subset)
    BY <2>1 DEF Entry, BackedOf
  <2> QED
    BY <1>11, <2>1, <2>2
<1> HIDE DEF docs
<1>13. CASE page # <<>> /\ Len(hits) < Limit
  <2>1. TaskOK(more)
    <3>1. more \in [pc : TaskPcs, offset : Nat, hits : Seq(D),
                    list : Seq(ChunksOf(subset)) \union Seq(EntriesOf(subset))]
      <4>1. k + Len(page) \in Nat
        BY <1>5, <1>7
      <4> DEFINE o == k + Len(page)
      <4> HIDE DEF o
      <4>2. [task[i] EXCEPT !.hits = hits, !.offset = o]
              \in [pc : TaskPcs, offset : Nat, hits : Seq(D),
                   list : Seq(ChunksOf(subset)) \union Seq(EntriesOf(subset))]
        BY <1>3, <1>9, <4>1 DEF o
      <4> QED
        BY <4>2 DEF o
    <3>2. more.pc = "search" /\ more.list = task[i].list /\ more.hits = hits
      BY <1>1, <1>3
    <3> HIDE DEF more
    <3> QED
      BY <1>3, <1>9, <3>1, <3>2 DEF TaskOK
  <2>2. more.pc = "search" /\ more.offset = k + Len(page) /\ more.hits = hits /\ more.list = task[i].list
    BY <1>1, <1>3
  <2>3. task' = [task EXCEPT ![i] = more]
    BY <1>1, <1>13
  <2> HIDE DEF more
  <2>4. Quiet => more.offset <= Len(rows) /\ IsFirst(more.hits, SubSeq(rows, 1, more.offset))
    BY <1>8, <1>10, <2>2
  <2>5. OnlyGaps(more) /\ (Quiet => BackedTask(more))
    BY <1>3, <2>2 DEF OnlyGaps, BackedTask
  <2> QED
    BY <1>1, <1>4, <2>1, <2>2, <2>3, <2>4, <2>5, TaskStep DEF rows
<1>14. CASE ~(page # <<>> /\ Len(hits) < Limit)
  <2>1. /\ ended.pc \in {"done", "chunks"} /\ ended.offset = 0 /\ ended.hits = hits
        /\ ended.list = IF kind = "documents" THEN docs ELSE <<>>
    OBVIOUS
  <2>2. /\ ended.list \in Seq(EntriesOf(subset)) /\ ended.list \in Seq(BackedOf(subset))
        /\ Len(ended.list) <= Limit /\ (ended.pc = "chunks" => kind = "chunks")
    BY <1>0, <1>4, <1>9, <1>12 DEF Kinds
  <2>3. TaskOK(ended)
    <3>1. ended \in [pc : TaskPcs, offset : Nat, hits : Seq(D),
                     list : Seq(ChunksOf(subset)) \union Seq(EntriesOf(subset))]
      BY <1>9, <2>2 DEF TaskPcs
    <3> HIDE DEF ended
    <3> QED
      BY <1>9, <2>1, <2>2, <3>1 DEF TaskOK
  <2>4. task' = [task EXCEPT ![i] = ended]
    BY <1>1, <1>14
  <2> HIDE DEF ended
  <2>5. Quiet => IsFirst(hits, rows)
    <3> SUFFICES ASSUME Quiet
                 PROVE  IsFirst(hits, rows)
      OBVIOUS
    <3> DEFINE m == k + Len(page)
    <3>1. Len(rows) \in Nat /\ m \in 0..Len(rows)
      BY <1>2, <1>5, <1>7, <1>8
    <3>2. Len(hits) = Limit \/ m = Len(rows)
      <4>1. CASE page = <<>>
        <5>1. Len(page) = 0
          BY <4>1
        <5> QED
          BY <1>0, <1>5, <1>8, <3>1, <5>1
      <4>2. CASE ~(Len(hits) < Limit)
        BY <1>0, <1>9, <1>11, <4>2
      <4> QED
        BY <1>14, <4>1, <4>2
    <3>3. IsFirst(hits, SubSeq(rows, 1, m))
      BY <1>10
    <3> HIDE DEF m
    <3> QED
      BY <1>0, <1>2, <3>1, <3>2, <3>3, FirstOfMore
  <2>6. OnlyGaps(ended) /\ BackedTask(ended)
    BY <2>1, <2>2 DEF OnlyGaps, BackedTask
  <2> QED
    BY <1>1, <1>4, <2>1, <2>3, <2>4, <2>5, <2>6, TaskStep DEF rows
<1> QED
  BY <1>13, <1>14

(* The chunks are loaded: they are those of the hits that can be read.      *)
LEMMA LoadChunksStep ==
  ASSUME RetrievalInv, NEW i \in Indexes, LoadChunks(i)
  PROVE  RetrievalInv'
<1> DEFINE hits == task[i].hits
           fails == \E n \in DOMAIN hits : hits[n] \in chunks /\ Unreadable(hits[n])
           list == Only(hits, chunks)
           lost == [task[i] EXCEPT !.pc = "failed", !.list = <<>>]
           loaded == [task[i] EXCEPT !.pc = "sources", !.list = list]
           D == RefsOf(subset)
<1>0. Limit \in Nat
  BY RetrievalAssumption
<1>1. /\ task[i].pc = "chunks" /\ Searching /\ UNCHANGED sources /\ pc = "search"
      /\ IF fails THEN task' = [task EXCEPT ![i] = lost] ELSE task' = [task EXCEPT ![i] = loaded]
  BY DEF LoadChunks, Lose, Put, Searching
<1>2. /\ task[i] \in [pc : TaskPcs, offset : Nat, hits : Seq(D),
                      list : Seq(ChunksOf(subset)) \union Seq(EntriesOf(subset))]
      /\ Len(hits) <= Limit
      /\ hits \in Seq(RowsFor(kind)) /\ kind = "chunks"
      /\ Quiet => IsFirst(hits, Rows(i))
  BY <1>1, TaskIs
<1>3. sources' \in SUBSET Docs /\ chunks \in SUBSET Stored
  BY <1>1 DEF RetrievalInv, RequestOK, StoreOK, TypesOK
<1>4. (Images \ files) \union (Stored \ chunks) \subseteq unread
  BY DEF RetrievalInv, GapsOK, Gaps
<1>5. hits \in Seq(D) /\ hits \in Seq(Stored)
  BY <1>2 DEF RowsFor
<1>11. fails => ToSet(hits) \intersect unread # {}
  BY <1>4 DEF Unreadable, ToSet
<1> HIDE DEF fails, hits
<1>6. /\ list \in Seq(D) /\ list \in Seq(chunks) /\ Len(list) <= Len(hits)
      /\ \A n \in DOMAIN hits : hits[n] \in chunks => hits[n] \in ToSet(list)
  BY <1>5, OnlyIs
<1>7. Len(list) \in Nat /\ Len(hits) \in Nat /\ \A n \in 1..Len(list) : list[n] \in D /\ list[n] \in chunks
  BY <1>5, <1>6
<1>8. list \in Seq(ChunksOf(subset)) /\ Len(list) <= Limit
  <2>1. \A n \in 1..Len(list) : list[n] \in ChunksOf(subset)
    BY <1>3, <1>7 DEF ChunksOf, RefsOf
  <2>2. list \in Seq(chunks) /\ Len(list) <= Limit
    BY <1>0, <1>2, <1>6, <1>7
  <2> HIDE DEF list
  <2>3. list \in [1..Len(list) -> ChunksOf(subset)]
    BY <2>1, <2>2
  <2> QED
    BY <1>7, <2>2, <2>3
<1>12. ToSet(hits) \ unread \subseteq ToSet(list)
  <2>1. \A n \in DOMAIN hits : hits[n] \in Stored
    BY <1>5
  <2>2. \A n \in DOMAIN hits : hits[n] \notin unread => hits[n] \in ToSet(list)
    BY <1>4, <1>6, <2>1
  <2>3. \A r \in ToSet(hits) : \E n \in DOMAIN hits : r = hits[n]
    BY DEF ToSet
  <2> QED
    BY <2>2, <2>3
<1>13. list \in Seq(chunks)
  BY <1>6
<1> HIDE DEF list
<1>9. CASE fails
  <2>1. lost \in [pc : TaskPcs, offset : Nat, hits : Seq(D),
                  list : Seq(ChunksOf(subset)) \union Seq(EntriesOf(subset))]
    <3>1. <<>> \in Seq(ChunksOf(subset)) \union Seq(EntriesOf(subset)) /\ "failed" \in TaskPcs
      BY DEF TaskPcs
    <3> QED
      BY <1>2, <3>1
  <2>2. lost.pc = "failed" /\ lost.list = <<>> /\ lost.hits = hits
    BY <1>2 DEF hits
  <2> HIDE DEF lost
  <2>3. TaskOK(lost)
    <3>1. Len(<<>>) = 0 /\ 0 <= Limit
      BY <1>0
    <3> QED
      BY <1>2, <2>1, <2>2, <3>1 DEF TaskOK
  <2>4. task' = [task EXCEPT ![i] = lost]
    BY <1>1, <1>9
  <2>5. OnlyGaps(lost) /\ BackedTask(lost)
    BY <1>9, <1>11, <2>2 DEF OnlyGaps, BackedTask
  <2> QED
    BY <1>1, <1>2, <1>3, <2>2, <2>3, <2>4, <2>5, TaskStep
<1>10. CASE ~fails
  <2>1. loaded \in [pc : TaskPcs, offset : Nat, hits : Seq(D),
                    list : Seq(ChunksOf(subset)) \union Seq(EntriesOf(subset))]
    BY <1>2, <1>8 DEF TaskPcs
  <2>2. loaded.pc = "sources" /\ loaded.list = list /\ loaded.hits = hits
    BY <1>2 DEF hits
  <2> HIDE DEF loaded
  <2>3. TaskOK(loaded)
    BY <1>2, <1>8, <2>1, <2>2 DEF TaskOK
  <2>4. task' = [task EXCEPT ![i] = loaded]
    BY <1>1, <1>10
  <2>5. OnlyGaps(loaded) /\ BackedTask(loaded)
    BY <1>12, <1>13, <2>2 DEF OnlyGaps, BackedTask
  <2> QED
    BY <1>1, <1>2, <1>3, <2>2, <2>3, <2>4, <2>5, TaskStep
<1> QED
  BY <1>9, <1>10

(* The documents are loaded: if one is missing, a hit names what is gone.   *)
LEMMA LoadSourcesStep ==
  ASSUME RetrievalInv, NEW i \in Indexes, LoadSources(i)
  PROVE  RetrievalInv'
<1> DEFINE hits == task[i].hits
           docs == {hits[n].doc : n \in DOMAIN hits}
           lost == [task[i] EXCEPT !.pc = "failed", !.list = <<>>]
           loaded == [task[i] EXCEPT !.pc = "expand"]
           D == RefsOf(subset)
<1>0. Limit \in Nat
  BY RetrievalAssumption
<1>1. /\ task[i].pc = "sources" /\ Searching /\ pc = "search"
      /\ sources' = sources \union (docs \intersect present)
      /\ IF docs \subseteq sources' THEN task' = [task EXCEPT ![i] = loaded]
         ELSE task' = [task EXCEPT ![i] = lost]
  BY DEF LoadSources, Loaded, Lose, Put, Searching
<1>2. /\ task[i] \in [pc : TaskPcs, offset : Nat, hits : Seq(D),
                      list : Seq(ChunksOf(subset)) \union Seq(EntriesOf(subset))]
      /\ task[i].list \in Seq(ChunksOf(subset))
      /\ Len(hits) <= Limit /\ Len(task[i].list) <= Limit
      /\ hits \in Seq(RowsFor(kind)) /\ OnlyGaps(task[i])
      /\ Quiet => BackedTask(task[i])
      /\ Quiet => IsFirst(hits, Rows(i))
  BY <1>1, TaskIs
<1>3. sources' \in SUBSET Docs
  BY <1>1 DEF RetrievalInv, RequestOK, StoreOK, TypesOK
<1>4. \A n \in DOMAIN hits : hits[n] \in Refs
  BY <1>2 DEF RefsOf
<1>5. ~(docs \subseteq sources') => ToSet(hits) \intersect unread # {}
  <2> SUFFICES ASSUME NEW n \in DOMAIN hits, hits[n].doc \notin sources'
               PROVE  ToSet(hits) \intersect unread # {}
    OBVIOUS
  <2>1. hits[n].doc \notin present
    BY <1>1
  <2>2. hits[n] \in unread
    BY <1>4, <2>1 DEF RetrievalInv, GapsOK, Gaps
  <2> QED
    BY <2>2 DEF ToSet
<1> HIDE DEF docs
<1>6. CASE ~(docs \subseteq sources')
  <2>1. lost \in [pc : TaskPcs, offset : Nat, hits : Seq(D),
                  list : Seq(ChunksOf(subset)) \union Seq(EntriesOf(subset))]
    <3>1. <<>> \in Seq(ChunksOf(subset)) \union Seq(EntriesOf(subset)) /\ "failed" \in TaskPcs
      BY DEF TaskPcs
    <3> QED
      BY <1>2, <3>1
  <2>2. lost.pc = "failed" /\ lost.list = <<>> /\ lost.hits = hits
    BY <1>2
  <2> HIDE DEF lost
  <2>3. TaskOK(lost)
    <3>1. Len(<<>>) = 0 /\ 0 <= Limit
      BY <1>0
    <3> QED
      BY <1>2, <2>1, <2>2, <3>1 DEF TaskOK
  <2>4. task' = [task EXCEPT ![i] = lost]
    BY <1>1, <1>6
  <2>5. OnlyGaps(lost) /\ BackedTask(lost)
    BY <1>5, <1>6, <2>2 DEF OnlyGaps, BackedTask
  <2> QED
    BY <1>1, <1>2, <1>3, <2>2, <2>3, <2>4, <2>5, TaskStep
<1>7. CASE docs \subseteq sources'
  <2>1. loaded \in [pc : TaskPcs, offset : Nat, hits : Seq(D),
                    list : Seq(ChunksOf(subset)) \union Seq(EntriesOf(subset))]
    BY <1>2 DEF TaskPcs
  <2>2. loaded.pc = "expand" /\ loaded.list = task[i].list /\ loaded.hits = hits
    BY <1>2
  <2> HIDE DEF loaded
  <2>3. TaskOK(loaded)
    BY <1>2, <2>1, <2>2 DEF TaskOK
  <2>4. task' = [task EXCEPT ![i] = loaded]
    BY <1>1, <1>7
  <2>5. OnlyGaps(loaded) /\ (Quiet => BackedTask(loaded))
    BY <1>1, <1>2, <2>2 DEF OnlyGaps, BackedTask
  <2> QED
    BY <1>1, <1>2, <1>3, <2>2, <2>3, <2>4, <2>5, TaskStep
<1> QED
  BY <1>6, <1>7

(* The images of pages are replaced by the texts: of the same documents,    *)
(* and within the limit.                                                    *)
LEMMA ExpandStep ==
  ASSUME RetrievalInv, NEW i \in Indexes, Expand(i)
  PROVE  RetrievalInv'
<1> DEFINE list == task[i].list
           lists == [n \in 1..Len(list) |-> Expanded(list, list[n])]
           all == Joined(lists)
           new == Slice(all, 0, Limit)
           expanded == [task[i] EXCEPT !.pc = "done", !.list = new]
           E == EntriesOf(subset)
           B == BackedOf(subset)
<1>0. Limit \in Nat
  BY RetrievalAssumption
<1>1. /\ task[i].pc = "expand" /\ Searching /\ UNCHANGED sources /\ pc = "search"
      /\ task' = [task EXCEPT ![i] = expanded]
  BY DEF Expand, Put, Searching
<1>2. /\ task[i] \in [pc : TaskPcs, offset : Nat, hits : Seq(RefsOf(subset)),
                      list : Seq(ChunksOf(subset)) \union Seq(E)]
      /\ task[i].list \in Seq(ChunksOf(subset))
      /\ Len(task[i].hits) <= Limit /\ task[i].hits \in Seq(RowsFor(kind))
      /\ Quiet => list \in Seq(chunks)
      /\ Quiet => IsFirst(task[i].hits, Rows(i))
  BY <1>1, TaskIs DEF BackedTask
<1>3. sources' \in SUBSET Docs /\ chunks \in SUBSET Stored
  BY <1>1 DEF RetrievalInv, RequestOK, StoreOK, TypesOK
<1>4. Len(list) \in Nat /\ \A n \in 1..Len(list) : list[n] \in ChunksOf(subset)
  BY <1>2
<1>12. Quiet => ToSet(list) \subseteq chunks
  BY <1>2 DEF ToSet
<1> HIDE DEF list, E, B
<1>5. lists \in [1..Len(list) -> Seq(E)] /\ (Quiet => lists \in [1..Len(list) -> Seq(B)])
  BY <1>3, <1>4, <1>12, ExpandedType DEF E, B
<1> HIDE DEF lists
<1>6. all \in Seq(E) /\ (Quiet => all \in Seq(B))
  BY <1>4, <1>5, JoinedType
<1> HIDE DEF all
<1>7. new \in Seq(E) /\ Len(new) = (IF Limit > Len(all) THEN Len(all) ELSE Limit)
  BY <1>0, <1>6, PrefixIs
<1>13. Quiet => new \in Seq(B)
  BY <1>0, <1>6, PrefixIs
<1>8. Len(new) <= Limit
  <2>1. Len(all) \in Nat
    BY <1>6
  <2> QED
    BY <1>0, <1>7, <2>1
<1> HIDE DEF new
<1>9. expanded \in [pc : TaskPcs, offset : Nat, hits : Seq(RefsOf(subset)),
                    list : Seq(ChunksOf(subset)) \union Seq(E)]
  BY <1>2, <1>7 DEF TaskPcs
<1>10. expanded.pc = "done" /\ expanded.list = new /\ expanded.hits = task[i].hits
  BY <1>2
<1> HIDE DEF expanded
<1>11. TaskOK(expanded)
  BY <1>2, <1>7, <1>8, <1>9, <1>10 DEF TaskOK, E
<1>14. OnlyGaps(expanded) /\ (Quiet => BackedTask(expanded))
  BY <1>10, <1>13 DEF OnlyGaps, BackedTask, B
<1> QED
  BY <1>1, <1>2, <1>3, <1>10, <1>11, <1>14, TaskStep

(* The lists that have been found, when all searches have ended. *)
LEMMA ListsAre ==
  ASSUME RetrievalInv, \A i \in Indexes : task[i].pc \in {"done", "failed"}
  PROVE  /\ Lists \in [Indexes -> Seq(EntriesOf(subset))]
         /\ Quiet => Lists \in [Indexes -> Seq(BackedOf(subset))]
<1> DEFINE E == Seq(EntriesOf(subset))
           B == Seq(BackedOf(subset))
<1>2. \A i \in Indexes : task[i].list \in E /\ (Quiet => task[i].list \in B)
  <2> SUFFICES ASSUME NEW i \in Indexes
               PROVE  task[i].list \in Seq(EntriesOf(subset)) /\ (Quiet => task[i].list \in Seq(BackedOf(subset)))
    OBVIOUS
  <2> QED
    BY TaskIs DEF BackedTask
<1> HIDE DEF E, B
<1>3. Lists \in [Indexes -> E] /\ (Quiet => Lists \in [Indexes -> B])
  BY <1>2 DEF Lists
<1> QED
  BY <1>3 DEF E, B

(* The lists are combined. *)
LEMMA CombineStep ==
  ASSUME RetrievalInv, Combine
  PROVE  RetrievalInv'
<1> USE DEF Combine, store
<1> DEFINE E == EntriesOf(subset)
           F == Fused(Lists)
<1>0. StoreOK /\ RequestOK /\ TasksOK /\ FoundOK /\ QuietOK /\ GapsOK
  BY DEF RetrievalInv
<1>1. Lists \in [Indexes -> Seq(E)] /\ (Quiet => Lists \in [Indexes -> Seq(BackedOf(subset))])
  BY ListsAre
<1>2. Limit \in Nat
  BY RetrievalAssumption
<1>3. F \in Seq(E) /\ Slice(F, 0, Limit) \in Seq(E)
  <2> HIDE DEF E
  <2>1. F \in Seq(E)
    BY <1>1, FusedIs
  <2> HIDE DEF F
  <2> QED
    BY <1>2, <2>1, PrefixIs
<1>12. Quiet => F \in Seq(BackedOf(subset))
  BY <1>1, FusedIs
<1>4. found' \in Seq(E)
  <2>1. found' = Slice(F, 0, Limit) \/ found' = F
    OBVIOUS
  <2> HIDE DEF F, E
  <2> QED
    BY <1>3, <2>1
<1>5. StoreOK'
  BY <1>0 DEF StoreOK, TypesOK
<1>6. RequestOK'
  BY <1>0 DEF RequestOK
<1>7. TasksOK'
  BY <1>0 DEF TasksOK, TaskOK
<1>8. FoundOK'
  <2>1. ScopeKept'
    <3>1. \A e \in E : e.chunk.doc \in scope
      BY <1>0 DEF RequestOK, EntriesOf, RefsOf
    <3>2. \A n \in DOMAIN found' : found'[n] \in E
      <4> HIDE DEF E, F
      <4> QED
        BY <1>4
    <3> HIDE DEF E, F
    <3> QED
      BY <3>1, <3>2 DEF ScopeKept
  <2>2. EntriesOf(subset)' = E
    BY DEF EntriesOf, RefsOf
  <2> QED
    BY <1>4, <2>1, <2>2 DEF FoundOK
<1>9. QuietOK'
  <2>1. BackedOf(subset)' = BackedOf(subset)
    BY DEF BackedOf, EntriesOf, RefsOf
  <2>2. Quiet /\ pc' = "attach" => found' = F
    BY <1>0 DEF RequestOK, Kinds
  <2>3. \A i \in Indexes : BackedTask(task[i])' <=> BackedTask(task[i])
    BY <2>1 DEF BackedTask
  <2> HIDE DEF F
  <2> QED
    BY <1>0, <1>12, <2>1, <2>2, <2>3 DEF QuietOK, Quiet
<1>10. FirstOK' /\ LimitOK' /\ GapsOK'
  BY <1>0 DEF FirstOK, LimitOK, GapsOK, Gaps, OnlyGaps
<1>11. FusedOK'
  <2>1. Lists' = Lists
    BY DEF Lists
  <2>2. kind' = kind /\ kind \in Kinds
    BY <1>0 DEF RequestOK
  <2> QED
    BY <2>1, <2>2 DEF FusedOK, Kinds
<1> QED
  BY <1>5, <1>6, <1>7, <1>8, <1>9, <1>10, <1>11 DEF RetrievalInv

(* The end of a search. *)
LEMMA FinishStep ==
  ASSUME RetrievalInv, NEW p \in {"done", "failed"}, NEW result, Finish(p, result),
         p = "failed" => result = <<>> /\ \E r \in unread : r.doc \in subset,
         \A n \in DOMAIN result : result[n].chunk.doc \in scope,
         p = "done" => Fits(result) /\ (Quiet => Fair(result))
  PROVE  RetrievalInv'
<1> USE DEF Finish, store
<1>0. StoreOK /\ RequestOK /\ TasksOK /\ FoundOK /\ QuietOK /\ GapsOK
  BY DEF RetrievalInv
<1>1. StoreOK'
  BY <1>0 DEF StoreOK, TypesOK
<1>2. RequestOK'
  BY <1>0 DEF RequestOK
<1>3. TasksOK'
  <2>1. \A i \in Indexes : TaskOK(task[i])'
    <3> SUFFICES ASSUME NEW i \in Indexes
                 PROVE  TaskOK(task[i])'
      OBVIOUS
    <3>1. TaskOK(NoTask)
      BY NoTaskOK
    <3>2. task'[i] = NoTask /\ subset' = subset
      OBVIOUS
    <3> QED
      BY <3>1, <3>2 DEF TaskOK, NoTask
  <2> QED
    BY <2>1 DEF TasksOK
<1>4. FoundOK'
  <2>1. found' = result /\ pc' = p /\ scope' = scope
    OBVIOUS
  <2>2. ScopeKept'
    BY <2>1 DEF ScopeKept
  <2>3. p = "failed" => found' = <<>> /\ found' \in Seq(EntriesOf(subset)')
    BY <2>1
  <2> QED
    BY <2>1, <2>2, <2>3 DEF FoundOK
<1>5. QuietOK'
  <2>1. \A i \in Indexes : BackedTask(task[i])'
    <3>1. <<>> \in Seq(BackedOf(subset)')
      OBVIOUS
    <3>2. \A i \in Indexes : task'[i].pc = "search" /\ task'[i].list = <<>>
      BY DEF NoTask
    <3> QED
      BY <3>1, <3>2 DEF BackedTask
  <2> QED
    BY <1>0, <2>1 DEF QuietOK, Quiet
<1>6. FirstOK' /\ FusedOK'
  BY DEF FirstOK, FusedOK
<1>7. LimitOK'
  BY DEF LimitOK, Quiet
<1>8. GapsOK'
  <2>1. \A i \in Indexes : OnlyGaps(task[i])'
    BY DEF OnlyGaps, NoTask
  <2> QED
    BY <1>0, <2>1 DEF GapsOK, Gaps
<1> QED
  BY <1>1, <1>2, <1>3, <1>4, <1>5, <1>6, <1>7, <1>8 DEF RetrievalInv

(* The images are attached to the results (_get_image_by_page). *)
LEMMA AttachStep ==
  ASSUME RetrievalInv, Attach
  PROVE  RetrievalInv'
<1> DEFINE images == ImagesOf(Required(found))
           fails == \E c \in images : Unreadable(c)
           new == Attached(found, images)
<1>1. /\ pc = "attach" /\ found \in Seq(EntriesOf(subset)) /\ chunks \in SUBSET Stored
      /\ subset \subseteq scope /\ (Quiet => found \in Seq(BackedOf(subset)))
      /\ Images \ files \subseteq unread
  BY DEF Attach, RetrievalInv, FoundOK, QuietOK, StoreOK, TypesOK, RequestOK, GapsOK, Gaps
<1>2. IF fails THEN Finish("failed", <<>>) ELSE Finish("done", new)
  BY DEF Attach, Attached, ImageAt, IsFirstOfPage
<1>3. \A c \in images : Page(c) \in Required(found)
  BY DEF ImagesOf
<1>4. \A n \in DOMAIN found : found[n].chunk.doc \in subset
  <2>1. \A e \in EntriesOf(subset) : e.chunk.doc \in subset
    BY DEF EntriesOf, RefsOf
  <2>2. \A n \in DOMAIN found : found[n] \in EntriesOf(subset)
    BY <1>1
  <2> QED
    BY <2>1, <2>2
<1>5. CASE fails
  <2>1. PICK c \in images : c \in unread
    BY <1>1, <1>5 DEF Unreadable
  <2>2. Required(found) \subseteq {PageOf(found[n]) : n \in DOMAIN found}
    BY <1>1, RequiredIs
  <2>3. PICK n \in DOMAIN found : Page(c) = PageOf(found[n])
    BY <1>3, <2>1, <2>2
  <2>4. c.doc \in subset
    BY <1>4, <2>3 DEF PageOf, Page
  <2> HIDE DEF fails, images
  <2> QED
    BY <1>2, <1>5, <2>1, <2>4, FinishStep
<1>6. CASE ~fails
  <2>1. Fits(new)
    <3> HIDE DEF images
    <3> QED
      BY <1>1, <1>3, AttachedFits
  <2>2. Quiet => Fair(new)
    BY <1>1, AttachedFair
  <2>3. \A n \in DOMAIN new : new[n].chunk.doc \in scope
    <3> HIDE DEF images
    <3>1. DOMAIN new = DOMAIN found /\ \A n \in DOMAIN found : new[n].chunk = found[n].chunk
      BY <1>1, AttachedIs
    <3> HIDE DEF new
    <3> QED
      BY <1>1, <1>4, <3>1
  <2>4. Finish("done", new)
    BY <1>2, <1>6
  <2> HIDE DEF new
  <2> QED
    BY <2>1, <2>2, <2>3, <2>4, FinishStep
<1> QED
  BY <1>5, <1>6

(* The documents of a document search are loaded. *)
LEMMA LoadDocumentsStep ==
  ASSUME RetrievalInv, LoadDocuments
  PROVE  RetrievalInv'
<1> DEFINE all == \A n \in DOMAIN found : found[n].chunk.doc \in present
<1>1. /\ pc = "load" /\ found \in Seq(EntriesOf(subset)) /\ subset \subseteq scope
      /\ IF all THEN Finish("done", found) ELSE Finish("failed", <<>>)
  BY DEF LoadDocuments, RetrievalInv, FoundOK, RequestOK
<1>2. \A n \in DOMAIN found : found[n] \in EntriesOf(subset)
  BY <1>1
<1>3. \A n \in DOMAIN found : found[n].chunk.doc \in subset /\ found[n].image = {} /\ found[n].chunk \in Refs
  BY <1>2 DEF EntriesOf, RefsOf
<1>4. ~all => \E r \in unread : r.doc \in subset
  BY <1>3 DEF RetrievalInv, GapsOK, Gaps
<1>5. Fits(found) /\ Fair(found)
  BY <1>3, NoImages
<1>8. \A n \in DOMAIN found : found[n].chunk.doc \in scope
  BY <1>1, <1>3
<1> HIDE DEF all
<1>6. CASE all
  BY <1>1, <1>5, <1>6, <1>8, FinishStep
<1>7. CASE ~all
  BY <1>1, <1>4, <1>7, FinishStep
<1> QED
  BY <1>6, <1>7

----------------------------------------------------------------------------
(* The invariant, and what follows from it. *)

(* A step that changes nothing. *)
LEMMA Unchanged ==
  ASSUME RetrievalInv, UNCHANGED vars
  PROVE  RetrievalInv'
<1> USE DEF vars, store, request
<1>1. StoreOK'
  BY DEF RetrievalInv, StoreOK, TypesOK
<1>2. RequestOK'
  BY DEF RetrievalInv, RequestOK
<1>3. TasksOK'
  BY DEF RetrievalInv, TasksOK, TaskOK
<1>4. FoundOK'
  BY DEF RetrievalInv, FoundOK, ScopeKept
<1>5. QuietOK'
  <2>1. BackedOf(subset)' = BackedOf(subset)
    BY DEF BackedOf, EntriesOf, RefsOf
  <2>2. \A i \in Indexes : BackedTask(task[i])' <=> BackedTask(task[i])
    BY <2>1 DEF BackedTask
  <2> QED
    BY <2>1, <2>2 DEF RetrievalInv, QuietOK, Quiet
<1>6. FirstOK'
  BY DEF RetrievalInv, FirstOK, Quiet, Rows
<1>7. FusedOK'
  BY DEF RetrievalInv, FusedOK, Lists
<1>8. LimitOK'
  BY DEF RetrievalInv, LimitOK, Quiet
<1>9. GapsOK'
  BY DEF RetrievalInv, GapsOK, Gaps, OnlyGaps
<1> QED
  BY <1>1, <1>2, <1>3, <1>4, <1>5, <1>6, <1>7, <1>8, <1>9 DEF RetrievalInv

(* Every step keeps the invariant. *)
LEMMA StepKeeps == RetrievalInv /\ [Next]_vars => RetrievalInv'
<1> SUFFICES ASSUME RetrievalInv, [Next]_vars
             PROVE  RetrievalInv'
  OBVIOUS
<1>1. CASE Change
  BY <1>1, StoreStep, NotQuiet
<1>2. CASE Select
  BY <1>2, SelectStep
<1>3. ASSUME NEW i \in Indexes, IndexStep(i)
      PROVE  RetrievalInv'
  BY <1>3, SearchPageStep, LoadChunksStep, LoadSourcesStep, ExpandStep DEF IndexStep
<1>4. CASE Combine
  BY <1>4, CombineStep
<1>5. CASE Attach
  BY <1>5, AttachStep
<1>6. CASE LoadDocuments
  BY <1>6, LoadDocumentsStep
<1>7. CASE UNCHANGED vars
  BY <1>7, Unchanged
<1> QED
  BY <1>1, <1>2, <1>3, <1>4, <1>5, <1>6, <1>7 DEF Next, Search

(* The inductive invariant holds in every state of every search. *)
THEOREM RetrievalInvariant == Spec => []RetrievalInv
<1>1. Init => RetrievalInv
  BY InitOK
<1>2. RetrievalInv /\ [Next]_vars => RetrievalInv'
  BY StepKeeps
<1> QED
  BY <1>1, <1>2, PTL DEF Spec

(* The types of Retrieval: no search of an index has more hits or results   *)
(* than the limit, after the pages of images were expanded too              *)
(* (relevance_search, retrieve of the classic retriever).                   *)
THEOREM RetrievalTypeCorrect == Spec => []TypeOK
<1>1. RetrievalInv => TypeOK
  <2> SUFFICES ASSUME RetrievalInv
               PROVE  TypeOK
    OBVIOUS
  <2>1. \A i \in Indexes : \A n \in DOMAIN order[i] : order[i][n] \in Refs
    <3>1. RowsFor(kind) \subseteq Refs
      BY DEF RowsFor, Refs
    <3>2. order \in [Indexes -> Seq(RowsFor(kind))]
      BY DEF RetrievalInv, StoreOK, TypesOK
    <3> QED
      BY <3>1, <3>2
  <2>2. change.doc \in Docs \union {None}
    BY DEF RetrievalInv, StoreOK, TypesOK
  <2>3. \A i \in Indexes :
          /\ task[i].pc \in TaskPcs
          /\ Len(task[i].hits) <= Limit /\ Len(task[i].list) <= Limit
    BY TaskIs
  <2> QED
    BY <2>1, <2>2, <2>3 DEF RetrievalInv, StoreOK, TypesOK, RequestOK, TypeOK, TaskPcs
<1> QED
  BY <1>1, RetrievalInvariant, PTL

(* While nothing changes, the pages of an index give the first different    *)
(* results, as many as were asked for or as there are, for every size of a  *)
(* page, every limit and every number of rows of a result                   *)
(* (relevance_search).                                                      *)
THEOREM HitsAreTheFirstCorrect == Spec => []HitsAreTheFirst
<1>1. RetrievalInv => HitsAreTheFirst
  <2> SUFFICES ASSUME RetrievalInv, NEW i \in Indexes, Quiet, pc = "search", task[i].pc # "search"
               PROVE  LET rows == Rows(i) hits == task[i].hits IN
                        /\ Cardinality(ToSet(hits)) = Len(hits)
                        /\ ToSet(hits) \subseteq ToSet(rows)
                        /\ Len(hits) < Limit => ToSet(hits) = ToSet(rows)
                        /\ \A r \in ToSet(rows), n \in DOMAIN hits :
                             (\A m \in 1..n : hits[m] # r) => FirstRow(rows, hits[n]) < FirstRow(rows, r)
    BY DEF HitsAreTheFirst
  <2> DEFINE rows == Rows(i)
             hits == task[i].hits
  <2>1. rows \in Seq(Refs) /\ IsFirst(hits, rows)
    BY RowsAre, TaskIs
  <2> HIDE DEF rows, hits
  <2>2. /\ Cardinality(ToSet(hits)) = Len(hits)
        /\ ToSet(hits) \subseteq ToSet(rows)
        /\ Len(hits) < Limit => ToSet(hits) = ToSet(rows)
        /\ \A r \in ToSet(rows), n \in DOMAIN hits :
             (\A m \in 1..n : hits[m] # r) => FirstRow(rows, hits[n]) < FirstRow(rows, r)
    BY <2>1, FirstRows
  <2> QED
    BY <2>2 DEF rows, hits
<1> QED
  BY <1>1, RetrievalInvariant, PTL

(* Nothing is found outside of the documents that were asked for, whatever  *)
(* changes meanwhile (document_selector, get_documents_subset, retrieve).   *)
THEOREM ScopeKeptCorrect == Spec => []ScopeKept
<1>1. RetrievalInv => ScopeKept
  BY DEF RetrievalInv, FoundOK
<1> QED
  BY <1>1, RetrievalInvariant, PTL

(* The combined list has the chunks of the lists, each once, and keeps an   *)
(* order that the lists agree on, for any number of indexes and any lists   *)
(* (rank_fusion).                                                           *)
THEOREM FusionAgreesCorrect == Spec => []FusionAgrees
<1>1. RetrievalInv => FusionAgrees
  <2> SUFFICES ASSUME RetrievalInv, pc \in {"attach", "load"}
               PROVE  FusionAgrees
    BY DEF FusionAgrees
  <2> DEFINE E == EntriesOf(subset)
             F == Fused(Lists)
             results == {e.chunk : e \in UNION {ToSet(Lists[i]) : i \in Indexes}}
  <2>1. Lists \in [Indexes -> Seq(E)]
    BY ListsAre DEF RetrievalInv, FusedOK
  <2>2. Limit \in Nat
    BY RetrievalAssumption
  <2>3. found = F \/ found = Slice(F, 0, Limit)
    BY DEF RetrievalInv, FusedOK
  <2>4. kind = "chunks" => found = F
    BY DEF RetrievalInv, FusedOK
  <2> HIDE DEF E
  <2>5. PICK s : IsFusion(s, F, Lists)
    BY <2>1, FusedIs
  <2>6. F \in Seq(E)
    BY <2>1, FusedIs
  <2>7. {e.chunk : e \in ToSet(F)} = results
    BY <2>1, FusionHasAll
  <2> HIDE DEF F
  <2>8. found \in Seq(E) /\ Len(found) <= Len(F) /\ \A n \in 1..Len(found) : found[n] = F[n]
    <3>1. CASE found = F
      BY <2>6, <3>1
    <3>2. CASE found = Slice(F, 0, Limit)
      <4> DEFINE t == Slice(F, 0, Limit)
      <4>1. /\ t \in Seq(E) /\ Len(t) = (IF Limit > Len(F) THEN Len(F) ELSE Limit)
            /\ \A n \in 1..Len(t) : t[n] = F[n]
        BY <2>2, <2>6, PrefixIs
      <4> HIDE DEF t
      <4>2. Len(t) <= Len(F)
        BY <2>2, <2>6, <4>1
      <4> QED
        BY <3>2, <4>1, <4>2 DEF t
    <3> QED
      BY <2>3, <3>1, <3>2
  <2>9. IsFusion(s, found, Lists)
    <3>0. Cardinality(Uniq(Lists)) \in Nat
      BY <2>1, FusedIs
    <3>1. Len(F) \in Nat /\ Len(found) \in Nat /\ Cardinality(Uniq(Lists)) \in Nat
      BY <2>6, <2>8, <3>0
    <3>2. Len(found) <= Cardinality(Uniq(Lists))
      BY <2>5, <2>8, <3>1 DEF IsFusion
    <3>3. \A n \in 1..Len(found) : n \in 1..Len(F)
      BY <2>8, <3>1
    <3> QED
      BY <2>5, <2>8, <3>2, <3>3 DEF IsFusion
  <2>10. Once(found)
    BY <2>1, <2>8, <2>9, FusionIsOnce
  <2>11. kind = "chunks" => {e.chunk : e \in ToSet(found)} = results
    BY <2>4, <2>7
  <2>12. ASSUME UniqueLists, NEW c \in results, NEW d \in results, c # d,
                \A i \in Indexes : (\E e \in ToSet(Lists[i]) : e.chunk = d) => Before(Lists[i], c, d)
         PROVE  Before(found, c, d) \/ d \notin {e.chunk : e \in ToSet(found)}
    <3>1. \A i \in Indexes : Once(Lists[i])
      BY <2>12 DEF UniqueLists
    <3> QED
      BY <2>1, <2>8, <2>9, <2>12, <3>1, FusionOrder
  <2> QED
    BY <2>10, <2>11, <2>12 DEF FusionAgrees
<1> QED
  BY <1>1, RetrievalInvariant, PTL

(* With a limit of at least one image, no more are sent than the limit and  *)
(* none twice, and a page found by its image does not lose it to one that   *)
(* was not (_get_image_by_page).                                            *)
THEOREM ImagesWithinLimitCorrect ==
  ASSUME NumImages # 0
  PROVE  Spec => []ImagesWithinLimit
<1>1. RetrievalInv => ImagesWithinLimit
  BY DEF RetrievalInv, LimitOK, ImagesWithinLimit, Fits, Fair, WithImage, PagesWithImage, ByImage, MostImages
<1> QED
  BY <1>1, RetrievalInvariant, PTL

(* A search, or the part of an index, fails only for something in it that   *)
(* was missing at some moment, whatever earlier failures left behind and    *)
(* whatever is deleted or indexed meanwhile; and what could be read all the *)
(* time is not lost before the pages are expanded (retrieve,                *)
(* _create_retrieval_result, _get_image_by_page, search).                   *)
THEOREM LosesOnlyToGapsCorrect == Spec => []LosesOnlyToGaps
<1>1. RetrievalInv => LosesOnlyToGaps
  BY DEF RetrievalInv, GapsOK, OnlyGaps, LosesOnlyToGaps
<1> QED
  BY <1>1, RetrievalInvariant, PTL
============================================================================
