------------------------ MODULE ChannelExportProofs ------------------------
(***************************************************************************)
(* Proofs about ChannelExport, for any documents, indexes, requests,       *)
(* exports, page and batch sizes, attempts and faults: its types, that it  *)
(* implements ArchiveRegister, and that an undisturbed archive is current  *)
(* while it is served.                                                     *)
(***************************************************************************)
EXTENDS ChannelExport, FiniteSetTheorems, TLAPS

USE ExportAssumption

Handler == [pc : Steps, doc : Ids \union {NoDoc}, left : SUBSET Indexed,
            kind : {"none", "export", "create", "update", "delete", "reindex", "import"}]

ExportType == [pc : {"idle", "list", "pack", "last", "upload", "published"}, offset : Nat,
               page : SUBSET Bundle, batch : SUBSET Bundle, packed : SUBSET Bundle]

LEMMA PartTypes == File \in Parts /\ Indexed \subseteq Parts /\ Indexes \subseteq Indexed
                   /\ Chunks \in Indexed /\ File \in Nat \ {0}
BY DEF File, Parts, Indexed, Indexes, Chunks

(* Versions only rise or are reset, so they stay numbers. *)
LEMMA RowTypes ==
  ASSUME row \in [Ids -> Nat], NEW d
  PROVE  /\ Raise(row, d) \in [Ids -> Nat] /\ [row EXCEPT ![d] = 0] \in [Ids -> Nat]
         /\ Updated(d) \in [Ids -> Nat]
<1>1. CASE d \in Ids
  BY <1>1 DEF Raise, Updated
<1>2. CASE d \notin Ids
  BY <1>2, Zenon DEF Raise, Updated
<1> QED
  BY <1>1, <1>2

LEMMA DataTypes ==
  ASSUME data \in [Ids -> [Parts -> Nat]], NEW d, NEW part \in Parts
  PROVE  /\ Renewed(d, part) \in [Ids -> [Parts -> Nat]]
         /\ [data EXCEPT ![d][part] = 0] \in [Ids -> [Parts -> Nat]]
<1>1. CASE d \in Ids
  <2>1. [data[d] EXCEPT ![part] = @ + 1] \in [Parts -> Nat]
        /\ [data[d] EXCEPT ![part] = 0] \in [Parts -> Nat]
    BY <1>1
  <2> QED
    BY <2>1, Zenon DEF Renewed
<1>2. CASE d \notin Ids
  BY <1>2, Zenon DEF Renewed
<1> QED
  BY <1>1, <1>2

(* Each of these facts is a version of the row or of a part. *)
LEMMA FactsInFact ==
  ASSUME NEW x, x.doc \in Ids, x.row \in Nat, DOMAIN x.data \subseteq Parts,
         \A p \in DOMAIN x.data : x.data[p] \in Nat
  PROVE  FactsOf(x) \subseteq Fact
BY DEF FactsOf, Fact

LEMMA FactTypes ==
  ASSUME row \in [Ids -> Nat], data \in [Ids -> [Parts -> Nat]]
  PROVE  Facts \subseteq Fact
<1> SUFFICES ASSUME NEW d \in Ids PROVE FactsOf(Shown(d)) \subseteq Fact
  BY DEF Facts
<1> DEFINE x == Shown(d)
<1>1. x.doc = d /\ x.row = row[d] /\ x.data = data[d]
  BY DEF Shown
<1>2. data[d] \in [Parts -> Nat]
  OBVIOUS
<1> HIDE DEF x
<1>3. DOMAIN x.data = Parts /\ \A p \in DOMAIN x.data : x.data[p] \in Nat
  BY <1>1, <1>2
<1>4. FactsOf(x) \subseteq Fact
  BY <1>1, <1>3, FactsInFact
<1> QED
  BY <1>4 DEF x

LEMMA FactsKept ==
  ASSUME UNCHANGED <<row, data>>
  PROVE  Facts' = Facts
BY DEF Facts, FactsOf, Shown

(* A page is finite, so its length can be added to the offset. *)
LEMMA PageFinite ==
  ASSUME NEW n
  PROVE  Cardinality(PageOf(n)) \in Nat /\ PageOf(n) \subseteq Rows
<1>1. PageOf(n) \subseteq Ids /\ PageOf(n) \subseteq Rows
  BY DEF PageOf, Rows
<1>2. IsFiniteSet(PageOf(n))
  BY <1>1, FS_Subset
<1> QED
  BY <1>1, <1>2, FS_CardinalityType

(* A bundle that is listed has its row and none of its data. *)
LEMMA RowOfType ==
  ASSUME row \in [Ids -> Nat], NEW d \in Ids
  PROVE  /\ RowOf(d) \in Bundle /\ RowOf(d).doc = d /\ RowOf(d).row = row[d]
         /\ RowOf(d).data = <<>> /\ Len(RowOf(d).data) = 0
<1>1. <<>> \in Seq(Nat) /\ Len(<<>>) = 0
  OBVIOUS
<1> QED
  BY <1>1 DEF RowOf, Bundle

(* A read adds the next part as it is now, and changes nothing else.        *)
LEMMA NextOf ==
  ASSUME data \in [Ids -> [Parts -> Nat]], NEW x \in Bundle, NextPart(x) <= File
  PROVE  /\ WithNext(x) \in Bundle /\ WithNext(x).doc = x.doc /\ WithNext(x).row = x.row
         /\ NextPart(x) \in Parts /\ Len(WithNext(x).data) = NextPart(x)
         /\ \A p \in 1..Len(x.data) : WithNext(x).data[p] = x.data[p]
         /\ WithNext(x).data[NextPart(x)] = data[x.doc][NextPart(x)]
<1> DEFINE s == x.data
           v == data[x.doc][NextPart(x)]
           t == Append(s, v)
<1>1. s \in Seq(Nat) /\ x.doc \in Ids /\ x.row \in Nat /\ Len(s) \in Nat
  BY DEF Bundle
<1>2. NextPart(x) \in Parts /\ NextPart(x) = Len(s) + 1
  BY <1>1, PartTypes DEF NextPart, Parts
<1>3. v \in Nat
  BY <1>1, <1>2
<1> HIDE DEF v, s
<1>4. /\ t \in Seq(Nat) /\ Len(t) = Len(s) + 1 /\ t[Len(s) + 1] = v
      /\ \A p \in 1..Len(s) : t[p] = s[p]
  BY <1>1, <1>3
<1>5. WithNext(x) = [x EXCEPT !.data = t]
  BY DEF WithNext, s, v
<1> HIDE DEF t
<1>6. WithNext(x) \in Bundle /\ WithNext(x).doc = x.doc /\ WithNext(x).row = x.row
      /\ WithNext(x).data = t
  BY <1>1, <1>4, <1>5 DEF Bundle
<1> QED
  BY <1>2, <1>4, <1>6 DEF s, v

LEMMA WriteType ==
  ASSUME TypeOK, NEW newRow \in [Ids -> Nat], NEW newData \in [Ids -> [Parts -> Nat]],
         Write(newRow, newData)
  PROVE  row' \in [Ids -> Nat] /\ data' \in [Ids -> [Parts -> Nat]]
         /\ window' \in [Exporters -> SUBSET Fact]
<1>1. row' \in [Ids -> Nat] /\ data' \in [Ids -> [Parts -> Nat]]
  BY DEF Write
<1>2. (row \in [Ids -> Nat] /\ data \in [Ids -> [Parts -> Nat]] => Facts \subseteq Fact)'
  BY FactTypes, PTL
<1> QED
  BY <1>1, <1>2 DEF Write, TypeOK

LEMMA InitType == Init => TypeOK
<1> SUFFICES ASSUME Init PROVE TypeOK
  OBVIOUS
<1>1. row \in [Ids -> Nat] /\ data \in [Ids -> [Parts -> Nat]]
  BY DEF Init
<1>2. job \in [state : {"none", "queued", "picked"}, attempts : Nat,
              owner : Exporters \union {NoExporter}] /\ job.attempts < MaxAttempts
  BY DEF Init, NoJob
<1>3. request \in [Requests -> Handler]
  BY DEF Init, Steps, Handler
<1>4. export \in [Exporters -> ExportType]
  BY DEF Init, Idle, ExportType
<1>5. stored \in BOOLEAN /\ archive \in SUBSET Bundle /\ broken \in BOOLEAN /\ fresh \in BOOLEAN
  BY Zenon DEF Init
<1>6. faults \in 0..MaxFaults
  BY DEF Init
<1>7. window \in [Exporters -> SUBSET Fact] /\ quiet \in SUBSET Exporters
  BY Zenon DEF Init
<1> QED
  BY <1>1, <1>2, <1>3, <1>4, <1>5, <1>6, <1>7 DEF TypeOK, Handler, ExportType

(* A step of a request moves that request only. *)
Moves(r) == /\ request' \in [Requests -> Handler]
            /\ \A s \in Requests \ {r} : request'[s] = request[s]

LEMMA GotoMoves ==
  ASSUME request \in [Requests -> Handler], NEW r \in Requests, NEW pc \in Steps, Goto(r, pc)
  PROVE  Moves(r) /\ request'[r].pc = pc
BY DEF Goto, Moves, Handler

LEMMA ProceedMoves ==
  ASSUME request \in [Requests -> Handler], NEW r \in Requests, NEW pc \in Steps,
         NEW next \in Steps, NEW parts \in SUBSET Indexed, Proceed(r, parts, pc, next)
  PROVE  Moves(r) /\ request'[r].pc \in {pc, next}
<1> DEFINE step == IF parts = {} THEN next ELSE pc
<1>1. step \in Steps /\ step \in {pc, next}
  OBVIOUS
<1>2. request' = [request EXCEPT ![r].left = parts, ![r].pc = step]
  BY DEF Proceed
<1> HIDE DEF step
<1> QED
  BY <1>1, <1>2 DEF Moves, Handler

LEMMA ResetMoves ==
  ASSUME request \in [Requests -> Handler], NEW r \in Requests, AfterReset(r)
  PROVE  Moves(r)
<1>1. {"wipe", "erase", "index", "begin", "done"} \subseteq Steps
  BY DEF Steps
<1>2. \/ Proceed(r, Indexes, "wipe", "erase") \/ Goto(r, "begin")
      \/ Proceed(r, Indexed, "wipe", "index") \/ Goto(r, "done")
  BY DEF AfterReset
<1> QED
  BY <1>1, <1>2, PartTypes, GotoMoves, ProceedMoves

(* What remains to write shrinks. *)
LEMMA PartMoves ==
  ASSUME TypeOK, NEW r \in Requests, NEW part \in Indexed, NEW newRow \in [Ids -> Nat],
         NEW next \in Steps, WritePart(r, part, newRow, next)
  PROVE  /\ Moves(r)
         /\ row' \in [Ids -> Nat] /\ data' \in [Ids -> [Parts -> Nat]]
         /\ window' \in [Exporters -> SUBSET Fact]
<1>1. request \in [Requests -> Handler] /\ data \in [Ids -> [Parts -> Nat]]
  BY DEF TypeOK, Handler
<1>2. request[r].left \ {part} \in SUBSET Indexed /\ request[r].pc \in Steps
  BY <1>1 DEF Handler
<1>3. Moves(r)
  BY <1>1, <1>2, ProceedMoves DEF WritePart
<1>4. Renewed(request[r].doc, part) \in [Ids -> [Parts -> Nat]]
  BY <1>1, DataTypes, PartTypes
<1> QED
  BY <1>3, <1>4, WriteType DEF WritePart

LEMMA RequestType ==
  ASSUME TypeOK, NEW r \in Requests, RequestStep(r)
  PROVE  TypeOK' /\ Moves(r)
<1> USE DEF NoExport, NoWrite
<1> DEFINE d == request[r].doc
<1>0. /\ row \in [Ids -> Nat] /\ data \in [Ids -> [Parts -> Nat]]
      /\ request \in [Requests -> Handler]
  BY DEF TypeOK, Handler
<1>s. {"row", "cancel", "look", "drop", "erase", "index", "done", "run", "fill", "commit",
       "enqueue"} \subseteq Steps
  BY DEF Steps
<1>v. /\ Raise(row, d) \in [Ids -> Nat] /\ Updated(d) \in [Ids -> Nat]
      /\ [row EXCEPT ![d] = 0] \in [Ids -> Nat]
      /\ Renewed(d, File) \in [Ids -> [Parts -> Nat]] /\ Renewed(d, Chunks) \in [Ids -> [Parts -> Nat]]
      /\ [data EXCEPT ![d][File] = 0] \in [Ids -> [Parts -> Nat]]
  BY <1>0, RowTypes, DataTypes, PartTypes
<1> HIDE DEF d
<1>w. ASSUME Moves(r), row' \in [Ids -> Nat], data' \in [Ids -> [Parts -> Nat]],
             window' \in [Exporters -> SUBSET Fact], fresh' \in BOOLEAN,
             UNCHANGED <<stored, archive, job, broken, export, faults, quiet>>
      PROVE  TypeOK' /\ Moves(r)
  BY <1>w DEF TypeOK, Moves, Handler
<1>f. fresh \in BOOLEAN
  BY DEF TypeOK
<1>1. CASE PutFile(r)
  <2>1. Moves(r)
    BY <1>0, <1>1, <1>s, GotoMoves DEF PutFile
  <2>2. row' \in [Ids -> Nat] /\ data' \in [Ids -> [Parts -> Nat]]
        /\ window' \in [Exporters -> SUBSET Fact]
    BY <1>0, <1>1, <1>v, WriteType DEF PutFile, d
  <2> QED
    BY <1>1, <1>f, <1>w, <2>1, <2>2 DEF PutFile
<1>2. CASE SaveRow(r)
  <2>1. Moves(r)
    BY <1>0, <1>2, <1>s, GotoMoves DEF SaveRow
  <2>2. row' \in [Ids -> Nat] /\ data' \in [Ids -> [Parts -> Nat]]
        /\ window' \in [Exporters -> SUBSET Fact]
    BY <1>0, <1>2, <1>v, WriteType DEF SaveRow, d
  <2> QED
    BY <1>2, <1>f, <1>w, <2>1, <2>2 DEF SaveRow
<1>3. CASE CancelJobs(r)
  <2>1. Moves(r)
    BY <1>0, <1>3, <1>s, GotoMoves DEF CancelJobs
  <2> QED
    BY <1>3, <2>1 DEF CancelJobs, TypeOK, NoJob, Moves, Handler
<1>4. CASE LookArchive(r)
  <2>1. Moves(r)
    BY <1>0, <1>4, <1>s, GotoMoves, ResetMoves DEF LookArchive
  <2> QED
    BY <1>4, <2>1 DEF LookArchive, TypeOK, Moves, Handler
<1>5. CASE DropArchive(r)
  <2>1. Moves(r)
    BY <1>0, <1>5, ResetMoves DEF DropArchive
  <2>2. stored' \in BOOLEAN /\ archive' \in SUBSET Bundle /\ fresh' \in BOOLEAN
    BY <1>5, Zenon DEF DropArchive
  <2> QED
    BY <1>5, <2>1, <2>2 DEF DropArchive, TypeOK, Moves, Handler
<1>6. CASE WipeData(r)
  <2>1. PICK part \in Indexed :
          WritePart(r, part, row, IF request[r].kind = "delete" THEN "erase" ELSE "index")
    BY <1>6 DEF WipeData
  <2>2. /\ Moves(r) /\ row' \in [Ids -> Nat] /\ data' \in [Ids -> [Parts -> Nat]]
        /\ window' \in [Exporters -> SUBSET Fact]
    BY <1>0, <1>s, <2>1, PartMoves
  <2> QED
    BY <1>6, <1>f, <1>w, <2>2 DEF WipeData
<1>7. CASE IndexDocument(r)
  <2>1. Moves(r)
    <3>1. CASE Goto(r, "done")
      BY <1>0, <1>s, <3>1, GotoMoves
    <3>2. CASE request' = [request EXCEPT ![r].pc = "cancel", ![r].kind = "reindex"]
      <4> DEFINE next == [request[r] EXCEPT !.pc = "cancel", !.kind = "reindex"]
      <4>1. request' = [request EXCEPT ![r] = next]
        BY <1>0, <3>2
      <4>2. request[r] \in Handler
        BY <1>0
      <4>3. next \in Handler
        BY <1>s, <4>2 DEF Handler
      <4> HIDE DEF next
      <4> QED
        BY <1>0, <4>1, <4>3 DEF Moves
    <3> QED
      BY <1>7, <3>1, <3>2 DEF IndexDocument
  <2> QED
    BY <1>0, <1>7, <1>f, <1>w, <2>1 DEF IndexDocument, TypeOK
<1>8. CASE BeginRun(r)
  <2>1. PICK parts \in {Indexed} \union SUBSET Indexes : Proceed(r, parts, "run", "done")
    BY <1>8 DEF BeginRun
  <2>2. parts \in SUBSET Indexed
    BY <2>1, PartTypes
  <2>3. Moves(r)
    BY <1>0, <1>s, <2>1, <2>2, ProceedMoves
  <2>4. row' \in [Ids -> Nat] /\ data' \in [Ids -> [Parts -> Nat]]
        /\ window' \in [Exporters -> SUBSET Fact]
    BY <1>0, <1>8, <1>v, WriteType DEF BeginRun, d
  <2> QED
    BY <1>8, <1>f, <1>w, <2>3, <2>4 DEF BeginRun
<1>9. CASE RunIndexing(r)
  <2>1. PICK part \in Indexed : WritePart(r, part, Updated(d), "done")
    BY <1>9 DEF RunIndexing, d
  <2>2. /\ Moves(r) /\ row' \in [Ids -> Nat] /\ data' \in [Ids -> [Parts -> Nat]]
        /\ window' \in [Exporters -> SUBSET Fact]
    BY <1>s, <1>v, <2>1, PartMoves
  <2> QED
    BY <1>9, <1>f, <1>w, <2>2 DEF RunIndexing
<1>10. CASE EraseFile(r)
  <2>1. Moves(r)
    BY <1>0, <1>10, <1>s, GotoMoves DEF EraseFile
  <2>2. row' \in [Ids -> Nat] /\ data' \in [Ids -> [Parts -> Nat]]
        /\ window' \in [Exporters -> SUBSET Fact]
    BY <1>0, <1>10, <1>v, WriteType DEF EraseFile, d
  <2> QED
    BY <1>10, <1>f, <1>w, <2>1, <2>2 DEF EraseFile
<1>11. CASE CommitDelete(r)
  <2>1. Moves(r)
    BY <1>0, <1>11, <1>s, GotoMoves DEF CommitDelete
  <2>2. row' \in [Ids -> Nat] /\ data' \in [Ids -> [Parts -> Nat]]
        /\ window' \in [Exporters -> SUBSET Fact]
    BY <1>0, <1>11, <1>v, WriteType DEF CommitDelete, d
  <2> QED
    BY <1>11, <1>f, <1>w, <2>1, <2>2 DEF CommitDelete
<1>12. CASE ImportRow(r)
  <2>1. PICK parts \in SUBSET Indexes : Proceed(r, {Chunks} \union parts, "fill", "done")
    BY <1>12 DEF ImportRow
  <2>2. {Chunks} \union parts \in SUBSET Indexed
    BY <2>1, PartTypes
  <2>3. Moves(r)
    BY <1>0, <1>s, <2>1, <2>2, ProceedMoves
  <2>4. row' \in [Ids -> Nat] /\ data' \in [Ids -> [Parts -> Nat]]
        /\ window' \in [Exporters -> SUBSET Fact]
    BY <1>0, <1>12, <1>v, WriteType DEF ImportRow, d
  <2>5. fresh' \in BOOLEAN
    BY <1>12, Zenon DEF ImportRow
  <2> QED
    BY <1>12, <1>w, <2>3, <2>4, <2>5 DEF ImportRow
<1>13. CASE ImportData(r)
  <2>1. PICK part \in Indexed : WritePart(r, part, row, "done")
    BY <1>13 DEF ImportData
  <2>2. /\ Moves(r) /\ row' \in [Ids -> Nat] /\ data' \in [Ids -> [Parts -> Nat]]
        /\ window' \in [Exporters -> SUBSET Fact]
    BY <1>0, <1>s, <2>1, PartMoves
  <2>3. fresh' \in BOOLEAN
    BY <1>13, Zenon DEF ImportData
  <2> QED
    BY <1>13, <1>w, <2>2, <2>3 DEF ImportData
<1>14. CASE AskStatus(r)
  <2>1. Moves(r)
    BY <1>0, <1>14, <1>s, GotoMoves DEF AskStatus
  <2> QED
    BY <1>14, <2>1 DEF AskStatus, TypeOK, Moves, Handler
<1>15. CASE EnqueueExport(r)
  <2>1. job' \in [state : {"none", "queued", "picked"}, attempts : Nat,
                  owner : Exporters \union {NoExporter}] /\ job'.attempts < MaxAttempts
    BY <1>15 DEF EnqueueExport, TypeOK, NoJob, ExportAssumption
  <2>2. Moves(r)
    BY <1>0, <1>15, <1>s, GotoMoves DEF EnqueueExport
  <2> QED
    BY <1>15, <2>1, <2>2 DEF EnqueueExport, TypeOK, Moves, Handler
<1> QED
  BY <1>1, <1>2, <1>3, <1>4, <1>5, <1>6, <1>7, <1>8, <1>9, <1>10, <1>11, <1>12, <1>13,
     <1>14, <1>15 DEF RequestStep

(* Filling a batch moves listed documents and nothing else. *)
LEMMA FillInType ==
  \A u \in ExportType, p \in SUBSET Bundle, b \in SUBSET Bundle : Fill(u, p, b) \in ExportType
<1> SUFFICES ASSUME NEW u \in ExportType, NEW p \in SUBSET Bundle, NEW b \in SUBSET Bundle
             PROVE  Fill(u, p, b) \in ExportType
  OBVIOUS
<1> DEFINE full == b \union Front(p \ b, b)
<1>1. full \subseteq p \union b /\ full \in SUBSET Bundle
  BY DEF Front
<1>2. Fill(u, p, b) = [u EXCEPT !.page = p \ full, !.batch = full,
                                !.pc = IF Cardinality(full) >= BatchSize THEN "pack" ELSE "list"]
  BY DEF Fill
<1>3. p \ full \in SUBSET Bundle
  OBVIOUS
<1> HIDE DEF full
<1> QED
  BY <1>1, <1>2, <1>3 DEF ExportType

LEMMA FillMoves ==
  \A u \in ExportType, p \in SUBSET Bundle, b \in SUBSET Bundle :
    /\ Fill(u, p, b).packed = u.packed /\ Fill(u, p, b).pc \in {"pack", "list"}
    /\ Fill(u, p, b).page \union Fill(u, p, b).batch \subseteq p \union b
<1> SUFFICES ASSUME NEW u \in ExportType, NEW p \in SUBSET Bundle, NEW b \in SUBSET Bundle
             PROVE  /\ Fill(u, p, b).packed = u.packed /\ Fill(u, p, b).pc \in {"pack", "list"}
                    /\ Fill(u, p, b).page \union Fill(u, p, b).batch \subseteq p \union b
  OBVIOUS
<1> DEFINE full == b \union Front(p \ b, b)
<1>1. full \subseteq p \union b /\ full \in SUBSET Bundle
  BY DEF Front
<1>2. Fill(u, p, b) = [u EXCEPT !.page = p \ full, !.batch = full,
                                !.pc = IF Cardinality(full) >= BatchSize THEN "pack" ELSE "list"]
  BY DEF Fill
<1>3. p \ full \in SUBSET Bundle
  OBVIOUS
<1> HIDE DEF full
<1> QED
  BY <1>1, <1>2, <1>3 DEF ExportType

LEMMA ExportTypes ==
  ASSUME TypeOK, NEW e \in Exporters,
         ExportStep(e) \/ Pick(e) \/ ExportFails(e) \/ LoseStream(e) \/ Abandon(e)
  PROVE  TypeOK'
<1> USE DEF NoWrite
<1>0. /\ row \in [Ids -> Nat] /\ data \in [Ids -> [Parts -> Nat]]
      /\ export \in [Exporters -> ExportType]
  BY DEF TypeOK, ExportType
<1>1. CASE ListPage(e)
  <2> DEFINE ids == PageOf(export[e].offset)
             page == {RowOf(d) : d \in ids}
             x == [export[e] EXCEPT !.offset = @ + Cardinality(ids)]
             y == [export[e] EXCEPT !.pc = IF export[e].batch = {} THEN "upload" ELSE "last"]
  <2>0. Cardinality(ids) \in Nat /\ ids \subseteq Ids
    BY PageFinite DEF Rows
  <2>1. Cardinality(ids) \in Nat /\ page \in SUBSET Bundle
    BY <1>0, <2>0, RowOfType
  <2>2. x \in ExportType /\ y \in ExportType
    <3>1. export[e] \in ExportType
      BY <1>0
    <3> HIDE DEF ids
    <3>2. x \in ExportType
      BY <2>1, <3>1 DEF ExportType
    <3>3. y \in ExportType
      BY <3>1 DEF ExportType
    <3> QED
      BY <3>2, <3>3
  <2>5. export[e].batch \in SUBSET Bundle
    BY <1>0 DEF ExportType
  <2> HIDE DEF x, page
  <2>3. Fill(x, page, export[e].batch) \in ExportType
    BY <2>1, <2>2, <2>5, FillInType
  <2> USE DEF x, page
  <2>4. export' \in [Exporters -> ExportType]
    BY <1>0, <1>1, <2>2, <2>3 DEF ListPage
  <2> QED
    BY <1>1, <2>4 DEF ListPage, TypeOK, ExportType
<1>2. CASE PackDocument(e)
  <2>1. PICK x \in export[e].batch :
          /\ NextPart(x) = File
          /\ LET rest == export[e].batch \ {x}
                 v == [export[e] EXCEPT !.batch = rest, !.packed = @ \union {WithNext(x)}]
             IN  export' = [export EXCEPT ![e] =
                   IF rest # {} THEN v
                   ELSE IF export[e].pc = "last" THEN [v EXCEPT !.pc = "upload"]
                   ELSE Fill(v, export[e].page, {})]
    BY <1>2 DEF PackDocument
  <2> DEFINE rest == export[e].batch \ {x}
             new == WithNext(x)
             v == [export[e] EXCEPT !.batch = rest, !.packed = @ \union {new}]
  <2>2. new \in Bundle
    <3>1. x \in Bundle /\ NextPart(x) <= File
      BY <1>0, <2>1, PartTypes DEF ExportType
    <3> QED
      BY <1>0, <3>1, NextOf
  <2> HIDE DEF new
  <2>3. v \in ExportType /\ [v EXCEPT !.pc = "upload"] \in ExportType
    BY <1>0, <2>2 DEF ExportType
  <2>6. export[e].page \in SUBSET Bundle /\ {} \in SUBSET Bundle
    BY <1>0 DEF ExportType
  <2> HIDE DEF v
  <2>4. Fill(v, export[e].page, {}) \in ExportType
    BY <2>3, <2>6, FillInType
  <2>7. export' = [export EXCEPT ![e] =
                   IF rest # {} THEN v
                   ELSE IF export[e].pc = "last" THEN [v EXCEPT !.pc = "upload"]
                   ELSE Fill(v, export[e].page, {})]
    BY <2>1 DEF v, new
  <2>5. export' \in [Exporters -> ExportType]
    BY <1>0, <2>3, <2>4, <2>7
  <2> QED
    BY <1>2, <2>5 DEF PackDocument, TypeOK, ExportType
<1>11. CASE ReadPart(e)
  <2>1. PICK x \in export[e].batch :
          /\ NextPart(x) < File
          /\ export' = [export EXCEPT ![e].batch = (@ \ {x}) \union {WithNext(x)}]
    BY <1>11 DEF ReadPart
  <2>2. x \in Bundle /\ NextPart(x) <= File
    BY <1>0, <2>1, PartTypes DEF ExportType, NextPart, Bundle
  <2>3. WithNext(x) \in Bundle
    BY <1>0, <2>2, NextOf
  <2> DEFINE b == (export[e].batch \ {x}) \union {WithNext(x)}
             y == [export[e] EXCEPT !.batch = b]
  <2>4. export[e] \in ExportType /\ b \in SUBSET Bundle
    BY <1>0, <2>3 DEF ExportType
  <2>5. export' = [export EXCEPT ![e] = y]
    BY <1>0, <2>1
  <2> HIDE DEF b
  <2>6. y \in ExportType
    BY <2>4 DEF ExportType
  <2> HIDE DEF y
  <2>7. export' \in [Exporters -> ExportType]
    BY <1>0, <2>5, <2>6
  <2> QED
    BY <1>11, <2>7 DEF ReadPart, TypeOK, ExportType
<1>3. CASE Upload(e)
  <2>1. export' \in [Exporters -> ExportType]
    BY <1>0, <1>3 DEF Upload, ExportType
  <2>2. stored' \in BOOLEAN /\ archive' \in SUBSET Bundle /\ fresh' \in BOOLEAN
    BY <1>0, <1>3 DEF Upload, ExportType
  <2> QED
    BY <1>3, <2>1, <2>2 DEF Upload, TypeOK, ExportType
<1>4. ASSUME Leave(e)
      PROVE  /\ export' \in [Exporters -> ExportType]
             /\ window' \in [Exporters -> SUBSET Fact] /\ quiet' \in SUBSET Exporters
  <2>1. Idle \in ExportType
    BY DEF Idle, ExportType
  <2> QED
    BY <1>0, <1>4, <2>1 DEF Leave, TypeOK
<1>5. /\ job \in [state : {"none", "queued", "picked"}, attempts : Nat,
                  owner : Exporters \union {NoExporter}]
      /\ Ended(e) \in [state : {"none", "queued", "picked"}, attempts : Nat,
                       owner : Exporters \union {NoExporter}]
      /\ job.attempts < MaxAttempts /\ Ended(e).attempts < MaxAttempts
  BY DEF TypeOK, Ended, NoJob
<1>6. CASE FinishExport(e)
  BY <1>4, <1>5, <1>6 DEF FinishExport, Leave, TypeOK, ExportType
<1>7. CASE ExportFails(e)
  <2>1. faults' \in 0..MaxFaults
    BY <1>7 DEF ExportFails, TypeOK
  <2> QED
    BY <1>4, <1>5, <1>7, <2>1 DEF ExportFails, Leave, TypeOK, ExportType
<1>8. CASE Abandon(e)
  BY <1>4, <1>8 DEF Abandon, Leave, TypeOK, ExportType
<1>9. CASE LoseStream(e)
  <2>1. job' \in [state : {"none", "queued", "picked"}, attempts : Nat,
                  owner : Exporters \union {NoExporter}] /\ job'.attempts < MaxAttempts
    BY <1>5, <1>9 DEF LoseStream, NoJob
  <2>2. broken' \in BOOLEAN
    BY <1>9, Zenon DEF LoseStream, TypeOK
  <2>3. faults' \in 0..MaxFaults
    BY <1>9 DEF LoseStream, TypeOK
  <2> QED
    BY <1>9, <2>1, <2>2, <2>3 DEF LoseStream, TypeOK
<1>10. CASE Pick(e)
  <2>1. export' \in [Exporters -> ExportType]
    BY <1>0, <1>10 DEF Pick, ExportType
  <2>2. window' \in [Exporters -> SUBSET Fact] /\ quiet' \in SUBSET Exporters
    BY <1>0, <1>10, FactTypes DEF Pick, TypeOK
  <2>3. job' \in [state : {"none", "queued", "picked"}, attempts : Nat,
                  owner : Exporters \union {NoExporter}] /\ job'.attempts < MaxAttempts
    BY <1>5, <1>10 DEF Pick
  <2> QED
    BY <1>10, <2>1, <2>2, <2>3 DEF Pick, TypeOK, ExportType
<1> QED
  BY <1>1, <1>2, <1>3, <1>6, <1>7, <1>8, <1>9, <1>10, <1>11 DEF ExportStep

LEMMA StartTypes ==
  ASSUME TypeOK, NEW r \in Requests, NEW kind \in Kinds, NEW d \in Ids,
         StartChange(r, kind, d) \/ StartExport(r)
  PROVE  TypeOK' /\ Moves(r)
<1>0. request \in [Requests -> Handler]
  BY DEF TypeOK, Handler
<1>1. ASSUME NEW pc \in Steps, NEW k, NEW x \in Ids \union {NoDoc}, Begin(r, pc, k, x),
             k \in {"export", "create", "update", "delete", "reindex", "import"}
      PROVE  Moves(r)
  BY <1>0, <1>1 DEF Begin, Moves, Handler
<1>2. CASE StartChange(r, kind, d)
  <2>1. PICK pc \in FirstSteps(kind) : Begin(r, pc, kind, d)
    BY <1>2 DEF StartChange
  <2>2. pc \in Steps /\ kind \in {"create", "update", "delete", "reindex", "import"}
    BY <2>1 DEF FirstSteps, Steps
  <2>3. Moves(r)
    BY <1>1, <2>1, <2>2
  <2> QED
    BY <1>2, <2>1, <2>3 DEF StartChange, Begin, NoWrite, NoExport, TypeOK, Moves, Handler
<1>3. CASE StartExport(r)
  <2>1. Moves(r)
    BY <1>1, <1>3 DEF StartExport, Steps
  <2> QED
    BY <1>3, <2>1 DEF StartExport, Begin, NoWrite, NoExport, TypeOK, Moves, Handler
<1> QED
  BY <1>2, <1>3

(* Every failure of a request leaves the types intact. *)
LEMMA FailTypes ==
  ASSUME TypeOK, NEW r \in Requests, RequestFails(r)
  PROVE  TypeOK' /\ Moves(r)
<1>0. /\ request \in [Requests -> Handler]
      /\ row \in [Ids -> Nat] /\ data \in [Ids -> [Parts -> Nat]]
  BY DEF TypeOK, Handler
<1>1. Moves(r)
  BY <1>0, GotoMoves DEF RequestFails, Steps
<1>2. faults' \in 0..MaxFaults
  BY DEF RequestFails, TypeOK
<1>3. fresh' \in BOOLEAN /\ quiet' \in SUBSET Exporters
  BY Zenon DEF RequestFails
<1>4. row' \in [Ids -> Nat] /\ data' \in [Ids -> [Parts -> Nat]]
      /\ window' \in [Exporters -> SUBSET Fact]
  <2>1. CASE NoWrite
    BY <2>1 DEF NoWrite, TypeOK
  <2>2. CASE Write(Updated(request[r].doc), data)
    BY <1>0, <2>2, RowTypes, WriteType
  <2> QED
    BY <2>1, <2>2 DEF RequestFails
<1> QED
  BY <1>1, <1>2, <1>3, <1>4 DEF RequestFails, TypeOK, Moves, Handler

LEMMA NextType == TypeOK /\ [Next]_vars => TypeOK'
<1> SUFFICES ASSUME TypeOK, [Next]_vars PROVE TypeOK'
  OBVIOUS
<1>1. CASE UNCHANGED vars
  BY <1>1 DEF vars, TypeOK
<1>2. ASSUME NEW r \in Changers, NEW kind \in Kinds, NEW d \in Ids, StartChange(r, kind, d)
      PROVE  TypeOK'
  BY <1>2, StartTypes DEF Requests
<1>3. ASSUME NEW r \in Askers, StartExport(r)
      PROVE  TypeOK'
  <2>1. Moves(r)
    BY <1>3 DEF StartExport, Begin, TypeOK, Moves, Handler, Requests, Steps
  <2> QED
    BY <1>3, <2>1 DEF StartExport, Begin, NoWrite, NoExport, TypeOK, Moves, Handler
<1>4. ASSUME NEW r \in Requests, RequestStep(r) \/ RequestFails(r)
      PROVE  TypeOK'
  BY <1>4, RequestType, FailTypes
<1>5. ASSUME NEW e \in Exporters, Pick(e) \/ ExportStep(e) \/ ExportFails(e) \/ LoseStream(e)
                                  \/ Abandon(e)
      PROVE  TypeOK'
  BY <1>5, ExportTypes
<1> QED
  BY <1>1, <1>2, <1>3, <1>4, <1>5 DEF Next

(* Every variable keeps its type, and no job is tried more than MaxAttempts *)
(* times, for any number of requests, exports, documents and faults.        *)
THEOREM ExportTypeCorrect == Spec => []TypeOK
BY InitType, NextType, PTL DEF Spec
----------------------------------------------------------------------------
(* Refinement.  What an export has read of a document, of one that is      *)
(* listed, half-read or packed, is known to its window, which is open      *)
(* exactly while the export runs, and knows what holds now.                *)
Known(e) ==
  /\ export[e] = Idle => window[e] = {}
  /\ export[e] # Idle => /\ Facts \subseteq window[e]
                         /\ \A x \in export[e].page \union export[e].batch \union export[e].packed :
                              FactsOf(x) \subseteq window[e]

WindowInv == \A e \in Exporters : Known(e)

(* What a write does to windows. *)
Seen == window' = [e \in Exporters |-> IF window[e] = {} THEN {} ELSE window[e] \union Facts']

LEMMA KnownInit == Init => WindowInv
BY DEF Init, WindowInv, Known

LEMMA NoFacts == Facts = {} => Ids = {}
<1> SUFFICES ASSUME NEW d \in Ids PROVE Facts # {}
  OBVIOUS
<1>1. FactsOf(Shown(d)) # {}
  BY DEF FactsOf
<1> QED
  BY <1>1 DEF Facts

(* A write is seen by every open window. *)
LEMMA KnownWrite ==
  ASSUME WindowInv, export' = export, Seen
  PROVE  WindowInv'
<1> SUFFICES ASSUME NEW e \in Exporters PROVE Known(e)'
  BY DEF WindowInv
<1>1. Known(e)
  BY DEF WindowInv
<1>2. CASE export[e] = Idle
  BY <1>1, <1>2 DEF Known, Seen
<1>3. CASE export[e] # Idle /\ window[e] # {}
  BY <1>1, <1>3 DEF Known, Seen
<1>4. CASE export[e] # Idle /\ window[e] = {}
  <2>1. Ids = {}
    BY <1>1, <1>4, NoFacts DEF Known
  <2>2. Facts' = {}
    BY <2>1 DEF Facts
  <2> QED
    BY <1>1, <1>4, <2>2 DEF Known, Seen
<1> QED
  BY <1>2, <1>3, <1>4

LEMMA KnownQuiet ==
  ASSUME WindowInv, UNCHANGED <<row, data, export, window>>
  PROVE  WindowInv'
BY FactsKept DEF WindowInv, Known

(* A step of one export, the channel unchanged. *)
LEMMA KnownOther ==
  ASSUME WindowInv, NEW e \in Exporters, Known(e)', UNCHANGED <<row, data>>,
         \A f \in Exporters \ {e} : export'[f] = export[f] /\ window'[f] = window[f]
  PROVE  WindowInv'
BY FactsKept DEF WindowInv, Known

LEMMA RequestWindow ==
  ASSUME NEW r \in Requests, RequestStep(r) \/ RequestFails(r)
  PROVE  export' = export /\ (Seen \/ UNCHANGED <<row, data, window>>)
BY DEF RequestStep, NoExport, NoWrite, Seen, Write, WritePart, PutFile, SaveRow, CancelJobs,
       LookArchive, DropArchive, WipeData, IndexDocument, BeginRun, RunIndexing, EraseFile,
       CommitDelete, AskStatus, EnqueueExport, ImportRow, ImportData, RequestFails

(* What an export reads now, its window knows. *)
LEMMA NextKnown ==
  ASSUME TypeOK, NEW x \in Bundle, NextPart(x) <= File
  PROVE  FactsOf(WithNext(x)) \subseteq FactsOf(x) \union Facts
<1> DEFINE n == WithNext(x)
           d == x.doc
<1>1. /\ n.doc = d /\ n.row = x.row /\ n.data \in Seq(Nat) /\ Len(n.data) = NextPart(x)
      /\ NextPart(x) \in Parts
      /\ \A p \in 1..Len(x.data) : n.data[p] = x.data[p]
      /\ n.data[NextPart(x)] = data[d][NextPart(x)]
  <2>1. data \in [Ids -> [Parts -> Nat]]
    BY DEF TypeOK
  <2>2. n \in Bundle
    BY <2>1, NextOf
  <2>3. n.data \in Seq(Nat)
    <3> HIDE DEF n
    <3> QED
      BY <2>2 DEF Bundle
  <2> QED
    BY <2>1, <2>3, NextOf
<1>2. /\ d \in Ids /\ DOMAIN x.data = 1..Len(x.data) /\ DOMAIN n.data = 1..NextPart(x)
      /\ DOMAIN data[d] = Parts
  <2>1. d \in Ids /\ x.data \in Seq(Nat)
    BY DEF Bundle
  <2>2. DOMAIN data[d] = Parts
    BY <2>1 DEF TypeOK
  <2> HIDE DEF n, d
  <2>3. DOMAIN n.data = 1..NextPart(x)
    BY <1>1
  <2> QED
    BY <2>1, <2>2, <2>3
<1>3. NextPart(x) = Len(x.data) + 1 /\ Len(x.data) \in Nat
  BY DEF NextPart, Bundle
<1>4. ASSUME NEW p \in Parts
      PROVE  [doc |-> d, part |-> p, version |-> data[d][p]] \in Facts
  <2>1. [doc |-> d, part |-> p, version |-> data[d][p]] \in FactsOf(Shown(d))
    BY <1>2, <1>4 DEF FactsOf, Shown
  <2> QED
    BY <1>2, <2>1 DEF Facts
<1> HIDE DEF n, d
<1>5. ASSUME NEW p \in 1..NextPart(x)
      PROVE  [doc |-> n.doc, part |-> p, version |-> n.data[p]] \in FactsOf(x) \union Facts
  <2>1. CASE p = NextPart(x)
    BY <1>1, <1>4, <2>1
  <2>2. CASE p # NextPart(x)
    <3>1. p \in 1..Len(x.data)
      BY <1>3, <2>2
    <3> QED
      BY <1>1, <1>2, <3>1 DEF FactsOf, d
  <2> QED
    BY <2>1, <2>2
<1>6. [doc |-> n.doc, part |-> Row, version |-> n.row] \in FactsOf(x)
  BY <1>1 DEF FactsOf, d
<1> QED
  BY <1>2, <1>5, <1>6 DEF FactsOf, n

LEMMA ListKnown ==
  ASSUME TypeOK, WindowInv, NEW e \in Exporters, ListPage(e)
  PROVE  WindowInv'
<1> DEFINE ids == PageOf(export[e].offset)
           page == {RowOf(d) : d \in ids}
           x == [export[e] EXCEPT !.offset = @ + Cardinality(ids)]
           y == [export[e] EXCEPT !.pc = IF export[e].batch = {} THEN "upload" ELSE "last"]
<1>0. /\ row \in [Ids -> Nat] /\ data \in [Ids -> [Parts -> Nat]]
      /\ export \in [Exporters -> ExportType]
  BY DEF TypeOK, ExportType
<1>1. Known(e) /\ export[e] # Idle /\ UNCHANGED <<row, data, window>>
  BY DEF WindowInv, ListPage, Idle, NoWrite
<1>2. Cardinality(ids) \in Nat /\ ids \subseteq Ids
  BY PageFinite DEF Rows
<1>3. page \in SUBSET Bundle /\ export[e].batch \in SUBSET Bundle
  <2>1. \A d \in Ids : RowOf(d) \in Bundle
    BY <1>0, RowOfType
  <2>2. page \in SUBSET Bundle
    <3> HIDE DEF ids
    <3> QED
      BY <1>2, <2>1
  <2> QED
    BY <1>0, <2>2 DEF ExportType
<1>4. x \in ExportType /\ x.packed = export[e].packed
  BY <1>0, <1>2 DEF ExportType
<1>5. \A l \in page : FactsOf(l) \subseteq window[e]
  <2> SUFFICES ASSUME NEW d \in ids PROVE FactsOf(RowOf(d)) \subseteq window[e]
    OBVIOUS
  <2>1. FactsOf(RowOf(d)) \subseteq FactsOf(Shown(d))
    <3>1. FactsOf(RowOf(d)) = {[doc |-> d, part |-> Row, version |-> row[d]]}
      BY DEF RowOf, FactsOf
    <3> QED
      BY <3>1 DEF FactsOf, Shown
  <2> QED
    BY <1>1, <1>2, <2>1 DEF Known, Facts
<1>6. export' = [export EXCEPT ![e] = IF ids = {} THEN y ELSE Fill(x, page, export[e].batch)]
  BY DEF ListPage
<1>f. Facts' = Facts
  BY <1>1, FactsKept
<1>7. CASE ids = {}
  <2>1. export'[e] = y /\ y.pc # "idle" /\ y.page = export[e].page /\ y.batch = export[e].batch
        /\ y.packed = export[e].packed
    BY <1>0, <1>6, <1>7 DEF ExportType
  <2> HIDE DEF y
  <2>2. Known(e)'
    BY <1>1, <1>f, <2>1 DEF Known, Idle
  <2> QED
    BY <1>0, <1>1, <1>6, <2>2, KnownOther
<1>8. CASE ids # {}
  <2> DEFINE z == Fill(x, page, export[e].batch)
  <2> HIDE DEF x, page, ids
  <2>1. /\ z.packed = x.packed /\ z.pc \in {"pack", "list"}
        /\ z.page \union z.batch \subseteq page \union export[e].batch
    <3> DEFINE b == export[e].batch
    <3>1. x \in ExportType /\ page \in SUBSET Bundle /\ b \in SUBSET Bundle
      BY <1>3, <1>4
    <3> HIDE DEF b
    <3>2. LET v == Fill(x, page, b)
          IN  /\ v.packed = x.packed /\ v.pc \in {"pack", "list"}
              /\ v.page \union v.batch \subseteq page \union b
      BY <3>1, FillMoves
    <3> QED
      BY <3>2 DEF b
  <2> HIDE DEF z
  <2>2. export'[e] = z
    BY <1>0, <1>6, <1>8 DEF z
  <2>3. z # Idle
    BY <2>1 DEF Idle
  <2>4. Known(e)'
    BY <1>1, <1>f, <1>4, <1>5, <2>1, <2>2, <2>3 DEF Known
  <2> QED
    BY <1>0, <1>1, <1>6, <2>4, KnownOther
<1> QED
  BY <1>7, <1>8

LEMMA ReadKnown ==
  ASSUME TypeOK, WindowInv, NEW e \in Exporters, ReadPart(e)
  PROVE  WindowInv'
<1>0. export \in [Exporters -> ExportType]
  BY DEF TypeOK, ExportType
<1>1. Known(e) /\ export[e] # Idle /\ UNCHANGED <<row, data, window>>
  BY DEF WindowInv, ReadPart, Idle, NoWrite
<1>2. PICK x \in export[e].batch :
        /\ NextPart(x) < File
        /\ export' = [export EXCEPT ![e].batch = (@ \ {x}) \union {WithNext(x)}]
  BY DEF ReadPart
<1>3. x \in Bundle /\ NextPart(x) <= File
  BY <1>0, <1>2, PartTypes DEF ExportType, NextPart, Bundle
<1>4. FactsOf(WithNext(x)) \subseteq window[e]
  BY <1>1, <1>2, <1>3, NextKnown DEF Known
<1> DEFINE w == export'[e]
<1>5. /\ w.pc = export[e].pc /\ w.page = export[e].page /\ w.packed = export[e].packed
      /\ w.batch = (export[e].batch \ {x}) \union {WithNext(x)}
  BY <1>0, <1>2 DEF ExportType
<1>6. Known(e)'
  <2>1. export'[e] # Idle
    BY <1>5 DEF Idle, ReadPart
  <2> QED
    BY <1>1, <1>4, <1>5, <2>1, FactsKept DEF Known
<1> QED
  BY <1>0, <1>1, <1>2, <1>6, KnownOther

LEMMA PackKnown ==
  ASSUME TypeOK, WindowInv, NEW e \in Exporters, PackDocument(e)
  PROVE  WindowInv'
<1>0. export \in [Exporters -> ExportType]
  BY DEF TypeOK, ExportType
<1>1. Known(e) /\ export[e] # Idle /\ UNCHANGED <<row, data, window>>
  BY DEF WindowInv, PackDocument, Idle, NoWrite
<1>2. PICK x \in export[e].batch :
        /\ NextPart(x) = File
        /\ LET rest == export[e].batch \ {x}
               v == [export[e] EXCEPT !.batch = rest, !.packed = @ \union {WithNext(x)}]
           IN  export' = [export EXCEPT ![e] =
                 IF rest # {} THEN v
                 ELSE IF export[e].pc = "last" THEN [v EXCEPT !.pc = "upload"]
                 ELSE Fill(v, export[e].page, {})]
  BY DEF PackDocument
<1> DEFINE rest == export[e].batch \ {x}
           new == WithNext(x)
           y == [export[e] EXCEPT !.batch = rest, !.packed = @ \union {new}]
           u == [y EXCEPT !.pc = "upload"]
           z == Fill(y, export[e].page, {})
<1>3. x \in Bundle /\ NextPart(x) <= File
  BY <1>0, <1>2, PartTypes DEF ExportType
<1>4. FactsOf(new) \subseteq window[e]
  BY <1>1, <1>2, <1>3, NextKnown DEF Known
<1>n. new \in Bundle
  BY <1>3, NextOf DEF TypeOK
<1> HIDE DEF new
<1>5. y \in ExportType /\ y.page = export[e].page /\ y.batch = rest
      /\ y.packed = export[e].packed \union {new} /\ y.pc = export[e].pc
  BY <1>0, <1>n DEF ExportType
<1>6. u.page = export[e].page /\ u.batch = rest /\ u.packed = export[e].packed \union {new}
      /\ u.pc = "upload"
  BY <1>0, <1>n DEF ExportType
<1>7. export[e].page \in SUBSET Bundle /\ {} \in SUBSET Bundle
  BY <1>0 DEF ExportType
<1>8. export[e].pc # "idle"
  BY DEF PackDocument
<1>9. export' = [export EXCEPT ![e] = IF rest # {} THEN y ELSE IF export[e].pc = "last" THEN u ELSE z]
  BY <1>2 DEF new
<1> HIDE DEF y, u
<1>10. /\ z.packed = y.packed /\ z.pc \in {"pack", "list"}
       /\ z.page \union z.batch \subseteq export[e].page
  <2> DEFINE none == {}
             p == export[e].page
             v == Fill(y, p, none)
  <2>1. y \in ExportType /\ p \in SUBSET Bundle /\ none \in SUBSET Bundle
    BY <1>5, <1>7
  <2> HIDE DEF none, p
  <2>2. /\ v.packed = y.packed /\ v.pc \in {"pack", "list"}
        /\ v.page \union v.batch \subseteq p \union none
    BY ONLY <2>1, FillMoves
  <2> QED
    BY <2>2 DEF none, p
<1> HIDE DEF z
<1>11. export'[e] \in {y, u, z}
  BY <1>0, <1>9
<1> DEFINE w == export'[e]
<1>12. /\ w.pc # "idle" /\ w.packed = export[e].packed \union {new}
       /\ w.page \union w.batch \subseteq export[e].page \union export[e].batch
  BY <1>5, <1>6, <1>8, <1>10, <1>11
<1>13. Known(e)'
  <2>1. export'[e] # Idle
    BY <1>12 DEF Idle
  <2> QED
    BY <1>1, <1>4, <1>12, <2>1, FactsKept DEF Known
<1> QED
  BY <1>0, <1>1, <1>9, <1>13, KnownOther

LEMMA LeaveKnown ==
  ASSUME TypeOK, WindowInv, NEW e \in Exporters, Leave(e)
  PROVE  WindowInv'
<1>1. export \in [Exporters -> ExportType] /\ window \in [Exporters -> SUBSET Fact]
  BY DEF TypeOK, ExportType
<1>2. Known(e)'
  BY <1>1 DEF Leave, Known
<1> QED
  BY <1>1, <1>2, KnownOther DEF Leave

LEMMA WindowNext == TypeOK /\ WindowInv /\ [Next]_vars => WindowInv'
<1> SUFFICES ASSUME TypeOK, WindowInv, [Next]_vars PROVE WindowInv'
  OBVIOUS
<1>0. export \in [Exporters -> ExportType] /\ window \in [Exporters -> SUBSET Fact]
  BY DEF TypeOK, ExportType
<1>1. CASE UNCHANGED vars
  BY <1>1, KnownQuiet DEF vars
<1>2. ASSUME NEW r \in Changers, NEW kind \in Kinds, NEW d \in Ids, StartChange(r, kind, d)
      PROVE  WindowInv'
  BY <1>2, KnownQuiet DEF StartChange, Begin, NoWrite, NoExport
<1>3. ASSUME NEW r \in Askers, StartExport(r)
      PROVE  WindowInv'
  BY <1>3, KnownQuiet DEF StartExport, Begin, NoWrite, NoExport
<1>4. ASSUME NEW r \in Requests, RequestStep(r)
      PROVE  WindowInv'
  BY <1>4, RequestWindow, KnownWrite, KnownQuiet
<1>5. ASSUME NEW r \in Requests, RequestFails(r)
      PROVE  WindowInv'
  BY <1>5, RequestWindow, KnownWrite, KnownQuiet
<1>6. ASSUME NEW e \in Exporters, Pick(e)
      PROVE  WindowInv'
  <2>1. /\ export'[e] = [Idle EXCEPT !.pc = "list"] /\ window'[e] = Facts
        /\ UNCHANGED <<row, data>>
        /\ \A f \in Exporters \ {e} : export'[f] = export[f] /\ window'[f] = window[f]
    BY <1>0, <1>6 DEF Pick
  <2>2. export'[e].pc = "list" /\ export'[e].page = {} /\ export'[e].batch = {}
        /\ export'[e].packed = {}
    BY <2>1 DEF Idle
  <2>3. Known(e)'
    <3>1. export'[e] # Idle
      BY <2>2 DEF Idle
    <3>2. Facts' = window'[e]
      BY <2>1, FactsKept
    <3> QED
      BY <2>2, <3>1, <3>2 DEF Known
  <2> QED
    BY <2>1, <2>3, KnownOther
<1>7. ASSUME NEW e \in Exporters, Upload(e)
      PROVE  WindowInv'
  <2>1. /\ export'[e].pc = "published" /\ export'[e].page = export[e].page
        /\ export'[e].batch = export[e].batch /\ export'[e].packed = export[e].packed
        /\ UNCHANGED <<row, data, window>>
        /\ \A f \in Exporters \ {e} : export'[f] = export[f]
    BY <1>0, <1>7 DEF Upload, NoWrite, ExportType
  <2>2. export[e] # Idle /\ export'[e] # Idle /\ Facts' = Facts
    BY <1>7, <2>1, FactsKept DEF Upload, Idle
  <2>3. Known(e)'
    BY <2>1, <2>2 DEF WindowInv, Known
  <2> QED
    BY <2>1, <2>3, KnownOther
<1>8. ASSUME NEW e \in Exporters, FinishExport(e) \/ ExportFails(e) \/ Abandon(e)
      PROVE  WindowInv'
  BY <1>8, LeaveKnown DEF FinishExport, ExportFails, Abandon
<1>9. ASSUME NEW e \in Exporters, LoseStream(e)
      PROVE  WindowInv'
  BY <1>9, KnownQuiet DEF LoseStream, NoWrite
<1> QED
  BY <1>1, <1>2, <1>3, <1>4, <1>5, <1>6, <1>7, <1>8, <1>9, ListKnown, ReadKnown, PackKnown
     DEF Next, ExportStep

ArchiveFacts == UNION {FactsOf(x) : x \in archive}

(* Each step of an export or a request is a step of the register. *)
LEMMA RegisterStep ==
  TypeOK /\ WindowInv /\ [Next]_vars => [Register!RegNext]_(Register!regVars)
<1> SUFFICES ASSUME TypeOK, WindowInv, [Next]_vars
             PROVE  [Register!RegNext]_(Register!regVars)
  OBVIOUS
<1> USE DEF Register!RegNext, Register!regVars
<1>0. export \in [Exporters -> ExportType] /\ window \in [Exporters -> SUBSET Fact]
  BY DEF TypeOK, ExportType
<1>s. ASSUME UNCHANGED <<row, data, archive, window>>
      PROVE  UNCHANGED Register!regVars
  BY <1>s, FactsKept
<1>1. CASE UNCHANGED vars
  BY <1>1, <1>s DEF vars
<1>2. ASSUME NEW r \in Changers, NEW kind \in Kinds, NEW d \in Ids, StartChange(r, kind, d)
      PROVE  UNCHANGED Register!regVars
  BY <1>2, <1>s DEF StartChange, Begin, NoWrite
<1>3. ASSUME NEW r \in Askers, StartExport(r)
      PROVE  UNCHANGED Register!regVars
  BY <1>3, <1>s DEF StartExport, Begin, NoWrite
<1>4. ASSUME NEW r \in Requests, RequestStep(r)
      PROVE  [Register!RegNext]_(Register!regVars)
  <2>1. CASE DropArchive(r)
    <3>1. archive' = {} /\ UNCHANGED <<row, data, window>>
      BY <2>1 DEF DropArchive, NoWrite
    <3>2. Register!Withdraw
      BY <3>1, FactsKept DEF Register!Withdraw
    <3> QED
      BY <3>2
  <2>2. CASE ~DropArchive(r)
    <3>1. archive' = archive
      BY <1>4, <2>2 DEF RequestStep, PutFile, SaveRow, CancelJobs, LookArchive, WipeData,
                        IndexDocument, BeginRun, RunIndexing, EraseFile, CommitDelete, AskStatus, EnqueueExport,
                        ImportRow, ImportData
    <3>2. CASE Seen
      <4>1. Register!Change
        BY <3>1, <3>2 DEF Seen, Register!Change
      <4> QED
        BY <4>1
    <3>3. CASE UNCHANGED <<row, data, window>>
      BY <3>1, <3>3, <1>s
    <3> QED
      BY <1>4, <3>2, <3>3, RequestWindow
  <2> QED
    BY <2>1, <2>2
<1>5. ASSUME NEW r \in Requests, RequestFails(r)
      PROVE  [Register!RegNext]_(Register!regVars)
  <2>1. archive' = archive
    BY <1>5 DEF RequestFails
  <2>2. CASE Seen
    <3>1. Register!Change
      BY <2>1, <2>2 DEF Seen, Register!Change
    <3> QED
      BY <3>1
  <2>3. CASE UNCHANGED <<row, data, window>>
    BY <2>1, <2>3, <1>s
  <2> QED
    BY <1>5, <2>2, <2>3, RequestWindow
<1>6. ASSUME NEW e \in Exporters, Pick(e)
      PROVE  Register!Open(e)
  <2>1. window[e] = {} /\ window' = [window EXCEPT ![e] = Facts]
        /\ UNCHANGED <<row, data, archive>>
    BY <1>6 DEF Pick, WindowInv, Known
  <2> QED
    BY <2>1, FactsKept DEF Register!Open
<1>7. ASSUME NEW e \in Exporters, Upload(e)
      PROVE  Register!Publish(e)
  <2>1. archive' = export[e].packed /\ export[e] # Idle /\ UNCHANGED <<row, data, window>>
    BY <1>7 DEF Upload, NoWrite, Idle
  <2>2. ArchiveFacts' \subseteq window[e]
    <3>1. \A x \in archive' : FactsOf(x) \subseteq window[e]
      BY <2>1 DEF WindowInv, Known
    <3> QED
      BY <3>1 DEF ArchiveFacts
  <2> QED
    BY <2>1, <2>2, FactsKept DEF Register!Publish, ArchiveFacts
<1>8. ASSUME NEW e \in Exporters, FinishExport(e) \/ ExportFails(e) \/ Abandon(e)
      PROVE  Register!Close(e)
  <2>1. window' = [window EXCEPT ![e] = {}] /\ UNCHANGED <<row, data, archive>>
    BY <1>8 DEF FinishExport, ExportFails, Abandon, Leave
  <2> QED
    BY <2>1, FactsKept DEF Register!Close
<1>9. ASSUME NEW e \in Exporters, ListPage(e) \/ ReadPart(e) \/ PackDocument(e)
                                  \/ LoseStream(e)
      PROVE  UNCHANGED Register!regVars
  BY <1>9, <1>s DEF ListPage, ReadPart, PackDocument, LoseStream, NoWrite
<1> QED
  BY <1>1, <1>2, <1>3, <1>4, <1>5, <1>6, <1>7, <1>8, <1>9 DEF Next, ExportStep

LEMMA RegisterInit == Init => Register!RegInit
BY DEF Init, Register!RegInit

(* Whatever requests change, cancel and reset while exports read, one part  *)
(* after the other, an archive says of each part of each document only what *)
(* held at some moment of the export that wrote it.                         *)
THEOREM ExportImplementsRegister == Spec => ImplementsRegister
<1>1. TypeOK /\ WindowInv /\ [Next]_vars
        => WindowInv' /\ [Register!RegNext]_(Register!regVars)
  BY WindowNext, RegisterStep
<1> QED
  BY <1>1, InitType, NextType, KnownInit, RegisterInit, PTL
     DEF Spec, ImplementsRegister, Register!RegSpec
----------------------------------------------------------------------------
(* Ranks.  A page and a batch take the elements of a finite set by how many *)
(* have a greater key.                                                      *)
RankIn(S, key) == [x \in S |-> Cardinality({y \in S : key[y] > key[x]})]

(* The ranks of n elements with different keys are 0 to n - 1.              *)
LEMMA RankBijective ==
  ASSUME NEW S, IsFiniteSet(S), NEW key \in [S -> Nat],
         \A x, y \in S : key[x] = key[y] => x = y
  PROVE  RankIn(S, key) \in Bijection(S, 0..(Cardinality(S) - 1))
<1> DEFINE above(x) == {y \in S : key[y] > key[x]}
           n == Cardinality(S)
           rank == RankIn(S, key)
<1>1. n \in Nat
  BY FS_CardinalityType
<1>2. \A x \in S : IsFiniteSet(above(x)) /\ Cardinality(above(x)) \in 0..(n - 1)
  <2> SUFFICES ASSUME NEW x \in S
               PROVE  IsFiniteSet(above(x)) /\ Cardinality(above(x)) \in 0..(n - 1)
    OBVIOUS
  <2>1. IsFiniteSet(S \ {x}) /\ Cardinality(S \ {x}) = n - 1
    BY FS_RemoveElement
  <2>2. above(x) \subseteq S \ {x}
    <3>1. ~(key[x] > key[x])
      OBVIOUS
    <3> QED
      BY <3>1
  <2>3. IsFiniteSet(above(x)) /\ Cardinality(above(x)) <= n - 1
    BY <2>1, <2>2, FS_Subset
  <2>4. Cardinality(above(x)) \in Nat
    BY <2>3, FS_CardinalityType
  <2> HIDE DEF above
  <2> QED
    BY <1>1, <2>3, <2>4
<1>3. \A x, z \in S : key[x] < key[z] => Cardinality(above(z)) < Cardinality(above(x))
  <2> SUFFICES ASSUME NEW x \in S, NEW z \in S, key[x] < key[z]
               PROVE  Cardinality(above(z)) < Cardinality(above(x))
    OBVIOUS
  <2>1. z \in above(x) /\ z \notin above(z) /\ above(z) \subseteq above(x)
    OBVIOUS
  <2>2. IsFiniteSet(above(x)) /\ IsFiniteSet(above(z))
    BY <1>2
  <2> HIDE DEF above
  <2>3. Cardinality(above(z) \union {z}) = Cardinality(above(z)) + 1
    BY <2>1, <2>2, FS_AddElement
  <2>4. above(z) \union {z} \in SUBSET above(x)
    BY <2>1
  <2>5. Cardinality(above(z) \union {z}) <= Cardinality(above(x))
    BY <2>2, <2>4, FS_Subset
  <2>6. Cardinality(above(x)) \in Nat /\ Cardinality(above(z)) \in Nat
    BY <2>2, FS_CardinalityType
  <2> QED
    BY <2>3, <2>5, <2>6
<1>4. \A x \in S : rank[x] = Cardinality(above(x))
  BY DEF RankIn
<1>5. rank \in [S -> 0..(n - 1)]
  <2>1. rank = [x \in S |-> Cardinality(above(x))]
    BY DEF RankIn
  <2> HIDE DEF rank, above, n
  <2> QED
    BY <1>2, <2>1
<1>6. \A x, z \in S : rank[x] = rank[z] => x = z
  <2> SUFFICES ASSUME NEW x \in S, NEW z \in S, rank[x] = rank[z] PROVE x = z
    OBVIOUS
  <2> HIDE DEF above, rank, n
  <2>1. Cardinality(above(x)) = Cardinality(above(z)) /\ Cardinality(above(x)) \in Nat
    BY <1>1, <1>2, <1>4
  <2>2. ~(key[x] < key[z]) /\ ~(key[z] < key[x])
    BY <1>3, <2>1
  <2>3. key[x] \in Nat /\ key[z] \in Nat
    OBVIOUS
  <2> QED
    BY <2>2, <2>3
<1> HIDE DEF rank, n
<1>7. rank \in Injection(S, 0..(n - 1))
  BY <1>5, <1>6 DEF Injection, IsInjective
<1>8. IsFiniteSet(0..(n - 1)) /\ Cardinality(0..(n - 1)) = n
  BY <1>1, FS_Interval
<1>9. rank \in Surjection(S, 0..(n - 1))
  BY <1>7, <1>8, FS_Injection DEF n
<1> QED
  BY <1>7, <1>9 DEF Bijection, rank, n

(* No more than k elements have the ranks of an interval of k.              *)
LEMMA FewInInterval ==
  ASSUME NEW S, NEW n, NEW rank \in Bijection(S, 0..(n - 1)), NEW a \in Nat, NEW k \in Nat
  PROVE  LET T == {x \in S : a <= rank[x] /\ rank[x] < a + k}
         IN  IsFiniteSet(T) /\ Cardinality(T) <= k
<1> DEFINE T == {x \in S : a <= rank[x] /\ rank[x] < a + k}
           f == [x \in T |-> rank[x]]
           I == a..(a + k - 1)
<1>1. rank \in [S -> 0..(n - 1)] /\ \A x, y \in S : rank[x] = rank[y] => x = y
  BY DEF Bijection, Injection, IsInjective
<1>2. \A x \in T : f[x] \in I
  BY <1>1
<1>3. f \in [T -> I]
  BY <1>2
<1>4. \A x, y \in T : f[x] = f[y] => x = y
  BY <1>1
<1> HIDE DEF T, f, I
<1>5. f \in Injection(T, I)
  <2>1. DOMAIN f = T
    BY <1>3
  <2> QED
    BY <1>3, <1>4, <2>1 DEF Injection, IsInjective
<1>6. IsFiniteSet(I) /\ Cardinality(I) = k
  BY FS_Interval DEF I
<1> QED
  BY <1>5, <1>6, FS_Injection DEF T

(* Elements that have all the ranks from a to b are at least as many.       *)
LEMMA EnoughForInterval ==
  ASSUME NEW S, NEW n \in Nat, NEW rank \in Bijection(S, 0..(n - 1)), IsFiniteSet(S),
         NEW k \in 0..n
  PROVE  LET T == {x \in S : rank[x] < k}
         IN  IsFiniteSet(T) /\ Cardinality(T) >= k
<1> DEFINE T == {x \in S : rank[x] < k}
           f == [x \in T |-> rank[x]]
           I == 0..(k - 1)
<1>1. rank \in [S -> 0..(n - 1)] /\ \A i \in 0..(n - 1) : \E x \in S : rank[x] = i
  BY DEF Bijection, Injection, Surjection
<1>2. f \in [T -> I]
  <2>1. \A x \in T : f[x] \in I
    BY <1>1
  <2> QED
    BY <2>1
<1>3. \A i \in I : \E x \in T : f[x] = i
  <2> SUFFICES ASSUME NEW i \in I PROVE \E x \in T : f[x] = i
    OBVIOUS
  <2>1. PICK x \in S : rank[x] = i
    BY <1>1
  <2>2. x \in T
    BY <2>1
  <2> QED
    BY <2>1, <2>2
<1>4. IsFiniteSet(T)
  BY FS_Subset
<1> HIDE DEF T, f, I
<1>5. f \in Surjection(T, I)
  BY <1>2, <1>3 DEF Surjection
<1>6. Cardinality(I) = k
  BY FS_Interval DEF I
<1>7. Cardinality(I) <= Cardinality(T)
  BY <1>4, <1>5, FS_Surjection
<1>8. Cardinality(T) \in Nat
  BY <1>4, FS_CardinalityType
<1> QED
  BY <1>4, <1>6, <1>7, <1>8 DEF T
----------------------------------------------------------------------------
(* Pages and batches. *)

RowRank == RankIn(Rows, [d \in Rows |-> d])

LEMMA RowRanks ==
  /\ IsFiniteSet(Rows) /\ Cardinality(Rows) \in Nat
  /\ RowRank \in Bijection(Rows, 0..(Cardinality(Rows) - 1))
  /\ \A d \in Rows : RowRank[d] = Cardinality({x \in Rows : x > d})
  /\ \A d \in Rows : RowRank[d] \in Nat /\ RowRank[d] < Cardinality(Rows)
<1> DEFINE key == [d \in Rows |-> d]
<1>1. Rows \subseteq Ids /\ IsFiniteSet(Rows)
  BY FS_Subset DEF Rows
<1>2. key \in [Rows -> Nat] /\ \A x, y \in Rows : key[x] = key[y] => x = y
  BY <1>1
<1>3. RowRank \in Bijection(Rows, 0..(Cardinality(Rows) - 1))
  <2> HIDE DEF key
  <2>1. RankIn(Rows, key) \in Bijection(Rows, 0..(Cardinality(Rows) - 1))
    BY <1>1, <1>2, RankBijective
  <2> QED
    BY <2>1 DEF RowRank, key
<1>4. \A d \in Rows : RowRank[d] = Cardinality({x \in Rows : x > d})
  <2> SUFFICES ASSUME NEW d \in Rows PROVE RowRank[d] = Cardinality({x \in Rows : x > d})
    OBVIOUS
  <2>1. {y \in Rows : key[y] > key[d]} = {x \in Rows : x > d}
    OBVIOUS
  <2>2. RowRank[d] = Cardinality({y \in Rows : key[y] > key[d]})
    BY DEF RowRank, RankIn
  <2> QED
    BY <2>1, <2>2
<1>5. Cardinality(Rows) \in Nat
  BY <1>1, FS_CardinalityType
<1>6. \A d \in Rows : RowRank[d] \in Nat /\ RowRank[d] < Cardinality(Rows)
  <2>1. RowRank \in [Rows -> 0..(Cardinality(Rows) - 1)]
    BY <1>3 DEF Bijection, Injection
  <2> QED
    BY <1>5, <2>1
<1> QED
  BY <1>1, <1>3, <1>4, <1>5, <1>6

(* A page has the rows of its ranks, an empty one is beyond the last row,   *)
(* and the next one starts where it ends.                                   *)
LEMMA PageRanks ==
  ASSUME NEW n \in Nat
  PROVE  /\ PageOf(n) = {} => \A d \in Rows : RowRank[d] < n
         /\ \A d \in Rows : RowRank[d] < n + Cardinality(PageOf(n)) =>
              RowRank[d] < n \/ d \in PageOf(n)
<1> DEFINE size == Cardinality(Rows)
           T == {d \in Rows : n <= RowRank[d] /\ RowRank[d] < n + PageSize}
<1>1. PageOf(n) = T
  BY RowRanks DEF PageOf
<1>2. Cardinality(PageOf(n)) <= PageSize
  <2>1. PageSize \in Nat
    OBVIOUS
  <2>2. RowRank \in Bijection(Rows, 0..(size - 1))
    BY RowRanks
  <2>3. Cardinality(T) <= PageSize
    <3> HIDE DEF size
    <3> QED
      BY <2>1, <2>2, FewInInterval
  <2> HIDE DEF T
  <2> QED
    BY <1>1, <2>3
<1>3. Cardinality(PageOf(n)) \in Nat
  BY PageFinite
<1>4. ASSUME PageOf(n) = {}, NEW d \in Rows, ~(RowRank[d] < n)
      PROVE  FALSE
  <2>1. n \in 0..(size - 1)
    <3>1. RowRank[d] \in Nat /\ RowRank[d] < size /\ size \in Nat
      BY RowRanks
    <3> HIDE DEF size
    <3> QED
      BY <1>4, <3>1
  <2>2. RowRank \in Surjection(Rows, 0..(size - 1))
    BY RowRanks DEF Bijection
  <2>3. PICK x \in Rows : RowRank[x] = n
    BY <2>1, <2>2 DEF Surjection
  <2>4. x \in T
    BY <2>3
  <2> QED
    BY <1>1, <1>4, <2>4
<1>5. ASSUME NEW d \in Rows, RowRank[d] < n + Cardinality(PageOf(n)), ~(RowRank[d] < n)
      PROVE  d \in PageOf(n)
  <2>1. RowRank[d] \in Nat
    BY RowRanks
  <2>2. n <= RowRank[d] /\ RowRank[d] < n + PageSize
    BY <1>2, <1>3, <1>5, <2>1
  <2> QED
    BY <1>1, <2>2
<1> QED
  BY <1>4, <1>5

(* A batch that has room left has taken the whole page.                     *)
LEMMA RoomMeansWhole ==
  ASSUME NEW p, NEW b, IsFiniteSet(p), IsFiniteSet(b), p \subseteq Bundle,
         \A x, y \in p : x.doc = y.doc => x = y,
         Cardinality(b \union Front(p \ b, b)) < BatchSize
  PROVE  p \subseteq b \union Front(p \ b, b)
<1> DEFINE q == p \ b
           F == Front(q, b)
           key == [l \in q |-> l.doc]
           n == Cardinality(q)
           rank == RankIn(q, key)
           room == BatchSize - Cardinality(b)
<1>1. IsFiniteSet(q) /\ n \in Nat
  BY FS_Difference, FS_CardinalityType
<1>2. key \in [q -> Nat] /\ \A x, y \in q : key[x] = key[y] => x = y
  BY DEF Bundle
<1>3. rank \in Bijection(q, 0..(n - 1))
  <2> HIDE DEF q, key
  <2> QED
    BY <1>1, <1>2, RankBijective
<1>4. F = {x \in q : rank[x] < room}
  <2>1. ASSUME NEW x \in q
        PROVE  Cardinality({y \in q : y.doc > x.doc}) = rank[x]
    <3>1. {y \in q : key[y] > key[x]} = {y \in q : y.doc > x.doc}
      OBVIOUS
    <3>2. rank[x] = Cardinality({y \in q : key[y] > key[x]})
      BY DEF RankIn
    <3> QED
      BY <3>1, <3>2
  <2> HIDE DEF q, rank
  <2> QED
    BY <2>1 DEF Front
<1>5. IsFiniteSet(F) /\ F \subseteq q
  BY <1>1, FS_Subset DEF Front
<1>6. Cardinality(b) \in Nat /\ Cardinality(F) \in Nat
  BY <1>5, FS_CardinalityType
<1>7. Cardinality(b \union F) = Cardinality(b) + Cardinality(F)
  <2>1. b \intersect F = {}
    BY <1>5
  <2> HIDE DEF F
  <2>2. Cardinality(b \union F) = Cardinality(b) + Cardinality(F) - Cardinality(b \intersect F)
    BY <1>5, FS_Union
  <2>3. Cardinality(b \intersect F) = 0
    BY <2>1, FS_EmptySet
  <2> QED
    BY <1>6, <2>2, <2>3
<1>8. Cardinality(F) < room /\ room \in Nat
  BY <1>6, <1>7
<1>9. room > n
  <2> SUFFICES ASSUME ~(room > n) PROVE FALSE
    OBVIOUS
  <2>1. room \in 0..n
    BY <1>1, <1>8
  <2> HIDE DEF F, q, rank, room, n
  <2>2. Cardinality({x \in q : rank[x] < room}) >= room
    BY <1>1, <1>3, <2>1, EnoughForInterval
  <2> QED
    BY <1>4, <1>6, <1>8, <2>2
<1>10. rank \in [q -> 0..(n - 1)]
  BY <1>3 DEF Bijection, Injection
<1>11. q \subseteq F
  <2> HIDE DEF F, q, rank, room, n
  <2> QED
    BY <1>1, <1>4, <1>8, <1>9, <1>10
<1> QED
  BY <1>11

(* Filling a batch loses nothing, and leaves the page for the next list     *)
(* only when there is nothing on it.                                        *)
LEMMA FillLosesNothing ==
  ASSUME NEW u \in ExportType, NEW p \in SUBSET Bundle, NEW b \in SUBSET Bundle,
         IsFiniteSet(p), IsFiniteSet(b), \A x, y \in p : x.doc = y.doc => x = y
  PROVE  /\ Fill(u, p, b).page \union Fill(u, p, b).batch = p \union b
         /\ Fill(u, p, b).offset = u.offset
         /\ Fill(u, p, b).pc = "list" => Fill(u, p, b).page = {}
<1> DEFINE full == b \union Front(p \ b, b)
<1>1. full \subseteq p \union b /\ b \subseteq full
  BY DEF Front
<1>2. Fill(u, p, b) = [u EXCEPT !.page = p \ full, !.batch = full,
                                !.pc = IF Cardinality(full) >= BatchSize THEN "pack" ELSE "list"]
  BY DEF Fill
<1>3. IsFiniteSet(full)
  BY <1>1, FS_Union, FS_Subset
<1>4. Cardinality(full) \in Nat
  BY <1>3, FS_CardinalityType
<1>5. ~(Cardinality(full) >= BatchSize) => p \subseteq full
  BY <1>4, RoomMeansWhole
<1> HIDE DEF full
<1> QED
  BY <1>1, <1>2, <1>5 DEF ExportType
----------------------------------------------------------------------------
(* The archive that is served.  Requests for an export write nothing.       *)
AskInv == \A r \in Askers : request[r].pc \in {"idle", "ask", "enqueue", "done"}

(* An export is quiet only while no request changes the channel, so what it *)
(* reads does not change.                                                   *)
QuietInv == Changing # {} => quiet = {}

(* What a quiet export has read of a document is current. *)
Current(x) ==
  /\ x.doc \in Rows /\ x.row = row[x.doc]
  /\ Len(x.data) < File
  /\ \A p \in 1..Len(x.data) : x.data[p] = data[x.doc][p]

Listed == {RowOf(d) : d \in Rows}

(* An export has a document: listed, being read or packed. *)
Holds(x, d) == RowOf(d) \in x.page \/ (\E b \in x.batch : b.doc = d) \/ Shown(d) \in x.packed

(* What a quiet export holds is the channel's, rows before its offset are   *)
(* with it, and nothing of a document is read until its batch is full or    *)
(* the last.                                                                *)
Paging(e) ==
  LET x == export[e] IN
  /\ x.page \subseteq Listed /\ \A b \in x.batch : Current(b)
  /\ x.packed \subseteq Channel
  /\ \A d \in Rows : RowRank[d] < x.offset => Holds(x, d)
  /\ x.pc = "list" => x.batch \subseteq Listed
  /\ x.pc \in {"list", "last", "upload"} => x.page = {}
  /\ x.pc \in {"last", "upload"} => \A d \in Rows : RowRank[d] < x.offset
  /\ x.pc = "upload" => x.batch = {}

PagingInv == \A e \in quiet : Paging(e)

(* Requests that have their reset of the archive before them, and those     *)
(* that write after it.                                                     *)
Owing == {"put", "row", "cancel", "look", "drop"}
Behind == {"wipe", "index", "begin", "run", "erase", "commit"}

(* After a reset there is no archive of a quiet export until the request    *)
(* has ended; one that is not the channel any more is owed a reset.         *)
ServedInv ==
  /\ \A r \in Changers : request[r].pc \in Behind => ~(stored /\ fresh)
  /\ stored /\ fresh => archive = Channel \/ \E r \in Changers : request[r].pc \in Owing

LEMMA SameChannel ==
  ASSUME UNCHANGED <<row, data>>
  PROVE  /\ Rows' = Rows /\ Channel' = Channel /\ Listed' = Listed /\ RowRank' = RowRank
         /\ \A d : RowOf(d)' = RowOf(d) /\ Shown(d)' = Shown(d)
         /\ \A x : Current(x)' <=> Current(x)
<1>1. Rows' = Rows
  BY DEF Rows
<1>2. \A d : RowOf(d)' = RowOf(d) /\ Shown(d)' = Shown(d)
  BY DEF RowOf, Shown
<1>3. Channel' = Channel /\ Listed' = Listed
  BY <1>1, <1>2 DEF Channel, Listed
<1>4. RowRank' = RowRank
  BY <1>1 DEF RowRank, RankIn
<1>5. \A x : Current(x)' <=> Current(x)
  BY <1>1 DEF Current
<1> QED
  BY <1>1, <1>2, <1>3, <1>4, <1>5

LEMMA PagingKept ==
  ASSUME PagingInv, UNCHANGED <<row, data, export>>, quiet' \subseteq quiet
  PROVE  PagingInv'
<1> SUFFICES ASSUME NEW e \in quiet PROVE Paging(e)'
  BY DEF PagingInv
<1>1. Paging(e)
  BY DEF PagingInv
<1> QED
  BY <1>1, SameChannel DEF Paging, Holds

(* A step of one export, the channel unchanged. *)
LEMMA PagingOther ==
  ASSUME PagingInv, NEW e \in Exporters, UNCHANGED <<row, data>>, quiet' \subseteq quiet \union {e},
         e \in quiet' => Paging(e)',
         \A f \in Exporters \ {e} : export'[f] = export[f], quiet \subseteq Exporters
  PROVE  PagingInv'
<1> SUFFICES ASSUME NEW f \in quiet', f # e PROVE Paging(f)'
  BY DEF PagingInv
<1>1. Paging(f) /\ export'[f] = export[f]
  BY DEF PagingInv
<1> QED
  BY <1>1, SameChannel DEF Paging, Holds

LEMMA ServedKept ==
  ASSUME ServedInv, UNCHANGED <<row, data, stored, archive, fresh>>,
         \A r \in Changers : request'[r].pc \in Behind => request[r].pc \in Behind,
         \A r \in Changers : request[r].pc \in Owing => request'[r].pc \in Owing
  PROVE  ServedInv'
BY DEF ServedInv, Channel, Rows, Shown

(* What a step of a request leaves alone. *)
LEMMA RequestMoves ==
  ASSUME TypeOK, AskInv, NEW r \in Requests, RequestStep(r)
  PROVE  /\ export' = export /\ quiet' = quiet /\ request[r].pc \notin {"idle", "done"}
         /\ \A s \in Requests \ {r} : request'[s] = request[s]
         /\ r \notin Changers => /\ request'[r].pc \in {"enqueue", "done"}
                                 /\ UNCHANGED <<row, data, stored, archive, fresh>>
<1>0. request \in [Requests -> Handler]
  BY DEF TypeOK, Handler
<1>1. export' = export /\ quiet' = quiet
  BY DEF RequestStep, PutFile, SaveRow, CancelJobs, LookArchive, DropArchive, WipeData,
     IndexDocument, BeginRun, RunIndexing, EraseFile, CommitDelete, ImportRow, ImportData,
     AskStatus, EnqueueExport, NoExport
<1>2. request[r].pc \notin {"idle", "done"}
  BY DEF RequestStep, PutFile, SaveRow, CancelJobs, LookArchive, DropArchive, WipeData,
     IndexDocument, BeginRun, RunIndexing, EraseFile, CommitDelete, ImportRow, ImportData,
     AskStatus, EnqueueExport
<1>3. \A s \in Requests \ {r} : request'[s] = request[s]
  BY RequestType DEF Moves
<1>4. ASSUME r \notin Changers
      PROVE  /\ request'[r].pc \in {"enqueue", "done"}
             /\ UNCHANGED <<row, data, stored, archive, fresh>>
  <2>1. request[r].pc \in {"idle", "ask", "enqueue", "done"}
    BY <1>4 DEF AskInv, Requests
  <2>2. AskStatus(r) \/ EnqueueExport(r)
    BY <2>1 DEF RequestStep, PutFile, SaveRow, CancelJobs, LookArchive, DropArchive, WipeData,
       IndexDocument, BeginRun, RunIndexing, EraseFile, CommitDelete, ImportRow, ImportData
  <2> QED
    BY <1>0, <2>2 DEF AskStatus, EnqueueExport, NoWrite, Goto, Handler
<1> QED
  BY <1>1, <1>2, <1>3, <1>4

LEMMA ServedOfRequest ==
  ASSUME TypeOK, AskInv, ServedInv, NEW r \in Requests, RequestStep(r)
  PROVE  ServedInv'
<1>0. request \in [Requests -> Handler]
  BY DEF TypeOK, Handler
<1>1. \A s \in Requests \ {r} : request'[s] = request[s]
  BY RequestMoves
<1>2. ASSUME ~(stored' /\ fresh')
      PROVE  ServedInv'
  BY <1>2 DEF ServedInv
<1>3. CASE r \notin Changers
  <2>1. \A s \in Changers : request'[s] = request[s]
    BY <1>1, <1>3 DEF Requests
  <2> QED
    BY <1>3, <2>1, RequestMoves, ServedKept
<1>4. ASSUME r \in Changers, UNCHANGED <<stored, archive, fresh>>, request'[r].pc \in Owing
      PROVE  ServedInv'
  <2>1. \A s \in Changers : request'[s].pc \in Behind => request[s].pc \in Behind
    BY <1>1, <1>4 DEF Owing, Behind, Requests
  <2> QED
    BY <1>4, <2>1 DEF ServedInv
<1>5. CASE r \in Changers /\ (PutFile(r) \/ SaveRow(r) \/ CancelJobs(r))
  <2>1. request'[r].pc \in {"row", "cancel", "look"}
    BY <1>0, <1>5 DEF PutFile, SaveRow, CancelJobs, Goto, Handler
  <2>2. UNCHANGED <<stored, archive, fresh>>
    BY <1>5 DEF PutFile, SaveRow, CancelJobs
  <2> QED
    BY <1>4, <1>5, <2>1, <2>2 DEF Owing
<1>6. CASE r \in Changers /\ LookArchive(r)
  <2>1. CASE stored /\ Goto(r, "drop")
    <3>1. request'[r].pc = "drop"
      BY <1>0, <2>1 DEF Goto
    <3> QED
      BY <1>4, <1>6, <3>1 DEF LookArchive, Owing
  <2>2. CASE ~stored
    BY <1>2, <1>6, <2>2 DEF LookArchive
  <2> QED
    BY <1>6, <2>1, <2>2 DEF LookArchive
<1>7. CASE DropArchive(r)
  BY <1>2, <1>7 DEF DropArchive
<1>8. CASE r \in Changers /\ (\/ WipeData(r) \/ IndexDocument(r) \/ BeginRun(r)
                              \/ RunIndexing(r) \/ EraseFile(r) \/ CommitDelete(r))
  <2>1. request[r].pc \in Behind
    BY <1>8 DEF WipeData, IndexDocument, BeginRun, RunIndexing, EraseFile, CommitDelete, Behind
  <2>2. UNCHANGED <<stored, fresh>>
    BY <1>8 DEF WipeData, IndexDocument, BeginRun, RunIndexing, EraseFile, CommitDelete
  <2> QED
    BY <1>2, <1>8, <2>1, <2>2 DEF ServedInv
<1>9. CASE ImportRow(r) \/ ImportData(r)
  BY <1>2, <1>9 DEF ImportRow, ImportData
<1>10. CASE AskStatus(r) \/ EnqueueExport(r)
  <2>1. /\ UNCHANGED <<row, data, stored, archive, fresh>>
        /\ request[r].pc \notin Owing /\ request'[r].pc \notin Behind
    BY <1>0, <1>10 DEF AskStatus, EnqueueExport, NoWrite, Goto, Owing, Behind, Handler
  <2> QED
    BY <1>1, <2>1, ServedKept DEF Requests
<1> QED
  BY <1>3, <1>5, <1>6, <1>7, <1>8, <1>9, <1>10 DEF RequestStep

(* What a quiet export has listed and not packed is of finitely many rows,  *)
(* each listed once.                                                        *)
LEMMA ListedRows ==
  ASSUME NEW p, p \subseteq Listed
  PROVE  /\ IsFiniteSet(p) /\ \A x, y \in p : x.doc = y.doc => x = y
         /\ \A x \in p : x.doc \in Rows /\ x = RowOf(x.doc)
<1> USE DEF Listed
<1> DEFINE f == [d \in Rows |-> RowOf(d)]
           T == {RowOf(d) : d \in Rows}
<1>1. IsFiniteSet(T)
  <2>1. f \in Surjection(Rows, T)
    BY DEF Surjection
  <2> HIDE DEF f, T
  <2> QED
    BY <2>1, RowRanks, FS_Surjection
<1>2. IsFiniteSet(p)
  BY <1>1, FS_Subset
<1>3. \A x \in p : x.doc \in Rows /\ x = RowOf(x.doc)
  <2> SUFFICES ASSUME NEW x \in p PROVE x.doc \in Rows /\ x = RowOf(x.doc)
    OBVIOUS
  <2>1. PICK d \in Rows : x = RowOf(d)
    OBVIOUS
  <2>2. x.doc = d
    BY <2>1 DEF RowOf
  <2> QED
    BY <2>1, <2>2
<1> QED
  BY <1>2, <1>3

(* A bundle that is listed is current: its row is all that it has. *)
LEMMA ListedIsCurrent ==
  ASSUME TypeOK, NEW x \in Listed
  PROVE  Current(x)
<1>1. PICK d \in Rows : x = RowOf(d)
  BY DEF Listed
<1>2. row \in [Ids -> Nat] /\ d \in Ids
  BY DEF TypeOK, Rows
<1>3. x.doc = d /\ x.row = row[d] /\ Len(x.data) = 0
  BY <1>1, <1>2, RowOfType
<1> QED
  BY <1>1, <1>3, PartTypes DEF Current

(* The next part of a quiet channel is current, and the file, which is the  *)
(* last, completes the bundle.                                              *)
LEMMA NextIsCurrent ==
  ASSUME TypeOK, NEW x \in Bundle, Current(x)
  PROVE  /\ WithNext(x).doc = x.doc
         /\ NextPart(x) < File => Current(WithNext(x))
         /\ NextPart(x) = File => WithNext(x) = Shown(x.doc)
<1> DEFINE n == WithNext(x)
           d == x.doc
<1>0. data \in [Ids -> [Parts -> Nat]]
  BY DEF TypeOK
<1>1. Len(x.data) \in Nat /\ NextPart(x) = Len(x.data) + 1 /\ NextPart(x) <= File
  <2>1. Len(x.data) \in Nat
    BY DEF Bundle
  <2> QED
    BY <2>1, PartTypes DEF NextPart, Current
<1>2. /\ n \in Bundle /\ n.doc = d /\ n.row = x.row /\ Len(n.data) = NextPart(x)
      /\ \A p \in 1..Len(x.data) : n.data[p] = x.data[p]
      /\ n.data[NextPart(x)] = data[d][NextPart(x)]
  BY <1>0, <1>1, NextOf
<1>3. \A p \in 1..Len(x.data) : x.data[p] = data[d][p]
  BY DEF Current
<1> HIDE DEF n, d
<1>4. \A p \in 1..NextPart(x) : n.data[p] = data[d][p]
  BY <1>1, <1>2, <1>3
<1>5. d \in Rows /\ x.row = row[d]
  BY DEF Current, d
<1>6. NextPart(x) < File => Current(n)
  BY <1>2, <1>4, <1>5 DEF Current
<1>7. ASSUME NextPart(x) = File
      PROVE  n = Shown(d)
  <2>1. data[d] \in [Parts -> Nat]
    BY <1>0, <1>5 DEF Rows
  <2>2. n.data \in Seq(Nat) /\ n = [doc |-> n.doc, row |-> n.row, data |-> n.data]
    BY <1>2 DEF Bundle
  <2>3. n.data \in [Parts -> Nat]
    BY <1>2, <1>7, <2>2 DEF Parts
  <2>4. n.data = data[d]
    <3> DEFINE f == n.data
               g == data[d]
    <3>1. f \in [Parts -> Nat] /\ g \in [Parts -> Nat]
      BY <2>1, <2>3
    <3>2. \A p \in Parts : f[p] = g[p]
      BY <1>4, <1>7 DEF Parts
    <3> HIDE DEF f, g
    <3>3. f = g
      BY <3>1, <3>2
    <3> QED
      BY <3>3 DEF f, g
  <2> QED
    BY <1>2, <1>5, <2>2, <2>4 DEF Shown
<1> QED
  BY <1>2, <1>6, <1>7 DEF n, d

LEMMA ListPaging ==
  ASSUME TypeOK, PagingInv, NEW e \in Exporters, ListPage(e)
  PROVE  PagingInv'
<1> DEFINE ids == PageOf(export[e].offset)
           page == {RowOf(d) : d \in ids}
           x == [export[e] EXCEPT !.offset = @ + Cardinality(ids)]
           y == [export[e] EXCEPT !.pc = IF export[e].batch = {} THEN "upload" ELSE "last"]
           b == export[e].batch
           z == Fill(x, page, b)
<1>0. /\ row \in [Ids -> Nat] /\ export \in [Exporters -> ExportType]
      /\ quiet \subseteq Exporters
  BY DEF TypeOK, ExportType
<1>1. /\ UNCHANGED <<row, data, quiet>> /\ export[e].pc = "list"
      /\ export' = [export EXCEPT ![e] = IF ids = {} THEN y ELSE z]
  BY DEF ListPage, NoWrite
<1>2. export[e].offset \in Nat /\ Cardinality(ids) \in Nat /\ ids \subseteq Rows
  BY <1>0, PageFinite DEF ExportType
<1>3. /\ ids = {} => \A d \in Rows : RowRank[d] < export[e].offset
      /\ \A d \in Rows : RowRank[d] < export[e].offset + Cardinality(ids) =>
           RowRank[d] < export[e].offset \/ d \in ids
  BY <1>2, PageRanks
<1>4. ASSUME e \in quiet
      PROVE  Paging(e)'
  <2>0. Paging(e) /\ export[e].page = {} /\ b \subseteq Listed
    BY <1>1, <1>4 DEF PagingInv, Paging
  <2>1. CASE ids = {}
    <3>1. /\ export'[e].page = {} /\ export'[e].batch = b /\ export'[e].packed = export[e].packed
          /\ export'[e].offset = export[e].offset
          /\ export'[e].pc = IF b = {} THEN "upload" ELSE "last"
      BY <1>0, <1>1, <2>0, <2>1 DEF ExportType
    <3>2. \A d \in Rows : RowRank[d] < export[e].offset
      BY <1>3, <2>1
    <3>3. \A d \in Rows : Holds(export'[e], d)
      <4>1. \A d \in Rows : Holds(export[e], d)
        BY <2>0, <3>2 DEF Paging
      <4> QED
        BY <2>0, <3>1, <4>1 DEF Holds
    <3>4. /\ export'[e].packed \subseteq Channel /\ \A k \in export'[e].batch : Current(k)
          /\ export'[e].pc = "upload" => export'[e].batch = {}
          /\ export'[e].pc # "list"
      BY <2>0, <3>1 DEF Paging
    <3> HIDE DEF b
    <3> QED
      BY <1>1, <3>1, <3>2, <3>3, <3>4, SameChannel DEF Paging, Holds
  <2>2. CASE ids # {}
    <3>1. export'[e] = z
      BY <1>0, <1>1, <2>2
    <3>2. page \subseteq Listed
      BY <1>2 DEF Listed
    <3>3. page \in SUBSET Bundle /\ b \in SUBSET Bundle
      <4>1. \A d \in Ids : RowOf(d) \in Bundle
        BY <1>0, RowOfType
      <4>2. Listed \subseteq Bundle
        BY <4>1 DEF Listed, Rows
      <4> HIDE DEF page, b
      <4> QED
        BY <2>0, <3>2, <4>2
    <3>4. x \in ExportType /\ x.packed = export[e].packed
          /\ x.offset = export[e].offset + Cardinality(ids)
      <4>1. export[e] \in ExportType
        BY <1>0
      <4> HIDE DEF ids
      <4> QED
        BY <1>2, <4>1 DEF ExportType
    <3>5. \A d \in ids : RowOf(d) \in page
      OBVIOUS
    <3> HIDE DEF x, page, ids, z, b
    <3>6. /\ IsFiniteSet(page) /\ IsFiniteSet(b)
          /\ \A k, l \in page : k.doc = l.doc => k = l
      BY <2>0, <3>2, ListedRows
    <3>7. /\ z.page \union z.batch = page \union b /\ z.offset = x.offset
          /\ z.pc = "list" => z.page = {}
      BY <3>3, <3>4, <3>6, FillLosesNothing DEF z
    <3>8. z.packed = x.packed /\ z.pc \in {"pack", "list"}
      <4>1. x \in ExportType
        BY <3>4
      <4>2. /\ Fill(x, page, b).packed = x.packed
            /\ Fill(x, page, b).pc \in {"pack", "list"}
        BY ONLY <3>3, <4>1, FillMoves
      <4> QED
        BY <4>2 DEF z
    <3>9. z.page \subseteq Listed /\ z.batch \subseteq Listed
      BY <2>0, <3>2, <3>7
    <3>10. \A k \in z.batch : Current(k)
      BY <3>9, ListedIsCurrent
    <3>11. \A k \in page \union b : Holds(z, k.doc)
      <4> SUFFICES ASSUME NEW k \in z.page \union z.batch PROVE Holds(z, k.doc)
        BY <3>7
      <4>1. k = RowOf(k.doc)
        BY <3>9, ListedRows
      <4> QED
        BY <4>1 DEF Holds
    <3>12. \A d \in Rows : RowRank[d] < z.offset => Holds(z, d)
      <4> SUFFICES ASSUME NEW d \in Rows, RowRank[d] < z.offset PROVE Holds(z, d)
        OBVIOUS
      <4>1. RowRank[d] < export[e].offset \/ d \in ids
        BY <1>3, <3>4, <3>7
      <4>2. CASE d \in ids
        <5>1. RowOf(d).doc = d
          BY <1>0, RowOfType DEF Rows
        <5> QED
          BY <3>5, <3>11, <4>2, <5>1
      <4>3. CASE RowRank[d] < export[e].offset
        <5>1. Holds(export[e], d)
          BY <2>0, <4>3 DEF Paging
        <5>2. (\E k \in b : k.doc = d) \/ Shown(d) \in export[e].packed
          BY <2>0, <5>1 DEF Holds, b
        <5>3. Shown(d) \in export[e].packed => Holds(z, d)
          BY <3>4, <3>8 DEF Holds
        <5> QED
          BY <3>11, <5>2, <5>3
      <4> QED
        BY <4>1, <4>2, <4>3
    <3>13. z.packed \subseteq Channel
      BY <2>0, <3>4, <3>8 DEF Paging
    <3>14. z.pc \notin {"last", "upload"} /\ (z.pc = "list" => z.page = {})
      BY <3>7, <3>8
    <3> QED
      BY <1>1, <3>1, <3>9, <3>10, <3>12, <3>13, <3>14, SameChannel DEF Paging, Holds
  <2> QED
    BY <2>1, <2>2
<1>5. \A f \in Exporters \ {e} : export'[f] = export[f]
  BY <1>0, <1>1
<1> HIDE DEF ids, page, x, y, b, z
<1> QED
  BY <1>0, <1>1, <1>4, <1>5, PagingOther

LEMMA ReadPaging ==
  ASSUME TypeOK, PagingInv, NEW e \in Exporters, ReadPart(e)
  PROVE  PagingInv'
<1>0. export \in [Exporters -> ExportType] /\ quiet \subseteq Exporters
  BY DEF TypeOK, ExportType
<1>1. UNCHANGED <<row, data, quiet>> /\ export[e].pc \in {"pack", "last"}
  BY DEF ReadPart, NoWrite
<1>2. PICK x \in export[e].batch :
        /\ NextPart(x) < File
        /\ export' = [export EXCEPT ![e].batch = (@ \ {x}) \union {WithNext(x)}]
  BY DEF ReadPart
<1>3. x \in Bundle
  BY <1>0, <1>2 DEF ExportType
<1> DEFINE w == export'[e]
           n == WithNext(x)
<1>4. /\ w.pc = export[e].pc /\ w.page = export[e].page /\ w.packed = export[e].packed
      /\ w.offset = export[e].offset /\ w.batch = (export[e].batch \ {x}) \union {n}
  BY <1>0, <1>2 DEF ExportType
<1>5. ASSUME e \in quiet
      PROVE  Paging(e)'
  <2>1. Paging(e)
    BY <1>5 DEF PagingInv
  <2>2. Current(x)
    BY <1>2, <2>1 DEF Paging
  <2>3. n.doc = x.doc /\ Current(n)
    BY <1>2, <1>3, <2>2, NextIsCurrent
  <2> HIDE DEF n
  <2>4. \A k \in w.batch : Current(k)
    BY <1>4, <2>1, <2>3 DEF Paging
  <2>5. \A d \in Rows : RowRank[d] < w.offset => Holds(w, d)
    <3> SUFFICES ASSUME NEW d \in Rows, RowRank[d] < export[e].offset PROVE Holds(w, d)
      BY <1>4
    <3>1. Holds(export[e], d)
      BY <2>1 DEF Paging
    <3>2. CASE x.doc = d
      BY <1>4, <2>3, <3>2 DEF Holds
    <3>3. CASE x.doc # d
      BY <1>4, <3>1, <3>3 DEF Holds
    <3> QED
      BY <3>2, <3>3
  <2> QED
    BY <1>1, <1>4, <2>1, <2>4, <2>5, SameChannel DEF Paging, Holds
<1>6. \A f \in Exporters \ {e} : export'[f] = export[f]
  BY <1>0, <1>2
<1> QED
  BY <1>0, <1>1, <1>5, <1>6, PagingOther

LEMMA PackPaging ==
  ASSUME TypeOK, PagingInv, NEW e \in Exporters, PackDocument(e)
  PROVE  PagingInv'
<1>0. /\ data \in [Ids -> [Parts -> Nat]]
      /\ export \in [Exporters -> ExportType] /\ quiet \subseteq Exporters
  BY DEF TypeOK, ExportType
<1>1. UNCHANGED <<row, data, quiet>> /\ export[e].pc \in {"pack", "last"}
  BY DEF PackDocument, NoWrite
<1>2. PICK x \in export[e].batch :
        /\ NextPart(x) = File
        /\ LET rest == export[e].batch \ {x}
               v == [export[e] EXCEPT !.batch = rest, !.packed = @ \union {WithNext(x)}]
           IN  export' = [export EXCEPT ![e] =
                 IF rest # {} THEN v
                 ELSE IF export[e].pc = "last" THEN [v EXCEPT !.pc = "upload"]
                 ELSE Fill(v, export[e].page, {})]
  BY DEF PackDocument
<1> DEFINE rest == export[e].batch \ {x}
           new == WithNext(x)
           y == [export[e] EXCEPT !.batch = rest, !.packed = @ \union {new}]
           u == [y EXCEPT !.pc = "upload"]
           p == export[e].page
           z == Fill(y, p, {})
<1>3. x \in Bundle
  BY <1>0, <1>2 DEF ExportType
<1>4. new \in Bundle
  BY <1>0, <1>2, <1>3, PartTypes, NextOf
<1> HIDE DEF new
<1>5. export' = [export EXCEPT ![e] = IF rest # {} THEN y
                                      ELSE IF export[e].pc = "last" THEN u ELSE z]
  BY <1>2 DEF new
<1>6. /\ y \in ExportType /\ y.page = p /\ y.batch = rest /\ y.offset = export[e].offset
      /\ y.packed = export[e].packed \union {new} /\ y.pc = export[e].pc
      /\ u.page = p /\ u.batch = rest /\ u.offset = export[e].offset
      /\ u.packed = export[e].packed \union {new} /\ u.pc = "upload"
  BY <1>0, <1>4 DEF ExportType
<1>7. p \in SUBSET Bundle
  BY <1>0 DEF ExportType
<1>8. ASSUME e \in quiet
      PROVE  Paging(e)'
  <2>0. Paging(e)
    BY <1>8 DEF PagingInv
  <2>1. Current(x)
    BY <1>2, <2>0 DEF Paging
  <2>2. x.doc \in Rows /\ new = Shown(x.doc) /\ new \in Channel
    <3>1. x.doc \in Rows /\ new = Shown(x.doc)
      BY <1>2, <1>3, <2>1, NextIsCurrent DEF new, Current
    <3> QED
      BY <3>1 DEF Channel
  <2>3. \A w : w.page = p /\ w.batch = rest /\ w.packed = export[e].packed \union {new} =>
          \A d \in Rows : RowRank[d] < export[e].offset => Holds(w, d)
    <3> SUFFICES ASSUME NEW w, w.page = p, w.batch = rest,
                        w.packed = export[e].packed \union {new},
                        NEW d \in Rows, RowRank[d] < export[e].offset
                 PROVE  Holds(w, d)
      OBVIOUS
    <3>1. Holds(export[e], d)
      BY <2>0 DEF Paging
    <3>2. CASE x.doc = d
      BY <2>2, <3>2 DEF Holds
    <3>3. CASE x.doc # d
      BY <3>1, <3>3 DEF Holds
    <3> QED
      BY <3>2, <3>3
  <2>4. /\ export[e].packed \union {new} \subseteq Channel /\ p \subseteq Listed
        /\ \A k \in rest : Current(k)
        /\ export[e].pc = "last" => p = {} /\ \A d \in Rows : RowRank[d] < export[e].offset
    BY <2>0, <2>2 DEF Paging
  <2> HIDE DEF y, u, p, rest
  <2>5. CASE rest # {}
    <3>1. export'[e] = y
      BY <1>0, <1>5, <2>5
    <3>2. \A d \in Rows : RowRank[d] < y.offset => Holds(y, d)
      BY <1>6, <2>3
    <3> QED
      BY <1>1, <1>6, <2>4, <3>1, <3>2, SameChannel DEF Paging, Holds
  <2>6. CASE rest = {} /\ export[e].pc = "last"
    <3>1. export'[e] = u
      BY <1>0, <1>5, <2>6
    <3>2. \A d \in Rows : RowRank[d] < u.offset => Holds(u, d)
      BY <1>6, <2>3
    <3> QED
      BY <1>1, <1>6, <2>4, <2>6, <3>1, <3>2, SameChannel DEF Paging, Holds
  <2>7. CASE rest = {} /\ export[e].pc # "last"
    <3> DEFINE none == {}
               v == Fill(y, p, none)
    <3>1. export'[e] = v
      BY <1>0, <1>5, <2>7
    <3>2. /\ IsFiniteSet(p) /\ IsFiniteSet(none) /\ none \in SUBSET Bundle
          /\ \A k, l \in p : k.doc = l.doc => k = l
      BY <2>4, ListedRows, FS_EmptySet
    <3> HIDE DEF none, v
    <3>3. /\ v.page \union v.batch = p \union none /\ v.offset = y.offset
          /\ v.pc = "list" => v.page = {}
      BY <1>6, <1>7, <3>2, FillLosesNothing DEF v
    <3>4. v.packed = y.packed /\ v.pc \in {"pack", "list"}
      <4>1. y \in ExportType /\ p \in SUBSET Bundle /\ none \in SUBSET Bundle
        BY <1>6, <1>7, <3>2
      <4>2. /\ Fill(y, p, none).packed = y.packed
            /\ Fill(y, p, none).pc \in {"pack", "list"}
        BY ONLY <4>1, FillMoves
      <4> QED
        BY <4>2 DEF v
    <3>5. v.page \union v.batch = p
      BY <3>3 DEF none
    <3>6. v.page \subseteq Listed /\ v.batch \subseteq Listed
      BY <2>4, <3>5
    <3>7. \A k \in v.batch : Current(k)
      BY <3>6, ListedIsCurrent
    <3>8. \A d \in Rows : RowRank[d] < v.offset => Holds(v, d)
      <4> SUFFICES ASSUME NEW d \in Rows, RowRank[d] < y.offset PROVE Holds(v, d)
        BY <3>3
      <4>1. Holds(y, d)
        BY <1>6, <2>3
      <4>2. RowOf(d) \in v.page \union v.batch \/ Shown(d) \in v.packed
        BY <1>6, <2>7, <3>4, <3>5, <4>1 DEF Holds
      <4>3. RowOf(d) \in v.batch => RowOf(d).doc = d
        BY DEF RowOf
      <4> QED
        BY <4>2, <4>3 DEF Holds
    <3> QED
      BY <1>1, <1>6, <2>4, <3>1, <3>3, <3>4, <3>6, <3>7, <3>8, SameChannel DEF Paging, Holds
  <2> QED
    BY <2>5, <2>6, <2>7
<1>9. \A f \in Exporters \ {e} : export'[f] = export[f]
  BY <1>0, <1>5
<1> HIDE DEF rest, y, u, p, z
<1> QED
  BY <1>0, <1>1, <1>8, <1>9, PagingOther

(* A quiet export that is about to upload has packed the channel.           *)
LEMMA QuietIsComplete ==
  ASSUME PagingInv, NEW e \in quiet, export[e].pc = "upload"
  PROVE  export[e].packed = Channel
<1>1. Paging(e)
  BY DEF PagingInv
<1>2. export[e].packed \subseteq Channel
  BY <1>1 DEF Paging
<1>3. ASSUME NEW d \in Rows PROVE Shown(d) \in export[e].packed
  BY <1>1 DEF Paging, Holds
<1>4. Channel \subseteq export[e].packed
  BY <1>3 DEF Channel
<1> QED
  BY <1>2, <1>4

ServedIndInv == AskInv /\ QuietInv /\ PagingInv /\ ServedInv

LEMMA ServedInit == Init => ServedIndInv
<1> SUFFICES ASSUME Init PROVE ServedIndInv
  OBVIOUS
<1>1. quiet = {} /\ ~stored /\ \A r \in Requests : request[r].pc = "idle"
  BY Zenon DEF Init
<1> QED
  BY <1>1 DEF ServedIndInv, AskInv, QuietInv, PagingInv, ServedInv, Requests

(* A request that begins or fails. *)
LEMMA ServedOfOutset ==
  ASSUME TypeOK, ServedIndInv,
         \/ \E r \in Changers, kind \in Kinds, d \in Ids : StartChange(r, kind, d)
         \/ \E r \in Askers : StartExport(r)
         \/ \E r \in Requests : RequestFails(r)
  PROVE  ServedIndInv'
<1> USE DEF ServedIndInv
<1>0. request \in [Requests -> Handler]
  BY DEF TypeOK, Handler
<1>1. ASSUME NEW r \in Changers, NEW kind \in Kinds, NEW d \in Ids, StartChange(r, kind, d)
      PROVE  ServedIndInv'
  <2>1. /\ request[r].pc = "idle" /\ quiet' = {}
        /\ UNCHANGED <<row, data, export, stored, archive, fresh>>
        /\ request'[r].pc \in FirstSteps(kind)
        /\ \A s \in Requests \ {r} : request'[s] = request[s]
    BY <1>0, <1>1 DEF StartChange, Begin, NoWrite, NoExport, Requests
  <2>2. FirstSteps(kind) \subseteq {"row", "put", "cancel"}
    BY DEF FirstSteps
  <2>3. AskInv'
    BY <2>1 DEF AskInv, Requests
  <2>4. QuietInv' /\ PagingInv'
    BY <2>1 DEF QuietInv, PagingInv
  <2>5. ServedInv'
    BY <2>1, <2>2, ServedKept DEF Owing, Behind, Requests
  <2> QED
    BY <2>3, <2>4, <2>5
<1>2. ASSUME NEW r \in Askers, StartExport(r)
      PROVE  ServedIndInv'
  <2>1. /\ UNCHANGED <<row, data, export, stored, archive, fresh, quiet>>
        /\ request'[r].pc = "ask"
        /\ \A s \in Requests \ {r} : request'[s] = request[s]
    BY <1>0, <1>2 DEF StartExport, Begin, NoWrite, NoExport, Requests
  <2>2. \A s \in Changers : request'[s] = request[s]
    BY <2>1 DEF Requests
  <2>3. AskInv'
    BY <2>1 DEF AskInv, Requests
  <2>4. QuietInv'
    BY <2>1, <2>2 DEF QuietInv, Changing
  <2>5. ServedInv'
    BY <2>1, <2>2, ServedKept
  <2>6. PagingInv'
    BY <2>1, PagingKept
  <2> QED
    BY <2>3, <2>4, <2>5, <2>6
<1>3. ASSUME NEW r \in Requests, RequestFails(r)
      PROVE  ServedIndInv'
  <2>1. /\ r \in Changing /\ quiet' = {} /\ fresh' = FALSE
        /\ \A s \in Requests \ {r} : request'[s] = request[s]
    BY <1>3, FailTypes DEF RequestFails, Moves
  <2>2. AskInv'
    BY <2>1 DEF AskInv, Requests, Changing
  <2>3. QuietInv' /\ PagingInv' /\ ServedInv'
    BY <2>1 DEF QuietInv, PagingInv, ServedInv
  <2> QED
    BY <2>2, <2>3
<1> QED
  BY <1>1, <1>2, <1>3

(* A request that writes is one that changes the channel, so no export is   *)
(* quiet then.                                                              *)
LEMMA ServedOfWork ==
  ASSUME TypeOK, ServedIndInv, NEW r \in Requests, RequestStep(r)
  PROVE  ServedIndInv'
<1>1. /\ export' = export /\ quiet' = quiet /\ request[r].pc \notin {"idle", "done"}
      /\ \A s \in Requests \ {r} : request'[s] = request[s]
      /\ r \notin Changers => /\ request'[r].pc \in {"enqueue", "done"}
                              /\ UNCHANGED <<row, data, stored, archive, fresh>>
  BY RequestMoves DEF ServedIndInv
<1>2. ServedInv'
  BY ServedOfRequest DEF ServedIndInv
<1>3. AskInv'
  BY <1>1 DEF ServedIndInv, AskInv, Requests
<1>4. QuietInv'
  BY <1>1 DEF ServedIndInv, QuietInv, Changing, Requests
<1>5. PagingInv'
  <2>1. CASE r \in Changers
    <3>1. quiet = {}
      BY <1>1, <2>1 DEF ServedIndInv, QuietInv, Changing
    <3> QED
      BY <1>1, <3>1 DEF PagingInv
  <2>2. CASE r \notin Changers
    BY <1>1, <2>2, PagingKept DEF ServedIndInv
  <2> QED
    BY <2>1, <2>2
<1> QED
  BY <1>2, <1>3, <1>4, <1>5 DEF ServedIndInv

(* An export that begins is quiet when no request changes the channel then; *)
(* one that is quiet writes the channel.                                    *)
LEMMA ServedOfExport ==
  ASSUME TypeOK, ServedIndInv, NEW e \in Exporters,
         Pick(e) \/ ExportStep(e) \/ ExportFails(e) \/ LoseStream(e) \/ Abandon(e)
  PROVE  ServedIndInv'
<1>0. export \in [Exporters -> ExportType] /\ quiet \subseteq Exporters
  BY DEF TypeOK, ExportType
<1>1. UNCHANGED <<row, data, request>>
  BY DEF Pick, ExportStep, ListPage, ReadPart, PackDocument, Upload, FinishExport, ExportFails,
         LoseStream, Abandon, Leave, NoWrite
<1>2. AskInv'
  BY <1>1 DEF ServedIndInv, AskInv
<1>3. quiet' \subseteq quiet \/ Changing = {}
  BY DEF Pick, ExportStep, ListPage, ReadPart, PackDocument, Upload, FinishExport, ExportFails,
         LoseStream, Abandon, Leave
<1>4. QuietInv'
  BY <1>1, <1>3 DEF ServedIndInv, QuietInv, Changing
<1>5. ASSUME UNCHANGED <<stored, archive, fresh>>
      PROVE  ServedInv'
  BY <1>1, <1>5, ServedKept DEF ServedIndInv
<1>6. CASE Pick(e)
  <2>1. /\ export'[e] = [Idle EXCEPT !.pc = "list"] /\ quiet' \subseteq quiet \union {e}
        /\ \A f \in Exporters \ {e} : export'[f] = export[f]
    BY <1>0, <1>6 DEF Pick
  <2>2. /\ export'[e].page = {} /\ export'[e].batch = {} /\ export'[e].packed = {}
        /\ export'[e].offset = 0 /\ export'[e].pc = "list"
    BY <2>1 DEF Idle
  <2>5. \A d \in Rows : ~(RowRank[d] < 0)
    BY RowRanks
  <2>6. Paging(e)'
    BY <1>1, <2>2, <2>5, SameChannel DEF Paging
  <2>7. PagingInv'
    BY <1>0, <1>1, <2>1, <2>6, PagingOther DEF ServedIndInv
  <2> QED
    BY <1>2, <1>4, <1>5, <1>6, <2>7 DEF Pick, ServedIndInv
<1>7. CASE ListPage(e)
  BY <1>2, <1>4, <1>5, <1>7, ListPaging DEF ListPage, ServedIndInv
<1>8. CASE ReadPart(e) \/ PackDocument(e)
  BY <1>2, <1>4, <1>5, <1>8, ReadPaging, PackPaging DEF ReadPart, PackDocument, ServedIndInv
<1>9. CASE Upload(e)
  <2>1. /\ export[e].pc = "upload" /\ quiet' = quiet
        /\ archive' = export[e].packed /\ fresh' = (e \in quiet)
    BY <1>9 DEF Upload
  <2>2. /\ export'[e].page = export[e].page /\ export'[e].batch = export[e].batch
        /\ export'[e].packed = export[e].packed /\ export'[e].offset = export[e].offset
        /\ export'[e].pc = "published"
        /\ \A f \in Exporters \ {e} : export'[f] = export[f]
    BY <1>0, <1>9 DEF Upload, ExportType
  <2>5. ASSUME e \in quiet
        PROVE  Paging(e)'
    <3>1. Paging(e)
      BY <2>5 DEF ServedIndInv, PagingInv
    <3> QED
      BY <1>1, <2>2, <3>1, SameChannel DEF Paging, Holds
  <2>6. PagingInv'
    BY <1>0, <1>1, <2>1, <2>2, <2>5, PagingOther DEF ServedIndInv
  <2>7. ServedInv'
    <3>1. CASE e \notin quiet
      BY <2>1, <3>1 DEF ServedInv
    <3>2. CASE e \in quiet
      <4>1. Changing = {}
        BY <3>2 DEF ServedIndInv, QuietInv
      <4>2. \A r \in Changers : request'[r].pc \notin Behind
        BY <1>1, <4>1 DEF Changing, Behind
      <4>3. archive' = Channel'
        BY <1>1, <2>1, <3>2, QuietIsComplete, SameChannel DEF ServedIndInv
      <4> QED
        BY <4>2, <4>3 DEF ServedInv
    <3> QED
      BY <3>1, <3>2
  <2> QED
    BY <1>2, <1>4, <2>6, <2>7 DEF ServedIndInv
<1>10. CASE FinishExport(e) \/ ExportFails(e) \/ Abandon(e)
  <2>1. /\ export' = [export EXCEPT ![e] = Idle] /\ quiet' = quiet \ {e}
        /\ UNCHANGED <<stored, archive, fresh>>
    BY <1>10 DEF FinishExport, ExportFails, Abandon, Leave
  <2>2. \A f \in Exporters \ {e} : export'[f] = export[f]
    BY <1>0, <2>1
  <2>3. PagingInv'
    BY <1>0, <1>1, <2>1, <2>2, PagingOther DEF ServedIndInv
  <2> QED
    BY <1>2, <1>4, <1>5, <2>1, <2>3 DEF ServedIndInv
<1>11. CASE LoseStream(e)
  <2>1. UNCHANGED <<export, quiet, stored, archive, fresh>>
    BY <1>11 DEF LoseStream
  <2>2. PagingInv'
    BY <1>1, <2>1, PagingKept DEF ServedIndInv
  <2> QED
    BY <1>2, <1>4, <1>5, <2>1, <2>2 DEF ServedIndInv
<1> QED
  BY <1>6, <1>7, <1>8, <1>9, <1>10, <1>11 DEF ExportStep

LEMMA ServedNext == TypeOK /\ ServedIndInv /\ [Next]_vars => ServedIndInv'
<1> SUFFICES ASSUME TypeOK, ServedIndInv, [Next]_vars PROVE ServedIndInv'
  OBVIOUS
<1>1. CASE UNCHANGED vars
  <2>1. AskInv' /\ QuietInv'
    BY <1>1 DEF vars, ServedIndInv, AskInv, QuietInv, Changing
  <2>2. PagingInv'
    BY <1>1, PagingKept DEF vars, ServedIndInv
  <2>3. ServedInv'
    BY <1>1, ServedKept DEF vars, ServedIndInv
  <2> QED
    BY <2>1, <2>2, <2>3 DEF ServedIndInv
<1>2. CASE \E r \in Requests : RequestStep(r)
  BY <1>2, ServedOfWork
<1>3. CASE \/ \E r \in Changers, kind \in Kinds, d \in Ids : StartChange(r, kind, d)
           \/ \E r \in Askers : StartExport(r)
           \/ \E r \in Requests : RequestFails(r)
  BY <1>3, ServedOfOutset
<1>4. ASSUME NEW e \in Exporters,
             Pick(e) \/ ExportStep(e) \/ ExportFails(e) \/ LoseStream(e) \/ Abandon(e)
      PROVE  ServedIndInv'
  BY <1>4, ServedOfExport
<1> QED
  BY <1>1, <1>2, <1>3, <1>4 DEF Next

(* What is owed a reset is still being changed. *)
LEMMA ServedImplies == ServedIndInv => ServedIsCurrent
BY DEF ServedIndInv, ServedInv, ServedIsCurrent, Changing, Owing

(* An archive that an export wrote undisturbed is the channel for as long   *)
(* as it is served: the pages of _iter_documents and the batches of         *)
(* batched_async lose no document whatever their sizes, and every change    *)
(* resets the archive (_reset_channel_export_archive) before it ends.       *)
THEOREM ServedIsCurrentCorrect == Spec => []ServedIsCurrent
<1>1. Init => TypeOK /\ ServedIndInv
  BY InitType, ServedInit
<1>2. TypeOK /\ ServedIndInv /\ [Next]_vars => (TypeOK /\ ServedIndInv)'
  BY NextType, ServedNext
<1> QED
  BY <1>1, <1>2, ServedImplies, PTL DEF Spec
============================================================================
