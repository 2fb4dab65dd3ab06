---------------------- MODULE DocumentLifecycleProofs ----------------------
(***************************************************************************)
(* Proofs about DocumentLifecycle, for any number of processes, contents,  *)
(* parts, indexes, attempts and faults.                                    *)
(***************************************************************************)
EXTENDS DocumentLifecycle, TLAPS

\* The part of TypeOK about the program's own state ...
CoreOK ==
  /\ status \in Statuses \union {"absent"}
  /\ etag \in Content0
  /\ file \in Content0
  /\ chunks \in [Parts -> Content0]
  /\ records \in [Indexes -> [Entries -> Nat]]
  /\ job \in Jobs
  /\ pc \in [Procs -> Labels]
  /\ loc \in [Procs -> Locals]

\* ... and the part about the history.
HistoryOK ==
  /\ clean \in [Procs -> BOOLEAN] /\ base \in [Procs -> BOOLEAN]
  /\ verified \in BOOLEAN /\ erased \in BOOLEAN

(***************************************************************************)
(* Lemmas about the helpers.                                               *)
(***************************************************************************)

\* A process that rests leaves well-typed control state and locals.
LEMMA RestType ==
  ASSUME CoreOK, NEW p \in Procs, Rest(p)
  PROVE  pc' \in [Procs -> Labels] /\ loc' \in [Procs -> Locals]
<1>1. Resting \in Locals
  <2>1. 1 \in Parts BY LifecycleAssumption DEF Parts
  <2> QED BY <2>1 DEF Resting, Locals, NoBuffer, Content0, Statuses
<1> QED BY <1>1 DEF CoreOK, Rest, Goto, Labels

\* The helpers that compute a new job return jobs.
LEMMA JobTypes ==
  ASSUME CoreOK
  PROVE  NoJob \in Jobs /\ Retried \in Jobs /\ CutOff \in Jobs
<1>1. MaxAttempts \in Nat /\ MaxAttempts > 0
  BY LifecycleAssumption
<1>2. NoJob \in Jobs
  BY <1>1 DEF NoJob, Jobs
<1>3. Retried \in Jobs
  <2>1. job \in Jobs
    BY DEF CoreOK
  <2>2. job.attempts \in 0..(MaxAttempts - 1)
    BY <2>1 DEF Jobs
  <2>3. CASE job.attempts + 1 < MaxAttempts
    <3>1. job.attempts + 1 \in 0..(MaxAttempts - 1)
      BY <1>1, <2>2, <2>3
    <3> QED BY <2>1, <2>3, <3>1 DEF Retried, Jobs
  <2>4. CASE ~(job.attempts + 1 < MaxAttempts)
    BY <1>2, <2>4 DEF Retried
  <2> QED BY <2>3, <2>4
<1> QED BY <1>2, <1>3 DEF CoreOK, Jobs, CutOff

\* Emptying an index leaves well-typed records.
LEMMA EmptiedType ==
  ASSUME CoreOK, NEW i
  PROVE  Emptied(i) \in [Indexes -> [Entries -> Nat]]
BY DEF CoreOK, Emptied, Empty

\* The bookkeeping of a step keeps the type of the history.
LEMMA TrackType ==
  ASSUME TypeOK, NEW p \in Procs, NEW v \in BOOLEAN, NEW e \in BOOLEAN, Track(p, v, e)
  PROVE  HistoryOK'
<1>1. clean' \in [Procs -> BOOLEAN]
  BY Zenon DEF TypeOK, Track
<1>2. base' \in [Procs -> BOOLEAN]
  BY Zenon DEF TypeOK, Track
<1> QED BY <1>1, <1>2, Zenon DEF Track, HistoryOK

(***************************************************************************)
(* Type correctness: one lemma per group of actions.                       *)
(***************************************************************************)
LEMMA RequestType ==
  ASSUME CoreOK, NEW p \in Procs, Request(p) \/ Dispatch(p)
  PROVE  CoreOK'
<1> DEFINE L(r) == r \in Locals
<1>0. Resting \in Locals
  <2>1. 1 \in Parts BY LifecycleAssumption DEF Parts
  <2> QED BY <2>1 DEF Resting, Locals, NoBuffer, Content0, Statuses
<1>1. ASSUME NEW c \in Contents, NEW o \in BOOLEAN, CreateStart(p, c, o) PROVE CoreOK'
  <2>1. [Resting EXCEPT !.op = "create", !.content = c] \in Locals
    BY <1>0 DEF Locals, Content0
  <2> QED BY <1>1, <2>1 DEF CoreOK, CreateStart, Goto, Labels, store
<1>2. ASSUME NEW c \in Content0, UpdateStart(p, c) PROVE CoreOK'
  <2>1. [Resting EXCEPT !.op = "update", !.content = c, !.seen = status, !.seenEtag = etag] \in Locals
    BY <1>0 DEF Locals, CoreOK
  <2> QED BY <1>2, <2>1 DEF CoreOK, UpdateStart, Goto, Labels, store
<1>3. ASSUME DeleteStart(p) PROVE CoreOK'
  <2>1. [Resting EXCEPT !.op = "delete", !.todo = Indexes \union {Chunks}] \in Locals
    BY <1>0 DEF Locals
  <2> QED BY <1>3, <2>1 DEF CoreOK, DeleteStart, Goto, Labels, store
<1>4. ASSUME NEW names \in SUBSET Indexes, NEW force \in ForceModes, ReindexStart(p, names, force)
      PROVE  CoreOK'
  <2>1. [Resting EXCEPT !.op = "reindex", !.names = names, !.force = force] \in Locals
    BY <1>0, LifecycleAssumption DEF Locals
  <2> QED BY <1>4, <2>1 DEF CoreOK, ReindexStart, Goto, Labels, store
<1>5. ASSUME Dispatch(p) PROVE CoreOK'
  <2>1. job \in Jobs
    BY DEF CoreOK
  <2>2. [Resting EXCEPT !.op = "job", !.force = job.force, !.names = job.names] \in Locals
    BY <1>0, <2>1 DEF Locals, Jobs
  <2>3. [job EXCEPT !.state = "picked", !.owner = p] \in Jobs
    BY <2>1 DEF Jobs
  <2> QED BY <1>5, <2>2, <2>3 DEF CoreOK, Dispatch, Goto, Labels, store
<1> QED BY <1>1, <1>2, <1>3, <1>4, <1>5 DEF Request

LEMMA RequestStepType ==
  ASSUME CoreOK, NEW p \in Procs, RequestStep(p)
  PROVE  CoreOK'
<1>0. loc[p] \in Locals
  BY DEF CoreOK
<1>1. ASSUME PutFile(p) PROVE CoreOK'
  BY <1>0, <1>1 DEF CoreOK, PutFile, Goto, Labels, Locals
<1>2. ASSUME FindByUrl(p) PROVE CoreOK'
  <2>1. [loc[p] EXCEPT !.seen = status, !.seenEtag = etag] \in Locals
    BY <1>0 DEF CoreOK, Locals
  <2> QED BY <1>2, <2>1 DEF CoreOK, FindByUrl, Goto, Labels, store
<1>3. ASSUME InsertRow(p) PROVE CoreOK'
  <2>1. [loc[p] EXCEPT !.seen = "created", !.todo = Indexes \union {Chunks}] \in Locals
    BY <1>0 DEF Locals, Statuses
  <2>2. loc[p].content \in Content0
    BY <1>0 DEF Locals
  <2>3. status' \in Statuses \union {"absent"} /\ etag' \in Content0
    BY <1>3, <2>2 DEF CoreOK, InsertRow, Statuses
  <2>4. pc' \in [Procs -> Labels] /\ loc' \in [Procs -> Locals]
    BY <1>3, <2>1, RestType DEF CoreOK, InsertRow, Goto, Labels
  <2> QED BY <1>3, <2>3, <2>4 DEF CoreOK, InsertRow
<1>4. ASSUME NEW touched \in BOOLEAN, WriteRow(p, touched) PROVE CoreOK'
  <2>1. status' \in Statuses \union {"absent"} /\ etag' \in Content0
    BY <1>0, <1>4 DEF CoreOK, WriteRow, WrittenStatus, Statuses, Locals
  <2>2. ReturnedStatus(p, touched) \in Statuses \union {"absent"}
    BY <1>0 DEF CoreOK, ReturnedStatus, WrittenStatus, Statuses, Locals
  <2>3. [loc[p] EXCEPT !.seen = ReturnedStatus(p, touched), !.todo = Indexes \union {Chunks}] \in Locals
    BY <1>0, <2>2 DEF Locals
  <2>4. pc' \in [Procs -> Labels] /\ loc' \in [Procs -> Locals]
    BY <1>4, <2>3, RestType DEF CoreOK, WriteRow, Goto, Labels
  <2> QED BY <1>4, <2>1, <2>4 DEF CoreOK, WriteRow
<1>5. ASSUME WriteStale(p) PROVE CoreOK'
  BY <1>5, RestType DEF CoreOK, WriteStale, store
<1>6. ASSUME NEW t, NEW next \in Labels, TaskDone(p, t, next)
      PROVE  pc' \in [Procs -> Labels] /\ loc' \in [Procs -> Locals]
  <2>1. [loc[p] EXCEPT !.todo = @ \ {t}] \in Locals
    BY <1>0 DEF Locals
  <2>2. pc[p] \in Labels
    BY DEF CoreOK
  <2> QED BY <1>6, <2>1, <2>2 DEF CoreOK, TaskDone, Goto
<1>7. AfterWipe(p) \in Labels
  BY DEF AfterWipe, Labels
<1>8. ASSUME NEW i \in Indexes, WipeIndex(p, i) PROVE CoreOK'
  BY <1>6, <1>7, <1>8, EmptiedType DEF CoreOK, WipeIndex
<1>9. ASSUME WipeChunks(p) PROVE CoreOK'
  <2>1. NoChunks \in [Parts -> Content0]
    BY DEF NoChunks, Content0
  <2> QED BY <1>6, <1>7, <1>9, <2>1 DEF CoreOK, WipeChunks
<1>10. ASSUME EraseFile(p) PROVE CoreOK'
  BY <1>10, RestType DEF CoreOK, EraseFile, Goto, Labels, Content0
<1>11. ASSUME NEW access \in AccessModes, Submit(p, access) PROVE CoreOK'
  <2>1. [state |-> "queued", force |-> loc[p].force, names |-> loc[p].names,
         attempts |-> 0, owner |-> NoProc] \in Jobs
    BY <1>0, LifecycleAssumption DEF Locals, Jobs
  <2> QED BY <1>11, <2>1, RestType DEF CoreOK, Submit, Goto, Labels, store
<1> QED
  BY <1>1, <1>2, <1>3, <1>4, <1>5, <1>8, <1>9, <1>10, <1>11 DEF RequestStep

LEMMA RunStepType ==
  ASSUME CoreOK, NEW p \in Procs, RunStep(p) \/ FinishIndexing(p)
  PROVE  CoreOK'
<1>0. loc[p] \in Locals /\ pc[p] \in Labels
  BY DEF CoreOK
<1>1. ASSUME NEW s \in Statuses, SetStatus(s) PROVE status' \in Statuses \union {"absent"}
  BY <1>1 DEF CoreOK, SetStatus
<1>2. ASSUME Load(p) PROVE CoreOK'
  <2>1. [loc[p] EXCEPT !.seen = status] \in Locals
    BY <1>0 DEF CoreOK, Locals
  <2> QED BY <1>2, <2>1, RestType DEF CoreOK, Load, Goto, Labels, store
<1>3. ASSUME StartProcessing(p) PROVE CoreOK'
  <2>1. [loc[p] EXCEPT !.full = TRUE] \in Locals
    BY <1>0 DEF Locals
  <2> QED BY <1>1, <1>3, <2>1 DEF CoreOK, StartProcessing, Goto, Labels, Statuses
<1>4. NoChunks \in [Parts -> Content0] /\ NoBuffer \in [Sources -> Content0]
  BY DEF NoChunks, NoBuffer, Content0
<1>5. ASSUME ClearChunks(p) PROVE CoreOK'
  BY <1>4, <1>5 DEF CoreOK, ClearChunks, Goto, Labels
<1>6. ASSUME NEW s PROVE [loc[p] EXCEPT !.buf[s] = file] \in Locals
  BY <1>0 DEF CoreOK, Locals
<1>7. ASSUME Extract(p) PROVE CoreOK'
  BY <1>6, <1>7 DEF CoreOK, Extract, Goto, Labels, store
<1>8. ASSUME SaveChunks(p) PROVE CoreOK'
  <2>1. loc[p].part \in Parts /\ loc[p].buf[loc[p].part] \in Content0
    BY <1>0 DEF Locals, Sources
  <2>2. chunks' \in [Parts -> Content0]
    BY <1>8, <2>1 DEF CoreOK, SaveChunks
  <2>3. ASSUME loc[p].part # NumParts PROVE [loc[p] EXCEPT !.part = @ + 1] \in Locals
    <3>1. loc[p].part + 1 \in Parts
      BY <2>1, <2>3, LifecycleAssumption DEF Parts
    <3> QED BY <1>0, <3>1 DEF Locals
  <2>4. loc' \in [Procs -> Locals]
    BY <1>8, <2>3 DEF CoreOK, SaveChunks
  <2>5. pc' \in [Procs -> Labels]
    BY <1>8 DEF CoreOK, SaveChunks, Goto, Labels
  <2> QED BY <1>8, <2>2, <2>4, <2>5 DEF CoreOK, SaveChunks
<1>9. ASSUME FinishProcessing(p) PROVE CoreOK'
  <2>1. [loc[p] EXCEPT !.names = {}] \in Locals
    BY <1>0 DEF Locals
  <2> QED BY <1>1, <1>9, <2>1 DEF CoreOK, FinishProcessing, Goto, Labels, Statuses
<1>10. Chosen(loc[p].names) \subseteq Indexes
  BY <1>0 DEF Chosen, Locals
<1>11. ASSUME StartIndexing(p) PROVE CoreOK'
  <2>1. [loc[p] EXCEPT !.todo = Chosen(loc[p].names), !.buf = NoBuffer] \in Locals
    BY <1>0, <1>4, <1>10 DEF Locals
  <2> QED BY <1>1, <1>11, <2>1 DEF CoreOK, StartIndexing, Goto, Labels, Statuses
<1>12. ASSUME NEW i \in Indexes, RemoveRecords(p, i) PROVE CoreOK'
  <2>1. [loc[p] EXCEPT !.todo = Chosen(loc[p].names) \union {Chunks}] \in Locals
    BY <1>0, <1>10 DEF Locals
  <2>2. [loc[p] EXCEPT !.todo = @ \ {i}] \in Locals
    BY <1>0 DEF Locals
  <2>3. pc' \in [Procs -> Labels] /\ loc' \in [Procs -> Locals]
    BY <1>12, <2>1, <2>2 DEF CoreOK, RemoveRecords, Goto, Labels
  <2> QED BY <1>12, <2>3, EmptiedType DEF CoreOK, RemoveRecords
<1>13. ASSUME ReadChunks(p) PROVE CoreOK'
  <2>1. [s \in Sources |-> IF s \in Parts THEN chunks[s] ELSE loc[p].buf[s]] \in [Sources -> Content0]
    BY <1>0 DEF CoreOK, Locals
  <2>2. [loc[p] EXCEPT !.buf = [s \in Sources |-> IF s \in Parts THEN chunks[s] ELSE @[s]],
                       !.todo = @ \ {Chunks}] \in Locals
    BY <1>0, <2>1 DEF Locals
  <2> QED BY <1>13, <2>2 DEF CoreOK, ReadChunks, Goto, Labels, store
<1>14. ASSUME NEW i \in Indexes, ReadDocument(p, i) PROVE CoreOK'
  BY <1>6, <1>14 DEF CoreOK, ReadDocument, Goto, Labels, store
<1>15. ASSUME NEW i \in Indexes, AddRecords(p, i) PROVE CoreOK'
  <2> DEFINE new == [e \in Entries |-> records[i][e] +
                      IF e[1] \in Feeds(i) /\ loc[p].buf[e[1]] = e[2] THEN 1 ELSE 0]
  <2>1. new \in [Entries -> Nat]
    <3>1. \A e \in Entries : records[i][e] \in Nat
      BY DEF CoreOK
    <3> QED BY <3>1
  <2>2. records' = [records EXCEPT ![i] = new]
    BY <1>15 DEF AddRecords
  <2>3. records' \in [Indexes -> [Entries -> Nat]]
    <3> HIDE DEF new
    <3> QED BY <2>1, <2>2 DEF CoreOK
  <2>4. [loc[p] EXCEPT !.todo = @ \ {i}] \in Locals
    BY <1>0 DEF Locals
  <2>5. pc' \in [Procs -> Labels] /\ loc' \in [Procs -> Locals]
    BY <1>0, <1>15, <2>4 DEF CoreOK, AddRecords, TaskDone, Goto, Labels
  <2> QED BY <1>15, <2>3, <2>5 DEF CoreOK, AddRecords
<1>16. ASSUME SetError(p) PROVE CoreOK'
  BY <1>1, <1>16, RestType DEF CoreOK, SetError, Goto, Labels, Statuses
<1>17. ASSUME FinishIndexing(p) PROVE CoreOK'
  BY <1>1, <1>17, RestType DEF CoreOK, FinishIndexing, Goto, Labels, Statuses
<1> QED
  BY <1>2, <1>3, <1>5, <1>7, <1>8, <1>9, <1>11, <1>12, <1>13, <1>14, <1>15, <1>16, <1>17 DEF RunStep

LEMMA OtherType ==
  ASSUME TypeOK, NEW p \in Procs, CommitDelete(p) \/ JobEnd(p) \/ RunFails(p) \/ RunStops(p) \/ Abort(p) \/ Disconnect(p)
  PROVE  CoreOK'
<1>0. CoreOK
  BY DEF TypeOK, CoreOK
<1>1. ASSUME CommitDelete(p) PROVE CoreOK'
  BY <1>0, <1>1, RestType DEF CoreOK, CommitDelete, NoChunks, Content0
<1>2. ASSUME JobEnd(p) PROVE CoreOK'
  BY <1>0, <1>2, RestType, JobTypes DEF CoreOK, JobEnd, store
<1>3. ASSUME RunFails(p) \/ RunStops(p) PROVE CoreOK'
  BY <1>0, <1>3 DEF CoreOK, RunFails, RunStops, Goto, Labels, store
<1>4. ASSUME Abort(p) PROVE CoreOK'
  <2>1. job' \in Jobs
    BY <1>0, <1>4, JobTypes DEF CoreOK, Abort
  <2> QED BY <1>0, <1>4, <2>1, RestType DEF CoreOK, Abort, store
<1>5. ASSUME Disconnect(p) PROVE CoreOK'
  <2>1. job' \in Jobs
    BY <1>0, <1>5, JobTypes DEF CoreOK, Disconnect
  <2> QED BY <1>0, <1>5, <2>1 DEF CoreOK, Disconnect, store
<1> QED BY <1>1, <1>2, <1>3, <1>4, <1>5

\* A fault is counted, and never one too many.
LEMMA FaultType ==
  ASSUME TypeOK, NEW p \in Procs, RunFails(p) \/ RunStops(p) \/ Abort(p) \/ Disconnect(p)
  PROVE  faults' \in 0..MaxFaults /\ lost' \in BOOLEAN
<1>1. ASSUME NEW kind, Fault(kind) PROVE faults' \in 0..MaxFaults
  BY <1>1, LifecycleAssumption DEF TypeOK, Fault
<1>2. faults' \in 0..MaxFaults
  BY <1>1 DEF TypeOK, RunFails, RunStops, Abort, Disconnect
<1>3. lost' \in BOOLEAN
  BY Zenon DEF TypeOK, RunFails, RunStops, Abort, Disconnect
<1> QED BY <1>2, <1>3

LEMMA TypeInit == Init => TypeOK
<1> SUFFICES ASSUME Init PROVE TypeOK
  OBVIOUS
<1>1. Resting \in Locals
  <2>1. 1 \in Parts BY LifecycleAssumption DEF Parts
  <2> QED BY <2>1 DEF Resting, Locals, NoBuffer, Content0, Statuses
<1>2. NoJob \in Jobs
  BY LifecycleAssumption DEF NoJob, Jobs
<1>3. faults \in 0..MaxFaults
  BY LifecycleAssumption DEF Init
<1>4. CoreOK
  BY <1>1, <1>2 DEF Init, CoreOK, NoChunks, Empty, Content0, Labels
<1>5. HistoryOK
  BY DEF Init, HistoryOK
<1>6. lost \in BOOLEAN
  BY DEF Init
<1> QED BY <1>3, <1>4, <1>5, <1>6 DEF TypeOK, CoreOK, HistoryOK

LEMMA TypeStep == TypeOK /\ [Next]_vars => TypeOK'
<1> SUFFICES ASSUME TypeOK, [Next]_vars PROVE TypeOK'
  OBVIOUS
<1> USE DEF Calm
<1>0. CoreOK /\ HistoryOK /\ faults \in 0..MaxFaults /\ lost \in BOOLEAN
  BY DEF TypeOK, CoreOK, HistoryOK
<1>1. SUFFICES CoreOK' /\ HistoryOK' /\ faults' \in 0..MaxFaults /\ lost' \in BOOLEAN
  BY DEF TypeOK, CoreOK, HistoryOK
<1>2. ASSUME NEW p \in Procs, Tracked(p) PROVE HistoryOK'
  <2>1. (verified /\ data' = data) \in BOOLEAN /\ (erased /\ data' = data) \in BOOLEAN
    OBVIOUS
  <2> QED BY <1>2, <2>1, TrackType DEF Tracked
<1>3. ASSUME NEW p \in Procs, Begin(p) \/ Pick(p)
      PROVE  CoreOK' /\ HistoryOK' /\ faults' \in 0..MaxFaults /\ lost' \in BOOLEAN
  BY <1>0, <1>2, <1>3, RequestType DEF Begin, Pick
<1>4. ASSUME NEW p \in Procs, Advance(p)
      PROVE  CoreOK' /\ HistoryOK' /\ faults' \in 0..MaxFaults /\ lost' \in BOOLEAN
  BY <1>0, <1>2, <1>4, RequestStepType, RunStepType, OtherType DEF Advance
<1>5. ASSUME NEW p \in Procs, Complete(p)
      PROVE  CoreOK' /\ HistoryOK' /\ faults' \in 0..MaxFaults /\ lost' \in BOOLEAN
  <2>1. (clean[p] /\ (loc[p].full \/ base[p])) \in BOOLEAN /\ erased \in BOOLEAN
    BY Zenon DEF TypeOK
  <2>2. HistoryOK'
    BY <1>5, <2>1, TrackType DEF Complete
  <2> QED BY <1>0, <1>5, <2>2, RunStepType DEF Complete
<1>6. ASSUME NEW p \in Procs, Delete(p)
      PROVE  CoreOK' /\ HistoryOK' /\ faults' \in 0..MaxFaults /\ lost' \in BOOLEAN
  <2>1. FALSE \in BOOLEAN /\ clean[p] \in BOOLEAN
    BY DEF TypeOK
  <2>2. HistoryOK'
    BY <1>6, <2>1, TrackType DEF Delete
  <2> QED BY <1>0, <1>6, <2>2, OtherType DEF Delete
<1>7. ASSUME NEW p \in Procs, Break(p)
      PROVE  CoreOK' /\ HistoryOK' /\ faults' \in 0..MaxFaults /\ lost' \in BOOLEAN
  BY <1>2, <1>7, OtherType, FaultType DEF Break
<1>8. CASE JobLost
  BY <1>0, <1>8, JobTypes DEF JobLost, CoreOK, HistoryOK, store, history
<1>9. CASE UNCHANGED vars
  BY <1>0, <1>9 DEF vars, CoreOK, HistoryOK, store, history
<1> QED BY <1>3, <1>4, <1>5, <1>6, <1>7, <1>8, <1>9 DEF Next, Procs

\* Every reachable state is well typed.  In particular no attempt of a job is
\* numbered max_attempts or above, whatever streams break and runs fail.
THEOREM TypeCorrect == Spec => []TypeOK
<1>1. Init => TypeOK
  BY TypeInit
<1>2. TypeOK /\ [Next]_vars => TypeOK'
  BY TypeStep
<1> QED BY <1>1, <1>2, PTL DEF Spec

(***************************************************************************)
(* Jobs.  OneJobRun is not inductive: it needs to know that a run a job    *)
(* started is the one the worker listens to (job.owner), that the listener *)
(* is cleared whenever the job is not picked, and that a process running a *)
(* job is never in the midst of a request.                                 *)
(***************************************************************************)
JobLabels == Running \union {"load", "ok", "err"}

JobInv ==
  /\ job.state # "picked" => job.owner = NoProc
  /\ \A p \in Procs : loc[p].op = "job" => pc[p] \in JobLabels
  /\ \A p \in Procs : job.owner = p => loc[p].op = "job"
  /\ ~lost => \A p \in Procs : loc[p].op = "job" => job.owner = p

\* What most steps do: the job is left alone, and so is every other process;
\* p keeps its operation, or is not running a job.
Apart(p) ==
  /\ job' = job
  /\ lost' = lost
  /\ \A q \in Procs \ {p} : loc'[q] = loc[q] /\ pc'[q] = pc[q]
  /\ \/ loc'[p].op = loc[p].op /\ (loc[p].op = "job" => pc'[p] \in JobLabels)
     \/ loc[p].op # "job" /\ loc'[p].op # "job"

LEMMA ApartKeeps ==
  ASSUME JobInv, NEW p \in Procs, Apart(p)
  PROVE  JobInv'
<1>1. \A q \in Procs : (loc'[q].op = "job") = (loc[q].op = "job")
  BY DEF Apart
<1>2. \A q \in Procs : loc'[q].op = "job" => pc'[q] \in JobLabels
  BY <1>1 DEF Apart, JobInv
<1> QED BY <1>1, <1>2 DEF JobInv, Apart

LEMMA JobStep == TypeOK /\ JobInv /\ [Next]_vars => JobInv'
<1> SUFFICES ASSUME TypeOK, JobInv, [Next]_vars PROVE JobInv'
  OBVIOUS
<1> pc \in [Procs -> Labels] /\ loc \in [Procs -> Locals] /\ job \in Jobs
  BY DEF TypeOK
<1>0. JobLabels = {"clear", "extract", "save", "unindex", "index", "begin", "parsed", "processed",
                   "finish", "fail", "load", "ok", "err"}
  BY DEF JobLabels, Running, Guarded
<1>1. ASSUME NEW p \in Procs, RequestStep(p), Calm PROVE JobInv'
  <2>1. loc[p].op # "job"
    BY <1>0, <1>1 DEF JobInv, RequestStep, PutFile, FindByUrl, InsertRow, WriteRow, WriteStale,
                      WipeIndex, WipeChunks, EraseFile, Submit
  <2>2. ASSUME Rest(p) PROVE loc'[p].op # "job" /\ \A q \in Procs \ {p} : loc'[q] = loc[q] /\ pc'[q] = pc[q]
    BY <2>2 DEF Rest, Goto, Resting
  <2>3. ASSUME job' = job, loc'[p].op # "job",
               \A q \in Procs \ {p} : loc'[q] = loc[q] /\ pc'[q] = pc[q]
        PROVE  JobInv'
    BY <1>1, <2>1, <2>3, ApartKeeps DEF Apart, Calm
  <2>a. CASE PutFile(p)
    BY <2>1, <2>3, <2>a DEF PutFile, Goto
  <2>b. CASE FindByUrl(p)
    BY <2>1, <2>3, <2>b DEF FindByUrl, Goto, store
  <2>c. CASE InsertRow(p)
    <3>1. CASE Rest(p)
      BY <2>2, <2>3, <2>c, <3>1 DEF InsertRow
    <3>2. CASE ~Rest(p)
      <4>1. job' = job /\ \A q \in Procs \ {p} : loc'[q] = loc[q] /\ pc'[q] = pc[q]
        BY <2>c, <3>2 DEF InsertRow, Goto
      <4>2. loc'[p].op = loc[p].op
        BY <2>c, <3>2 DEF Locals, InsertRow
      <4> QED BY <2>1, <2>3, <4>1, <4>2
    <3> QED BY <3>1, <3>2
  <2>d. ASSUME NEW touched \in BOOLEAN, WriteRow(p, touched) PROVE JobInv'
    <3>1. CASE Rest(p)
      BY <2>2, <2>3, <2>d, <3>1 DEF WriteRow
    <3>2. CASE ~Rest(p)
      <4>1. job' = job /\ \A q \in Procs \ {p} : loc'[q] = loc[q] /\ pc'[q] = pc[q]
        BY <2>d, <3>2 DEF WriteRow, Goto
      <4>2. loc'[p].op = loc[p].op
        BY <2>d, <3>2 DEF Locals, WriteRow
      <4> QED BY <2>1, <2>3, <4>1, <4>2
    <3> QED BY <3>1, <3>2
  <2>e. CASE WriteStale(p)
    BY <2>2, <2>3, <2>e DEF WriteStale, store
  <2>f. ASSUME NEW i \in Indexes, WipeIndex(p, i) PROVE JobInv'
    BY <2>1, <2>3, <2>f DEF WipeIndex, TaskDone, Goto
  <2>g. CASE WipeChunks(p)
    BY <2>1, <2>3, <2>g DEF WipeChunks, TaskDone, Goto
  <2>h. CASE EraseFile(p)
    BY <2>1, <2>2, <2>3, <2>h DEF EraseFile, Goto
  <2>5. ASSUME NEW access \in AccessModes, Submit(p, access), job' = job PROVE JobInv'
    BY <2>1, <2>2, <2>3, <2>5 DEF Submit, Goto
  <2>6. ASSUME NEW access \in AccessModes, Submit(p, access), job' # job PROVE JobInv'
    <3>1. job.state = "none" /\ job'.owner = NoProc /\ Rest(p)
      BY <2>6 DEF Submit, Duplicate
    <3>2. job.owner = NoProc
      BY <3>1 DEF JobInv
    <3>3. NoProc \notin Procs
      BY LifecycleAssumption
    <3>4. lost' = lost
      BY <1>1 DEF Calm
    <3> QED BY <2>2, <3>1, <3>2, <3>3, <3>4 DEF JobInv
  <2> QED
    BY <1>1, <2>a, <2>b, <2>c, <2>d, <2>e, <2>f, <2>g, <2>h, <2>5, <2>6 DEF RequestStep
<1>2. ASSUME NEW p \in Procs, Request(p), Calm PROVE JobInv'
  <2>1. loc[p].op # "job"
    BY <1>0, <1>2 DEF JobInv, Request, CreateStart, UpdateStart, DeleteStart, ReindexStart
  <2>2. Apart(p)
    <3>1. ASSUME NEW c \in Contents, NEW overwrite \in BOOLEAN, CreateStart(p, c, overwrite)
          PROVE  Apart(p)
      BY <1>2, <2>1, <3>1 DEF CreateStart, Goto, Resting, Apart, Calm
    <3>2. ASSUME NEW c \in Content0, UpdateStart(p, c) PROVE Apart(p)
      BY <1>2, <2>1, <3>2 DEF UpdateStart, Goto, Resting, Apart, Calm
    <3>3. CASE DeleteStart(p)
      BY <1>2, <2>1, <3>3 DEF DeleteStart, Goto, Resting, Apart, Calm
    <3>4. ASSUME NEW names \in SUBSET Indexes, NEW force \in ForceModes,
                 ReindexStart(p, names, force)
          PROVE  Apart(p)
      BY <1>2, <2>1, <3>4 DEF ReindexStart, Goto, Resting, Apart, Calm
    <3> QED BY <1>2, <3>1, <3>2, <3>3, <3>4 DEF Request
  <2> QED BY <2>2, ApartKeeps
<1>3. ASSUME NEW p \in Procs, Dispatch(p), Calm PROVE JobInv'
  <2>1. job.owner = NoProc /\ NoProc \notin Procs /\ lost' = lost
    BY <1>3, LifecycleAssumption DEF JobInv, Dispatch, Calm
  <2>2. job'.owner = p /\ job'.state = "picked"
    BY <1>3 DEF Dispatch, Jobs
  <2>3. loc'[p].op = "job" /\ pc'[p] = "load" /\ \A q \in Procs \ {p} : loc'[q] = loc[q] /\ pc'[q] = pc[q]
    BY <1>3 DEF Dispatch, Goto, Resting
  <2> QED BY <1>0, <2>1, <2>2, <2>3 DEF JobInv
<1>4. ASSUME NEW p \in Procs, RunStep(p) \/ FinishIndexing(p), Calm PROVE JobInv'
  <2>1. ASSUME Rest(p) PROVE loc'[p].op # "job" /\ \A q \in Procs \ {p} : loc'[q] = loc[q] /\ pc'[q] = pc[q]
    BY <2>1 DEF Rest, Goto, Resting
  <2>2. ASSUME job' = job, loc'[p].op = loc[p].op, loc[p].op = "job" => pc'[p] \in JobLabels,
               \A q \in Procs \ {p} : loc'[q] = loc[q] /\ pc'[q] = pc[q]
        PROVE  JobInv'
    BY <1>4, <2>2, ApartKeeps DEF Apart, Calm
  <2>3. ASSUME job' = job, loc[p].op # "job", Rest(p) PROVE JobInv'
    BY <1>4, <2>1, <2>3, ApartKeeps DEF Apart, Calm
  <2>a. CASE StartProcessing(p)
    BY <1>0, <2>2, <2>a DEF StartProcessing, Goto
  <2>b. CASE ClearChunks(p)
    BY <1>0, <2>2, <2>b DEF ClearChunks, Goto
  <2>c. CASE Extract(p)
    BY <1>0, <2>2, <2>c DEF Extract, Goto, store
  <2>d. CASE SaveChunks(p)
    <3>1. job' = job /\ \A q \in Procs \ {p} : loc'[q] = loc[q] /\ pc'[q] = pc[q]
      BY <2>d DEF SaveChunks, Goto
    <3>2. pc'[p] \in JobLabels
      BY <1>0, <2>d DEF SaveChunks, Goto
    <3>3. loc'[p].op = loc[p].op
      BY <2>d DEF Locals, SaveChunks
    <3> QED BY <2>2, <3>1, <3>2, <3>3
  <2>e. CASE FinishProcessing(p)
    BY <1>0, <2>2, <2>e DEF FinishProcessing, Goto
  <2>f. CASE StartIndexing(p)
    BY <1>0, <2>2, <2>f DEF StartIndexing, Goto
  <2>g. ASSUME NEW i \in Indexes, RemoveRecords(p, i) PROVE JobInv'
    <3>1. job' = job /\ \A q \in Procs \ {p} : loc'[q] = loc[q] /\ pc'[q] = pc[q]
      BY <2>g DEF RemoveRecords, Goto
    <3>2. pc'[p] \in JobLabels
      BY <1>0, <2>g DEF RemoveRecords, Goto
    <3>3. loc'[p].op = loc[p].op
      BY <2>g DEF Locals, RemoveRecords
    <3> QED BY <2>2, <3>1, <3>2, <3>3
  <2>h. CASE ReadChunks(p)
    BY <1>0, <2>2, <2>h DEF ReadChunks, Goto, store
  <2>i. ASSUME NEW i \in Indexes, ReadDocument(p, i) PROVE JobInv'
    BY <1>0, <2>2, <2>i DEF ReadDocument, Goto, store
  <2>j. ASSUME NEW i \in Indexes, AddRecords(p, i) PROVE JobInv'
    BY <1>0, <2>2, <2>j DEF AddRecords, TaskDone, Goto
  <2>k. CASE Load(p)
    <3>1. CASE status = "absent"
      BY <1>0, <2>2, <2>3, <2>k, <3>1 DEF Load, Goto, store
    <3>2. CASE status # "absent"
      BY <1>0, <2>2, <2>k, <3>2 DEF Locals, Load, Goto, store
    <3> QED BY <3>1, <3>2
  <2>l. CASE SetError(p)
    BY <1>0, <2>2, <2>3, <2>l DEF SetError, Goto
  <2>m. CASE FinishIndexing(p)
    BY <1>0, <2>2, <2>3, <2>m DEF FinishIndexing, Goto
  <2> QED
    BY <1>4, <2>a, <2>b, <2>c, <2>d, <2>e, <2>f, <2>g, <2>h, <2>i, <2>j, <2>k, <2>l, <2>m DEF RunStep
<1>5. ASSUME NEW p \in Procs, CommitDelete(p), Calm PROVE JobInv'
  <2>1. loc[p].op # "job"
    BY <1>0, <1>5 DEF JobInv, CommitDelete
  <2>2. Apart(p)
    BY <1>5, <2>1 DEF CommitDelete, Rest, Goto, Resting, Calm, Apart
  <2> QED BY <2>2, ApartKeeps
<1>6. NoJob.owner = NoProc /\ Retried.owner = NoProc /\ CutOff.owner = NoProc
  BY DEF NoJob, Retried, CutOff, Jobs
<1>7. NoProc \notin Procs
  BY LifecycleAssumption
<1>8. ASSUME NEW p \in Procs, JobEnd(p), Calm PROVE JobInv'
  <2>1. loc'[p].op # "job" /\ \A q \in Procs \ {p} : loc'[q] = loc[q] /\ pc'[q] = pc[q]
    BY <1>8 DEF JobEnd, Rest, Goto, Resting
  <2>2. CASE job.owner = p
    <3>1. job'.owner = NoProc /\ lost' = lost
      BY <1>6, <1>8, <2>2 DEF JobEnd, Calm
    <3> QED BY <1>7, <2>1, <2>2, <3>1 DEF JobInv
  <2>3. CASE job.owner # p
    <3>1. job' = job /\ lost' = lost
      BY <1>8, <2>3 DEF JobEnd, Calm
    <3> QED BY <2>1, <2>3, <3>1 DEF JobInv
  <2> QED BY <2>2, <2>3
<1>9. ASSUME NEW p \in Procs, RunFails(p) \/ RunStops(p) PROVE JobInv'
  <2>1. Apart(p)
    BY <1>0, <1>9 DEF RunFails, RunStops, Goto, store, Apart
  <2> QED BY <2>1, ApartKeeps
<1>10. ASSUME NEW p \in Procs, Abort(p) PROVE JobInv'
  <2>1. loc'[p].op # "job" /\ \A q \in Procs \ {p} : loc'[q] = loc[q] /\ pc'[q] = pc[q]
    BY <1>10 DEF Abort, Rest, Goto, Resting
  <2>2. lost' = (lost \/ loc[p].op = "job" \/ pc[p] \in Running)
    BY <1>10 DEF Abort
  <2>3. CASE job.owner = p
    <3>1. job'.owner = NoProc /\ lost'
      BY <1>6, <1>10, <2>2, <2>3 DEF Abort, JobInv
    <3> QED BY <1>7, <2>1, <3>1 DEF JobInv
  <2>4. CASE job.owner # p
    <3>1. job' = job /\ (~lost' => ~lost)
      BY <1>10, <2>2, <2>4 DEF Abort
    <3> QED BY <2>1, <2>4, <3>1 DEF JobInv
  <2> QED BY <2>3, <2>4
<1>11. ASSUME NEW p \in Procs, Disconnect(p) PROVE JobInv'
  <2>1. job'.owner = NoProc /\ lost' /\ UNCHANGED <<pc, loc>>
    BY <1>6, <1>11 DEF Disconnect
  <2> QED BY <1>7, <2>1 DEF JobInv
<1>12. CASE JobLost
  <2>1. job.owner = NoProc /\ job'.owner = NoProc
    BY <1>6, <1>12 DEF JobLost
  <2> QED BY <1>7, <1>12, <2>1 DEF JobLost, JobInv, store
<1>13. CASE UNCHANGED vars
  BY <1>13 DEF vars, store, JobInv
<1> QED
  BY <1>1, <1>2, <1>3, <1>4, <1>5, <1>8, <1>9, <1>10, <1>11, <1>12, <1>13
     DEF Next, Procs, Begin, Pick, Advance, Complete, Delete, Break

\* The worker and the runs agree on whose the job is.
THEOREM JobCorrect == Spec => []JobInv
<1>1. Init => JobInv
  BY LifecycleAssumption DEF Init, JobInv, NoJob, Resting
<1>2. TypeOK /\ JobInv /\ [Next]_vars => JobInv'
  BY JobStep
<1> QED BY <1>1, <1>2, TypeCorrect, PTL DEF Spec

\* Without a lost connection the document has at most one run that a job
\* started: the dedupe key refuses a second job while one is queued or picked,
\* and a job that leaves the queue has no run left.
THEOREM OneJobRunCorrect == Spec => []OneJobRun
<1>1. JobInv => OneJobRun
  BY DEF JobInv, OneJobRun
<1> QED BY <1>1, JobCorrect, PTL

(***************************************************************************)
(* A status of work in progress has a run behind it.  The invariant is     *)
(* inductive with TypeOK and JobInv: whoever leaves Running writes another *)
(* status, or was deserted by its worker, which `lost` tells.              *)
(***************************************************************************)
LEMMA InProgressStep == TypeOK /\ JobInv /\ InProgressHasRun /\ [Next]_vars => InProgressHasRun'
<1> SUFFICES ASSUME TypeOK, JobInv, InProgressHasRun, [Next]_vars, ~lost',
                    status' \in {"processing", "processed", "indexing"}
             PROVE  \E q \in Procs : pc'[q] \in Running \ {"begin"}
  BY DEF InProgressHasRun
<1> DEFINE Busy == {"clear", "extract", "save", "unindex", "index", "parsed", "processed",
                    "finish", "fail"}
<1>0. Running \ {"begin"} = Busy
  BY DEF Running, Guarded
<1> pc \in [Procs -> Labels]
  BY DEF TypeOK
<1>1. ASSUME status' = status, ~lost,
             NEW p \in Procs, \A q \in Procs \ {p} : pc'[q] = pc[q],
             pc[p] \in Busy => pc'[p] \in Busy
      PROVE  \E q \in Procs : pc'[q] \in Busy
  BY <1>0, <1>1 DEF InProgressHasRun
<1>2. ASSUME NEW p \in Procs, Begin(p) \/ Pick(p) PROVE \E q \in Procs : pc'[q] \in Busy
  <2>1. pc[p] = "idle" /\ status' = status /\ ~lost
    <3>1. (Request(p) \/ Dispatch(p)) /\ Calm
      BY <1>2 DEF Begin, Pick
    <3>2. ~lost
      BY <3>1 DEF Calm
    <3>3. pc[p] = "idle" /\ status' = status
      BY <3>1 DEF Request, CreateStart, UpdateStart, DeleteStart, ReindexStart, Dispatch, store
    <3> QED BY <3>2, <3>3
  <2>2. \A q \in Procs \ {p} : pc'[q] = pc[q]
    BY <1>2 DEF Begin, Pick, Request, CreateStart, UpdateStart, DeleteStart, ReindexStart,
                Dispatch, Goto
  <2> QED BY <1>1, <2>1, <2>2
<1>3. ASSUME NEW p \in Procs, RequestStep(p), Calm PROVE \E q \in Procs : pc'[q] \in Busy
  <2>1. pc[p] \notin Busy /\ status' = status /\ ~lost
    BY <1>3 DEF RequestStep, PutFile, FindByUrl, InsertRow, WriteRow, WriteStale, WipeIndex,
                WipeChunks, EraseFile, Submit, WrittenStatus, store, Calm
  <2>2. \A q \in Procs \ {p} : pc'[q] = pc[q]
    BY <1>3 DEF RequestStep, PutFile, FindByUrl, InsertRow, WriteRow, WriteStale, WipeIndex,
                WipeChunks, EraseFile, Submit, TaskDone, Goto, Rest
  <2> QED BY <1>1, <2>1, <2>2
<1>4. ASSUME NEW p \in Procs, StartProcessing(p) \/ FinishProcessing(p) \/ StartIndexing(p)
      PROVE  \E q \in Procs : pc'[q] \in Busy
  BY <1>4 DEF StartProcessing, FinishProcessing, StartIndexing, Goto
<1>5. ASSUME NEW p \in Procs, Calm,
             \/ ClearChunks(p) \/ Extract(p) \/ SaveChunks(p) \/ ReadChunks(p)
             \/ \E i \in Indexes : RemoveRecords(p, i) \/ ReadDocument(p, i) \/ AddRecords(p, i)
      PROVE  \E q \in Procs : pc'[q] \in Busy
  BY <1>5 DEF ClearChunks, Extract, SaveChunks, ReadChunks, RemoveRecords, ReadDocument,
              AddRecords, TaskDone, Goto
<1>6. ASSUME NEW p \in Procs, Load(p) \/ JobEnd(p), Calm PROVE \E q \in Procs : pc'[q] \in Busy
  <2>1. pc[p] \notin Busy /\ status' = status /\ ~lost
    BY <1>6 DEF Load, JobEnd, store, Calm
  <2>2. \A q \in Procs \ {p} : pc'[q] = pc[q]
    BY <1>6 DEF Load, JobEnd, Goto, Rest
  <2> QED BY <1>1, <2>1, <2>2
<1>7. ASSUME NEW p \in Procs, SetError(p) \/ FinishIndexing(p) \/ CommitDelete(p) PROVE FALSE
  BY <1>7 DEF SetError, FinishIndexing, CommitDelete, SetStatus
<1>8. ASSUME NEW p \in Procs, RunFails(p) \/ RunStops(p) PROVE \E q \in Procs : pc'[q] \in Busy
  <2>1. CASE RunFails(p)
    BY <2>1 DEF RunFails, Goto
  <2>2. ~RunStops(p)
    BY DEF RunStops, Deserted, JobInv
  <2> QED BY <1>8, <2>1, <2>2
<1>9. ASSUME NEW p \in Procs, Abort(p) PROVE \E q \in Procs : pc'[q] \in Busy
  <2>1. status' = status /\ ~lost /\ pc[p] \notin Busy
    BY <1>0, <1>9, Zenon DEF Abort, store
  <2>2. \A q \in Procs \ {p} : pc'[q] = pc[q]
    BY <1>9 DEF Abort, Goto, Rest
  <2> QED BY <1>1, <2>1, <2>2
<1>10. ASSUME NEW p \in Procs, Disconnect(p) PROVE FALSE
  BY <1>10 DEF Disconnect
<1>11. CASE JobLost \/ UNCHANGED vars
  BY <1>0, <1>11 DEF JobLost, vars, store, InProgressHasRun
<1> HIDE DEF Busy
<1> QED
  BY <1>0, <1>2, <1>3, <1>4, <1>5, <1>6, <1>7, <1>8, <1>9, <1>10, <1>11
     DEF Next, Procs, Advance, Complete, Delete, Break, RunStep

\* As long as no run was killed or cut off, "processing", "processed" and
\* "indexing" are the statuses of runs that will still write another one.
THEOREM InProgressCorrect == Spec => []InProgressHasRun
<1>1. Init => InProgressHasRun
  BY DEF Init, InProgressHasRun
<1>2. TypeOK /\ JobInv /\ InProgressHasRun /\ [Next]_vars => InProgressHasRun'
  BY InProgressStep
<1> QED BY <1>1, <1>2, TypeCorrect, JobCorrect, PTL DEF Spec

(***************************************************************************)
(* What an undisturbed deletion has done so far: the indexes whose task    *)
(* ended are empty, and before the commit the file is gone.  `clean`       *)
(* carries this across the steps of the others.                            *)
(***************************************************************************)
Wiped(p) ==
  /\ pc[p] = "wipe" => \A i \in Indexes \ loc[p].todo : records[i] = Empty
  /\ pc[p] \in {"erase", "commit"} => \A i \in Indexes : records[i] = Empty
  /\ pc[p] = "commit" => file = NoContent

EraseInv == ErasedMeansEmpty /\ \A p \in Procs : clean[p] => Wiped(p)

\* A step of p leaves the control state and the locals of the others alone.
Others(p) == \A q \in Procs \ {p} : pc'[q] = pc[q] /\ loc'[q] = loc[q]

LEMMA OthersStay ==
  ASSUME TypeOK, NEW p \in Procs,
         \/ Request(p) \/ Dispatch(p) \/ RequestStep(p) \/ RunStep(p) \/ JobEnd(p)
         \/ FinishIndexing(p) \/ CommitDelete(p) \/ RunFails(p) \/ RunStops(p) \/ Abort(p) \/ Disconnect(p)
  PROVE  Others(p)
<1> pc \in [Procs -> Labels] /\ loc \in [Procs -> Locals]
  BY DEF TypeOK
<1>1. ASSUME Rest(p) PROVE Others(p)
  BY <1>1 DEF Rest, Goto, Others
<1>2. ASSUME Request(p) \/ Dispatch(p) PROVE Others(p)
  BY <1>2 DEF Request, CreateStart, UpdateStart, DeleteStart, ReindexStart, Dispatch, Goto, Others
<1>3. ASSUME NEW t, NEW next, TaskDone(p, t, next) PROVE Others(p)
  BY <1>3 DEF TaskDone, Goto, Others
<1>4. ASSUME RequestStep(p) PROVE Others(p)
  <2>1. CASE PutFile(p)
    BY <2>1 DEF PutFile, Goto, Others
  <2>2. CASE FindByUrl(p)
    BY <2>2 DEF FindByUrl, Goto, Others
  <2>3. CASE InsertRow(p)
    BY <1>1, <2>3 DEF InsertRow, Goto, Others
  <2>4. ASSUME NEW touched \in BOOLEAN, WriteRow(p, touched) PROVE Others(p)
    BY <1>1, <2>4 DEF WriteRow, Goto, Others
  <2>5. CASE WriteStale(p)
    BY <1>1, <2>5 DEF WriteStale
  <2>6. CASE WipeChunks(p) \/ \E i \in Indexes : WipeIndex(p, i)
    BY <1>3, <2>6 DEF WipeChunks, WipeIndex
  <2>7. CASE EraseFile(p)
    BY <1>1, <2>7 DEF EraseFile, Goto, Others
  <2>8. ASSUME NEW access \in AccessModes, Submit(p, access) PROVE Others(p)
    BY <1>1, <2>8 DEF Submit, Goto, Others
  <2> QED BY <1>4, <2>1, <2>2, <2>3, <2>4, <2>5, <2>6, <2>7, <2>8 DEF RequestStep
<1>5. ASSUME RunStep(p) \/ FinishIndexing(p) PROVE Others(p)
  <2>1. CASE Load(p)
    BY <1>1, <2>1 DEF Load, Goto, Others
  <2>2. CASE StartProcessing(p) \/ ClearChunks(p) \/ Extract(p) \/ FinishProcessing(p)
    BY <2>2 DEF StartProcessing, ClearChunks, Extract, FinishProcessing, Goto, Others
  <2>3. CASE SaveChunks(p)
    BY <2>3 DEF SaveChunks, Goto, Others
  <2>4. CASE StartIndexing(p) \/ ReadChunks(p)
    BY <2>4 DEF StartIndexing, ReadChunks, Goto, Others
  <2>5. ASSUME NEW i \in Indexes, RemoveRecords(p, i) PROVE Others(p)
    BY <2>5 DEF RemoveRecords, Goto, Others
  <2>6. ASSUME NEW i \in Indexes, ReadDocument(p, i) \/ AddRecords(p, i) PROVE Others(p)
    BY <1>3, <2>6 DEF ReadDocument, AddRecords, Goto, Others
  <2>7. CASE SetError(p) \/ FinishIndexing(p)
    BY <1>1, <2>7 DEF SetError, FinishIndexing, Goto, Others
  <2> QED BY <1>5, <2>1, <2>2, <2>3, <2>4, <2>5, <2>6, <2>7 DEF RunStep
<1>6. ASSUME \/ JobEnd(p) \/ CommitDelete(p) \/ Abort(p)
      PROVE  Others(p)
  BY <1>1, <1>6 DEF JobEnd, CommitDelete, Abort
<1>7. ASSUME RunFails(p) \/ RunStops(p) \/ Disconnect(p) PROVE Others(p)
  BY <1>7 DEF RunFails, RunStops, Disconnect, Goto, Others
<1> QED BY <1>2, <1>4, <1>5, <1>6, <1>7

\* The undisturbed deletions of the others stay what they were.
LEMMA WipedFrame ==
  ASSUME TypeOK, EraseInv, NEW p \in Procs, NEW v, NEW e, Track(p, v, e), Others(p)
  PROVE  \A q \in Procs \ {p} : clean'[q] => Wiped(q)'
<1> SUFFICES ASSUME NEW q \in Procs \ {p}, clean'[q] PROVE Wiped(q)'
  OBVIOUS
<1>1. clean[q] /\ data' = data
  BY Zenon DEF Track
<1>2. Wiped(q) /\ file' = file /\ records' = records
  BY <1>1 DEF EraseInv, data
<1>3. pc'[q] = pc[q] /\ loc'[q] = loc[q]
  BY DEF Others
<1> QED BY <1>2, <1>3 DEF Wiped

LEMMA WipedOwn ==
  ASSUME TypeOK, EraseInv, NEW p \in Procs, clean[p] => Wiped(p),
         \/ Request(p) \/ Dispatch(p) \/ RequestStep(p) \/ RunStep(p) \/ JobEnd(p)
         \/ FinishIndexing(p) \/ CommitDelete(p) \/ RunFails(p) \/ RunStops(p) \/ Abort(p),
         clean[p] \/ pc[p] \in {"idle", "begin"}
  PROVE  Wiped(p)'
<1> pc \in [Procs -> Labels] /\ loc \in [Procs -> Locals] /\ records \in [Indexes -> [Entries -> Nat]]
  BY DEF TypeOK
<1>0. Chunks \notin Indexes
  BY LifecycleAssumption
<1>1. ASSUME pc'[p] \notin {"wipe", "erase", "commit"} PROVE Wiped(p)'
  BY <1>1 DEF Wiped
<1>2. ASSUME Rest(p) PROVE Wiped(p)'
  BY <1>1, <1>2 DEF Rest, Goto
<1>3. CASE Request(p) \/ Dispatch(p)
  <2>1. CASE DeleteStart(p)
    <3>1. pc'[p] = "wipe" /\ loc'[p].todo = Indexes \union {Chunks}
      BY <2>1 DEF DeleteStart, Goto, Resting
    <3> QED BY <3>1 DEF Wiped
  <2>2. CASE ~DeleteStart(p)
    BY <1>1, <1>3, <2>2 DEF Request, CreateStart, UpdateStart, ReindexStart, Dispatch, Goto
  <2> QED BY <2>1, <2>2
<1>4. CASE RequestStep(p)
  <2>0. pc[p] \notin {"idle", "begin"}
    BY <1>4 DEF RequestStep, PutFile, FindByUrl, InsertRow, WriteRow, WriteStale, WipeIndex,
                WipeChunks, EraseFile, Submit
  <2>1. Wiped(p)
    BY <2>0
  <2>2. CASE PutFile(p) \/ FindByUrl(p)
    BY <1>1, <2>2 DEF PutFile, FindByUrl, Goto
  <2>3. ASSUME pc'[p] = "wipe", loc'[p].todo = Indexes \union {Chunks} PROVE Wiped(p)'
    BY <2>3 DEF Wiped
  <2>4. CASE InsertRow(p)
    <3>1. CASE ~Rest(p)
      BY <2>3, <2>4, <3>1 DEF InsertRow, Goto, Locals
    <3> QED BY <1>2, <3>1
  <2>5. ASSUME NEW touched \in BOOLEAN, WriteRow(p, touched) PROVE Wiped(p)'
    <3>1. CASE ~Rest(p)
      BY <2>3, <2>5, <3>1 DEF WriteRow, Goto, Locals
    <3> QED BY <1>2, <3>1
  <2>6. CASE WriteStale(p)
    BY <1>2, <2>6 DEF WriteStale
  <2>7. ASSUME NEW i \in Indexes, WipeIndex(p, i) PROVE Wiped(p)'
    <3>1. /\ pc[p] = "wipe" /\ records' = [records EXCEPT ![i] = Empty]
          /\ loc'[p].todo = loc[p].todo \ {i} /\ i \in loc[p].todo
          /\ pc'[p] = IF loc[p].todo = {i} THEN AfterWipe(p) ELSE "wipe"
      BY <2>7 DEF WipeIndex, TaskDone, Goto, Emptied, Locals
    <3>2. AfterWipe(p) \in {"erase", "submit"}
      BY DEF AfterWipe
    <3>3. \A j \in Indexes \ loc'[p].todo : records'[j] = Empty
      BY <2>1, <3>1 DEF Wiped
    <3> QED BY <3>1, <3>2, <3>3 DEF Wiped
  <2>8. CASE WipeChunks(p)
    <3>1. /\ pc[p] = "wipe" /\ records' = records
          /\ loc'[p].todo = loc[p].todo \ {Chunks}
          /\ pc'[p] = IF loc[p].todo = {Chunks} THEN AfterWipe(p) ELSE "wipe"
      BY <2>8 DEF WipeChunks, TaskDone, Goto, Locals
    <3>2. AfterWipe(p) \in {"erase", "submit"}
      BY DEF AfterWipe
    <3>3. \A j \in Indexes \ loc'[p].todo : records'[j] = Empty
      BY <1>0, <2>1, <3>1 DEF Wiped
    <3> QED BY <1>0, <3>1, <3>2, <3>3 DEF Wiped
  <2>9. CASE EraseFile(p)
    <3>1. CASE status = "absent"
      BY <1>2, <2>9, <3>1 DEF EraseFile
    <3>2. CASE status # "absent"
      BY <2>1, <2>9, <3>2 DEF EraseFile, Goto, Wiped
    <3> QED BY <3>1, <3>2
  <2>10. ASSUME NEW access \in AccessModes, Submit(p, access) PROVE Wiped(p)'
    BY <1>1, <1>2, <2>10 DEF Submit, Goto
  <2> QED BY <1>4, <2>2, <2>4, <2>5, <2>6, <2>7, <2>8, <2>9, <2>10 DEF RequestStep
<1>5. CASE RunStep(p)
  <2>1. CASE Load(p) \/ SetError(p)
    BY <1>1, <1>2, <2>1 DEF Load, SetError, Goto
  <2>2. CASE \/ StartProcessing(p) \/ ClearChunks(p) \/ Extract(p) \/ SaveChunks(p)
             \/ FinishProcessing(p) \/ StartIndexing(p) \/ ReadChunks(p)
    BY <1>1, <2>2 DEF StartProcessing, ClearChunks, Extract, SaveChunks, FinishProcessing,
                      StartIndexing, ReadChunks, Goto
  <2>3. ASSUME NEW i \in Indexes, RemoveRecords(p, i) \/ ReadDocument(p, i) \/ AddRecords(p, i)
        PROVE  Wiped(p)'
    BY <1>1, <2>3 DEF RemoveRecords, ReadDocument, AddRecords, TaskDone, Goto
  <2> QED BY <1>5, <2>1, <2>2, <2>3 DEF RunStep
<1>6. CASE JobEnd(p) \/ CommitDelete(p) \/ Abort(p)
  BY <1>2, <1>6 DEF JobEnd, CommitDelete, Abort
<1>7. CASE FinishIndexing(p) \/ RunFails(p) \/ RunStops(p)
  BY <1>1, <1>2, <1>7 DEF FinishIndexing, RunFails, RunStops, Goto
<1> QED BY <1>3, <1>4, <1>5, <1>6, <1>7

LEMMA EraseStep == TypeOK /\ EraseInv /\ [Next]_vars => EraseInv'
<1> SUFFICES ASSUME TypeOK, EraseInv, [Next]_vars PROVE EraseInv'
  OBVIOUS
<1>1. ASSUME NEW p \in Procs, NEW v, NEW e, Track(p, v, e),
             \/ Request(p) \/ Dispatch(p) \/ RequestStep(p) \/ RunStep(p) \/ JobEnd(p)
             \/ FinishIndexing(p) \/ CommitDelete(p) \/ RunFails(p) \/ RunStops(p) \/ Abort(p)
      PROVE  \A q \in Procs : clean'[q] => Wiped(q)'
  <2>1. Others(p)
    BY <1>1, OthersStay
  <2>2. clean'[p] => clean[p] \/ pc[p] \in {"idle", "begin"}
    BY <1>1, Zenon DEF Track
  <2>3. clean[p] => Wiped(p)
    BY DEF EraseInv
  <2>4. clean'[p] => Wiped(p)'
    BY <1>1, <2>2, <2>3, WipedOwn
  <2> QED BY <1>1, <2>1, <2>4, WipedFrame
<1>2. ASSUME NEW p \in Procs, Tracked(p) PROVE ErasedMeansEmpty'
  <2>1. erased' => erased /\ data' = data
    BY <1>2, Zenon DEF Tracked, Track
  <2> QED BY <2>1 DEF EraseInv, ErasedMeansEmpty, data
<1>3. ASSUME NEW p \in Procs, Begin(p) \/ Pick(p) \/ Advance(p) PROVE EraseInv'
  BY <1>1, <1>2, <1>3 DEF Begin, Pick, Advance, Tracked, EraseInv
<1>4. ASSUME NEW p \in Procs, Complete(p) PROVE EraseInv'
  <2>1. erased' = erased /\ file' = file /\ chunks' = chunks /\ records' = records
    BY <1>4 DEF Complete, Track, FinishIndexing
  <2>2. status = "absent" => status' = "absent"
    BY <1>4 DEF Complete, FinishIndexing, SetStatus
  <2>3. ErasedMeansEmpty'
    BY <2>1, <2>2 DEF EraseInv, ErasedMeansEmpty
  <2> QED BY <1>1, <1>4, <2>3 DEF Complete, EraseInv
<1>5. ASSUME NEW p \in Procs, Delete(p) PROVE EraseInv'
  <2>1. erased' = clean[p]
    BY <1>5 DEF Delete, Track
  <2>2. pc[p] = "commit" /\ status' = "absent" /\ chunks' = NoChunks /\ file' = file /\ records' = records
    BY <1>5 DEF Delete, CommitDelete
  <2>3. erased' => (\A i \in Indexes : records[i] = Empty) /\ file = NoContent
    BY <2>1, <2>2 DEF EraseInv, Wiped
  <2>4. ErasedMeansEmpty'
    BY <2>2, <2>3 DEF ErasedMeansEmpty
  <2> QED BY <1>1, <1>5, <2>4 DEF Delete, EraseInv
<1>6. ASSUME NEW p \in Procs, Break(p) PROVE EraseInv'
  <2>1. CASE Disconnect(p)
    <3>1. Others(p) /\ pc'[p] = pc[p] /\ loc'[p] = loc[p] /\ data' = data
      BY <1>6, <2>1, OthersStay DEF Disconnect, data, store
    <3>2. clean'[p] => clean[p] \/ pc[p] \in {"idle", "begin"}
      BY <1>6, Zenon DEF Break, Tracked, Track
    <3>3. clean'[p] => Wiped(p)'
      BY <3>1, <3>2 DEF EraseInv, Wiped, data
    <3>4. \A q \in Procs \ {p} : clean'[q] => Wiped(q)'
      BY <1>6, <3>1, WipedFrame DEF Break, Tracked
    <3> QED BY <1>2, <1>6, <3>3, <3>4 DEF Break, EraseInv
  <2>2. CASE ~Disconnect(p)
    BY <1>1, <1>2, <1>6, <2>2 DEF Break, Tracked, EraseInv
  <2> QED BY <2>1, <2>2
<1>7. CASE JobLost \/ UNCHANGED vars
  <2>1. UNCHANGED <<store, pc, loc, history>>
    BY <1>7 DEF JobLost, vars
  <2> QED BY <2>1 DEF store, history, EraseInv, ErasedMeansEmpty, Wiped
<1> QED BY <1>3, <1>4, <1>5, <1>6, <1>7 DEF Next, Procs

\* A deletion during which nobody else wrote to the document leaves nothing of
\* it in any store, whatever was there before.
THEOREM ErasedCorrect == Spec => []ErasedMeansEmpty
<1>1. Init => EraseInv
  BY DEF Init, EraseInv, ErasedMeansEmpty
<1>2. TypeOK /\ EraseInv /\ [Next]_vars => EraseInv'
  BY EraseStep
<1>3. EraseInv => ErasedMeansEmpty
  BY DEF EraseInv
<1> QED BY <1>1, <1>2, <1>3, TypeCorrect, PTL DEF Spec

(***************************************************************************)
(* What an undisturbed run has done so far: the parts before loc.part are  *)
(* stored, then all of them; indexes it does not rebuild are as they were  *)
(* when the run began, hence exact; those it rebuilds are emptied, then    *)
(* filled from what was read of the chunks and of the file.                *)
(***************************************************************************)
Parsed == {"parsed", "processed", "unindex", "index", "finish"}

Stored(p) ==
  /\ pc[p] \in {"extract", "save"}
       => \A k \in Parts : chunks[k] = IF k < loc[p].part THEN file ELSE NoContent
  /\ pc[p] = "save" => loc[p].buf[loc[p].part] = file
  /\ pc[p] \in Parsed => status # "absent" /\ \A k \in Parts : chunks[k] = file

Indexed(p) ==
  /\ pc[p] \in {"unindex", "index", "finish"}
       => \A i \in Indexes \ Chosen(loc[p].names) : Exact(i, file)
  /\ pc[p] = "unindex" => \A i \in Chosen(loc[p].names) \ loc[p].todo : records[i] = Empty
  /\ pc[p] = "index"
       => /\ \A i \in Chosen(loc[p].names) :
               IF i \in loc[p].todo THEN records[i] = Empty ELSE Exact(i, file)
          /\ Chunks \notin loc[p].todo => \A k \in Parts : loc[p].buf[k] = file
          /\ \A i \in DocIndexes : loc[p].buf[i] \in {NoContent, file}
  /\ pc[p] = "finish" => \A i \in Chosen(loc[p].names) : Exact(i, file)

\* Locals before a run begins, and what a run sets on its way.
Before == Labels \ (Running \union {"ok", "err"})
Fresh(p) ==
  /\ pc[p] \in Before \union {"begin"} => ~loc[p].full
  /\ pc[p] \in Before \union {"begin", "clear"} => loc[p].part = 1
  /\ pc[p] = "processed" => loc[p].names = {}
  /\ pc[p] = "unindex" => /\ \A i \in DocIndexes : loc[p].buf[i] = NoContent
                          /\ loc[p].todo \subseteq Chosen(loc[p].names)
  /\ pc[p] = "index" => loc[p].todo \subseteq Chosen(loc[p].names) \union {Chunks}

VerifyInv ==
  /\ VerifiedMeansExact
  /\ \A p \in Procs : Fresh(p)
  /\ \A p \in Procs : clean[p] /\ (loc[p].full \/ base[p]) => Stored(p) /\ Indexed(p)

\* The undisturbed runs of the others stay what they were.
LEMMA RunFrame ==
  ASSUME TypeOK, VerifyInv, NEW p \in Procs, NEW v, NEW e, Track(p, v, e), Others(p)
  PROVE  \A q \in Procs \ {p} :
           /\ Fresh(q)'
           /\ clean'[q] /\ (loc'[q].full \/ base'[q]) => Stored(q)' /\ Indexed(q)'
<1> SUFFICES ASSUME NEW q \in Procs \ {p}
             PROVE  /\ Fresh(q)'
                    /\ clean'[q] /\ (loc'[q].full \/ base'[q]) => Stored(q)' /\ Indexed(q)'
  OBVIOUS
<1>1. pc'[q] = pc[q] /\ loc'[q] = loc[q]
  BY DEF Others
<1>2. Fresh(q)'
  BY <1>1 DEF VerifyInv, Fresh
<1>3. ASSUME clean'[q], loc'[q].full \/ base'[q] PROVE Stored(q)' /\ Indexed(q)'
  <2>1. clean[q] /\ data' = data
    BY <1>3, Zenon DEF Track
  <2>2. base' = base \/ base' = [base EXCEPT ![p] = verified]
    BY DEF Track
  <2>3. base'[q] = base[q]
    BY <2>2, Zenon DEF TypeOK
  <2>4. Stored(q) /\ Indexed(q)
    BY <1>1, <1>3, <2>1, <2>3 DEF VerifyInv
  <2>5. /\ file' = file /\ chunks' = chunks /\ records' = records
        /\ (status' = "absent") = (status = "absent")
    BY <2>1 DEF data
  <2>6. Stored(q)'
    BY <1>1, <2>4, <2>5 DEF Stored
  <2>7. Indexed(q)'
    BY <1>1, <2>4, <2>5 DEF Indexed, Exact
  <2> QED BY <2>6, <2>7
<1> QED BY <1>2, <1>3

\* The locals of a process that has not begun a run are those it started with.
LEMMA FreshOwn ==
  ASSUME TypeOK, NEW p \in Procs, Fresh(p),
         \/ Request(p) \/ Dispatch(p) \/ RequestStep(p) \/ RunStep(p) \/ JobEnd(p)
         \/ FinishIndexing(p) \/ CommitDelete(p) \/ RunFails(p) \/ RunStops(p) \/ Abort(p) \/ Disconnect(p)
  PROVE  Fresh(p)'
<1> pc \in [Procs -> Labels] /\ loc \in [Procs -> Locals]
  BY DEF TypeOK
<1>0. Before = {"idle", "put", "find", "write", "insert", "wipe", "erase", "commit", "load", "submit"}
  BY DEF Before, Labels, Running, Guarded
<1>1. ASSUME loc'[p].full = loc[p].full, loc'[p].part = loc[p].part,
             pc[p] \in Before, pc'[p] \in Before \union {"begin"}
      PROVE  Fresh(p)'
  BY <1>0, <1>1 DEF Fresh
<1>2. ASSUME loc'[p].full = FALSE, loc'[p].part = 1, pc'[p] \in Before PROVE Fresh(p)'
  BY <1>0, <1>2 DEF Fresh
<1>3. ASSUME Rest(p) PROVE Fresh(p)'
  BY <1>0, <1>2, <1>3 DEF Rest, Goto, Resting
<1>4. ASSUME pc'[p] \notin Before \union {"begin", "clear", "processed", "unindex", "index"}
      PROVE  Fresh(p)'
  BY <1>0, <1>4 DEF Fresh
<1>5. CASE Request(p) \/ Dispatch(p)
  <2>1. CASE Request(p)
    BY <1>0, <1>2, <2>1 DEF Request, CreateStart, UpdateStart, DeleteStart, ReindexStart,
                            Goto, Resting
  <2>2. CASE Dispatch(p)
    BY <1>0, <1>2, <2>2 DEF Dispatch, Goto, Resting
  <2> QED BY <1>5, <2>1, <2>2
<1>6. CASE RequestStep(p)
  <2>1. CASE PutFile(p)
    BY <1>0, <1>1, <2>1 DEF PutFile, Goto
  <2>2. CASE FindByUrl(p)
    BY <1>0, <1>1, <2>2 DEF FindByUrl, Goto, Locals
  <2>3. CASE InsertRow(p) /\ ~Rest(p)
    BY <1>0, <1>1, <2>3 DEF InsertRow, Goto, Locals
  <2>4. ASSUME NEW touched \in BOOLEAN, WriteRow(p, touched), ~Rest(p) PROVE Fresh(p)'
    BY <1>0, <1>1, <2>4 DEF WriteRow, Goto, Locals
  <2>5. CASE WriteStale(p)
    BY <1>3, <2>5 DEF WriteStale
  <2>6. AfterWipe(p) \in {"erase", "submit"}
    BY DEF AfterWipe
  <2>7. ASSUME NEW t, pc[p] = "wipe", TaskDone(p, t, AfterWipe(p)) PROVE Fresh(p)'
    BY <1>0, <1>1, <2>6, <2>7 DEF TaskDone, Goto, Locals
  <2>8. CASE WipeChunks(p) \/ \E i \in Indexes : WipeIndex(p, i)
    BY <2>7, <2>8 DEF WipeChunks, WipeIndex
  <2>9. CASE EraseFile(p) /\ ~Rest(p)
    BY <1>0, <1>1, <2>9 DEF EraseFile, Goto
  <2>10. ASSUME NEW access \in AccessModes, Submit(p, access), ~Rest(p) PROVE Fresh(p)'
    BY <1>0, <1>1, <2>10 DEF Submit, Goto
  <2> QED BY <1>3, <1>6, <2>1, <2>2, <2>3, <2>4, <2>5, <2>8, <2>9, <2>10 DEF RequestStep
<1>7. CASE RunStep(p)
  <2>1. CASE Load(p)
    <3>1. CASE status = "absent"
      BY <1>0, <1>3, <1>4, <2>1, <3>1 DEF Load, Goto
    <3>2. CASE status # "absent"
      BY <1>0, <1>1, <2>1, <3>2 DEF Load, Goto, Locals
    <3> QED BY <3>1, <3>2
  <2>2. CASE StartProcessing(p)
    <3>1. pc'[p] = "clear" /\ loc'[p].part = loc[p].part /\ pc[p] = "begin"
      BY <2>2 DEF StartProcessing, Goto, Locals
    <3> QED BY <1>0, <3>1 DEF Fresh
  <2>3. CASE ClearChunks(p) \/ Extract(p) \/ SaveChunks(p)
    BY <1>0, <1>4, <2>3 DEF ClearChunks, Extract, SaveChunks, Goto
  <2>4. CASE FinishProcessing(p)
    <3>1. pc'[p] = "processed" /\ loc'[p].names = {}
      BY <2>4 DEF FinishProcessing, Goto, Locals
    <3> QED BY <1>0, <3>1 DEF Fresh
  <2>5. CASE StartIndexing(p)
    <3>1. pc'[p] = "unindex" /\ loc'[p].names = loc[p].names
          /\ loc'[p].todo = Chosen(loc[p].names) /\ loc'[p].buf = NoBuffer
      BY <2>5 DEF StartIndexing, Goto, Locals
    <3>2. \A i \in DocIndexes : NoBuffer[i] = NoContent
      BY DEF NoBuffer, Sources
    <3> QED BY <1>0, <3>1, <3>2 DEF Fresh
  <2>6. ASSUME NEW i \in Indexes, RemoveRecords(p, i) PROVE Fresh(p)'
    <3>1. CASE loc[p].todo = {i}
      <4>1. /\ pc'[p] = "index"
            /\ loc'[p] = [loc[p] EXCEPT !.todo = Chosen(loc[p].names) \union {Chunks}]
        BY <2>6, <3>1 DEF RemoveRecords, Goto
      <4>2. loc'[p].names = loc[p].names /\ loc'[p].todo = Chosen(loc[p].names) \union {Chunks}
        BY <4>1 DEF Locals
      <4> QED BY <1>0, <4>1, <4>2 DEF Fresh
    <3>2. CASE loc[p].todo # {i}
      <4>1. pc'[p] = "unindex" /\ pc[p] = "unindex" /\ loc'[p] = [loc[p] EXCEPT !.todo = @ \ {i}]
        BY <2>6, <3>2 DEF RemoveRecords
      <4>2. /\ loc'[p].names = loc[p].names /\ loc'[p].buf = loc[p].buf
            /\ loc'[p].todo = loc[p].todo \ {i}
        BY <4>1 DEF Locals
      <4> QED BY <1>0, <4>1, <4>2 DEF Fresh
    <3> QED BY <3>1, <3>2
  <2>7. CASE ReadChunks(p) \/ \E i \in Indexes : ReadDocument(p, i) \/ AddRecords(p, i)
    <3>1. pc[p] = "index" /\ pc'[p] \in {"index", "finish", "fail"}
      BY <2>7 DEF ReadChunks, ReadDocument, AddRecords, TaskDone, Goto
    <3>2. loc'[p].names = loc[p].names /\ loc'[p].todo \subseteq loc[p].todo
      BY <2>7 DEF ReadChunks, ReadDocument, AddRecords, TaskDone, Locals
    <3> QED BY <1>0, <3>1, <3>2 DEF Fresh
  <2>8. CASE SetError(p)
    BY <1>0, <1>3, <1>4, <2>8 DEF SetError, Goto
  <2> QED BY <1>7, <2>1, <2>2, <2>3, <2>4, <2>5, <2>6, <2>7, <2>8 DEF RunStep
<1>8. CASE JobEnd(p) \/ CommitDelete(p) \/ Abort(p)
  BY <1>3, <1>8 DEF JobEnd, CommitDelete, Abort
<1>9. CASE FinishIndexing(p) \/ RunFails(p) \/ RunStops(p)
  BY <1>0, <1>3, <1>4, <1>9 DEF FinishIndexing, RunFails, RunStops, Goto
<1>10. CASE Disconnect(p)
  BY <1>10 DEF Disconnect, Fresh
<1> QED BY <1>5, <1>6, <1>7, <1>8, <1>9, <1>10

\* One more step of an undisturbed run.
LEMMA RunOwn ==
  ASSUME TypeOK, VerifyInv, NEW p \in Procs, RunStep(p),
         clean[p] \/ pc[p] = "begin",
         base'[p] = IF pc[p] = "begin" THEN verified ELSE base[p],
         loc'[p].full \/ base'[p]
  PROVE  Stored(p)' /\ Indexed(p)'
<1> /\ pc \in [Procs -> Labels] /\ loc \in [Procs -> Locals]
    /\ chunks \in [Parts -> Content0] /\ records \in [Indexes -> [Entries -> Nat]]
  BY DEF TypeOK
<1> DEFINE l == loc[p]
<1>0. l \in Locals /\ Fresh(p)
  BY DEF VerifyInv
<1>a. Chunks \notin Indexes /\ Parts \intersect DocIndexes = {} /\ NumParts \in Nat \ {0}
  BY LifecycleAssumption
<1>1. ASSUME pc'[p] \notin {"extract", "save"} \union Parsed PROVE Stored(p)' /\ Indexed(p)'
  BY <1>1 DEF Stored, Indexed, Parsed
<1>2. ASSUME pc[p] # "begin", loc'[p].full = l.full PROVE Stored(p) /\ Indexed(p)
  BY <1>2 DEF VerifyInv
<1>3. CASE Load(p) \/ StartProcessing(p) \/ SetError(p)
  BY <1>1, <1>3 DEF Load, StartProcessing, SetError, Goto, Rest, Parsed
<1>4. CASE ClearChunks(p)
  <2>1. pc'[p] = "extract" /\ loc'[p].part = 1 /\ chunks' = NoChunks
    BY <1>0, <1>4 DEF ClearChunks, Goto, Fresh
  <2>2. \A k \in Parts : ~(k < 1)
    BY DEF Parts
  <2> QED BY <2>1, <2>2 DEF Stored, Indexed, Parsed, NoChunks
<1>5. CASE Extract(p)
  <2>1. CASE file = NoContent
    BY <1>1, <1>5, <2>1 DEF Extract, Goto, Parsed
  <2>2. CASE file # NoContent
    <3>1. /\ pc[p] = "extract" /\ pc'[p] = "save" /\ file' = file /\ chunks' = chunks
          /\ loc'[p] = [l EXCEPT !.buf[l.part] = file]
      BY <1>5, <2>2 DEF Extract, Goto, store
    <3>2. l.part \in Sources /\ l.buf \in [Sources -> Content0]
      BY <1>0 DEF Locals, Sources
    <3>3. loc'[p].part = l.part /\ loc'[p].buf[l.part] = file /\ loc'[p].full = l.full
      BY <1>0, <3>1, <3>2 DEF Locals
    <3>4. Stored(p)
      BY <1>2, <3>1, <3>3
    <3> QED BY <3>1, <3>3, <3>4 DEF Stored, Indexed, Parsed
  <2> QED BY <2>1, <2>2
<1>6. CASE SaveChunks(p)
  <2>1. CASE status = "absent" \/ chunks[l.part] # NoContent
    BY <1>1, <1>6, <2>1 DEF SaveChunks, Goto, Parsed
  <2>2. CASE ~(status = "absent" \/ chunks[l.part] # NoContent)
    <3>1. /\ pc[p] = "save" /\ status' = status /\ file' = file
          /\ chunks' = [chunks EXCEPT ![l.part] = l.buf[l.part]]
      BY <1>6, <2>2 DEF SaveChunks
    <3>2. loc'[p].full = l.full
      BY <1>0, <1>6, <2>2 DEF SaveChunks, Locals
    <3>3. Stored(p)
      BY <1>2, <3>1, <3>2
    <3>4. l.part \in Parts
      BY <1>0 DEF Locals
    <3>5. \A k \in Parts : chunks'[k] = IF k < l.part + 1 THEN file ELSE NoContent
      BY <3>1, <3>3, <3>4 DEF Stored, Parts
    <3>6. CASE l.part = NumParts
      <4>1. pc'[p] = "parsed"
        BY <1>6, <2>2, <3>6 DEF SaveChunks, Goto
      <4>2. \A k \in Parts : chunks'[k] = file
        BY <1>a, <3>5, <3>6 DEF Parts
      <4> QED BY <2>2, <3>1, <4>1, <4>2 DEF Stored, Indexed, Parsed
    <3>7. CASE l.part # NumParts
      <4>1. pc'[p] = "extract" /\ loc'[p] = [l EXCEPT !.part = @ + 1]
        BY <1>6, <2>2, <3>7 DEF SaveChunks, Goto
      <4>2. loc'[p].part = l.part + 1
        BY <1>0, <4>1 DEF Locals
      <4> QED BY <3>1, <3>5, <4>1, <4>2 DEF Stored, Indexed, Parsed
    <3> QED BY <3>6, <3>7
  <2> QED BY <2>1, <2>2
<1>7. CASE FinishProcessing(p)
  <2>1. /\ pc[p] = "parsed" /\ pc'[p] = "processed" /\ SetStatus("processed")
        /\ file' = file /\ chunks' = chunks /\ loc'[p].full = l.full
    BY <1>0, <1>7 DEF FinishProcessing, Goto, Locals
  <2>2. Stored(p)
    BY <1>2, <2>1
  <2> QED BY <2>1, <2>2 DEF Stored, Indexed, Parsed, SetStatus
<1>8. CASE StartIndexing(p)
  <2>1. /\ pc'[p] = "unindex" /\ SetStatus("indexing") /\ records' = records
        /\ file' = file /\ chunks' = chunks
        /\ loc'[p].full = l.full /\ loc'[p].names = l.names /\ loc'[p].todo = Chosen(l.names)
    BY <1>0, <1>8 DEF StartIndexing, Goto, Locals
  <2>2. CASE pc[p] = "processed"
    <3>1. Stored(p) /\ l.names = {}
      BY <1>0, <1>2, <2>1, <2>2 DEF Fresh
    <3>2. Chosen(l.names) = Indexes
      BY <3>1 DEF Chosen
    <3> QED BY <2>1, <2>2, <3>1, <3>2 DEF Stored, Indexed, Parsed, SetStatus
  <2>3. CASE pc[p] = "begin"
    <3>1. ~l.full
      BY <1>0, <2>3 DEF Fresh
    <3>2. verified
      BY <2>1, <2>3, <3>1
    <3>3. /\ status # "absent"
          /\ \A k \in Parts : chunks[k] = file
          /\ \A i \in Indexes : Exact(i, file)
      BY <3>2 DEF VerifyInv, VerifiedMeansExact
    <3>4. \A i \in Indexes : Exact(i, file)'
      BY <2>1, <3>3 DEF Exact
    <3> QED BY <2>1, <3>3, <3>4 DEF Stored, Indexed, Parsed, SetStatus
  <2> QED BY <1>8, <2>2, <2>3 DEF StartIndexing
<1>9. ASSUME NEW i \in Indexes, RemoveRecords(p, i) PROVE Stored(p)' /\ Indexed(p)'
  <2>1. /\ pc[p] = "unindex" /\ i \in l.todo /\ status' = status /\ file' = file /\ chunks' = chunks
        /\ records' = [records EXCEPT ![i] = Empty]
    BY <1>9 DEF RemoveRecords, Emptied
  <2>2. loc'[p].full = l.full /\ loc'[p].names = l.names /\ loc'[p].buf = l.buf
    <3>1. CASE l.todo = {i}
      BY <1>0, <1>9, <3>1 DEF RemoveRecords, Locals
    <3>2. CASE l.todo # {i}
      BY <1>0, <1>9, <3>2 DEF RemoveRecords, Locals
    <3> QED BY <3>1, <3>2
  <2>3. Stored(p) /\ Indexed(p) /\ i \in Chosen(l.names)
    BY <1>0, <1>2, <2>1, <2>2 DEF Fresh
  <2>4. \A j \in Indexes \ Chosen(l.names) : Exact(j, file)'
    BY <2>1, <2>3 DEF Indexed, Exact
  <2>5. \A j \in Chosen(l.names) \ (l.todo \ {i}) : records'[j] = Empty
    <3>1. Chosen(l.names) \subseteq Indexes
      BY <1>0 DEF Chosen, Locals
    <3> QED BY <2>1, <2>3, <3>1 DEF Indexed
  <2>6. CASE l.todo = {i}
    <3>1. pc'[p] = "index" /\ loc'[p].todo = Chosen(l.names) \union {Chunks}
      BY <1>0, <1>9, <2>6 DEF RemoveRecords, Goto, Locals
    <3>2. \A j \in DocIndexes : l.buf[j] = NoContent
      BY <1>0, <2>1 DEF Fresh
    <3>3. \A j \in Chosen(l.names) : records'[j] = Empty
      BY <2>5, <2>6
    <3> QED BY <2>1, <2>2, <2>3, <2>4, <3>1, <3>2, <3>3 DEF Stored, Indexed, Parsed
  <2>7. CASE l.todo # {i}
    <3>1. pc'[p] = "unindex" /\ loc'[p].todo = l.todo \ {i}
      BY <1>0, <1>9, <2>7 DEF RemoveRecords, Locals
    <3> QED BY <2>1, <2>2, <2>3, <2>4, <2>5, <3>1 DEF Stored, Indexed, Parsed
  <2> QED BY <2>6, <2>7
<1>10. CASE ReadChunks(p)
  <2> DEFINE new == [s \in Sources |-> IF s \in Parts THEN chunks[s] ELSE l.buf[s]]
  <2>1. /\ pc[p] = "index" /\ Chunks \in l.todo /\ UNCHANGED store
        /\ pc'[p] = IF l.todo = {Chunks} THEN "finish" ELSE "index"
        /\ loc'[p] = [l EXCEPT !.buf = new, !.todo = l.todo \ {Chunks}]
    BY <1>10 DEF ReadChunks, Goto
  <2>2. /\ loc'[p].full = l.full /\ loc'[p].names = l.names
        /\ loc'[p].buf = new /\ loc'[p].todo = l.todo \ {Chunks}
    BY <1>0, <2>1 DEF Locals
  <2>3. Stored(p) /\ Indexed(p)
    BY <1>2, <2>1, <2>2
  <2>4. \A k \in Parts : new[k] = file
    BY <2>1, <2>3 DEF Stored, Parsed, Sources
  <2>5. \A i \in DocIndexes : new[i] = l.buf[i]
    BY <1>a DEF Sources
  <2>6. Chosen(l.names) \subseteq Indexes
    BY <1>0 DEF Chosen, Locals
  <2>7. /\ \A i \in Indexes \ Chosen(l.names) : Exact(i, file)'
        /\ \A i \in Chosen(l.names) :
             IF i \in loc'[p].todo THEN records'[i] = Empty ELSE Exact(i, file)'
    BY <1>a, <2>1, <2>2, <2>3, <2>6 DEF Indexed, Exact, store
  <2> HIDE DEF new
  <2>8. Stored(p)'
    BY <2>1, <2>3 DEF Stored, Parsed, store
  <2>9. Indexed(p)'
    BY <2>1, <2>2, <2>3, <2>4, <2>5, <2>7 DEF Indexed, store
  <2> QED BY <2>8, <2>9
<1>11. ASSUME NEW i \in Indexes, ReadDocument(p, i) PROVE Stored(p)' /\ Indexed(p)'
  <2>1. CASE file = NoContent
    BY <1>1, <1>11, <2>1 DEF ReadDocument, Goto, Parsed
  <2>2. CASE file # NoContent
    <3>1. /\ pc[p] = "index" /\ pc'[p] = "index" /\ i \in DocIndexes /\ UNCHANGED store
          /\ loc'[p] = [l EXCEPT !.buf[i] = file]
      BY <1>11, <2>2 DEF ReadDocument, Goto
    <3>2. loc'[p].full = l.full /\ loc'[p].names = l.names /\ loc'[p].todo = l.todo
          /\ loc'[p].buf = [l.buf EXCEPT ![i] = file]
      BY <1>0, <3>1 DEF Locals
    <3>3. Stored(p) /\ Indexed(p) /\ l.buf \in [Sources -> Content0]
      BY <1>0, <1>2, <3>1, <3>2 DEF Locals
    <3>4. /\ \A k \in Parts : loc'[p].buf[k] = l.buf[k]
          /\ \A j \in DocIndexes : loc'[p].buf[j] \in {l.buf[j], file}
      BY <1>a, <3>1, <3>2, <3>3 DEF Sources
    <3>5. Stored(p)'
      BY <3>1, <3>3 DEF Stored, Parsed, store
    <3>6. Indexed(p)'
      BY <3>1, <3>2, <3>3, <3>4 DEF Indexed, Exact, store
    <3> QED BY <3>5, <3>6
  <2> QED BY <2>1, <2>2
<1>12. ASSUME NEW i \in Indexes, AddRecords(p, i) PROVE Stored(p)' /\ Indexed(p)'
  <2> DEFINE new == [e \in Entries |-> records[i][e] +
                      IF e[1] \in Feeds(i) /\ l.buf[e[1]] = e[2] THEN 1 ELSE 0]
  <2>1. /\ pc[p] = "index" /\ i \in l.todo /\ status' = status /\ file' = file /\ chunks' = chunks
        /\ records' = [records EXCEPT ![i] = new]
        /\ pc'[p] = IF l.todo = {i} THEN "finish" ELSE "index"
        /\ loc'[p] = [l EXCEPT !.todo = l.todo \ {i}]
    BY <1>12 DEF AddRecords, TaskDone, Goto
  <2>2. /\ loc'[p].full = l.full /\ loc'[p].names = l.names /\ loc'[p].buf = l.buf
        /\ loc'[p].todo = l.todo \ {i}
    BY <1>0, <2>1 DEF Locals
  <2>3. Stored(p) /\ Indexed(p) /\ i \in Chosen(l.names)
    BY <1>0, <1>2, <1>a, <2>1, <2>2 DEF Fresh
  <2>4. \A s \in Feeds(i) : l.buf[s] = file
    BY <1>12, <2>1, <2>3 DEF AddRecords, Feeds, Indexed
  <2>5. records[i] = Empty
    BY <2>1, <2>3 DEF Indexed
  <2>6. \A e \in Entries : new[e] = IF e[1] \in Feeds(i) /\ e[2] = file THEN 1 ELSE 0
    <3> SUFFICES ASSUME NEW e \in Entries
                 PROVE  new[e] = IF e[1] \in Feeds(i) /\ e[2] = file THEN 1 ELSE 0
      OBVIOUS
    <3>1. records[i][e] = 0
      BY <2>5 DEF Empty
    <3>2. (e[1] \in Feeds(i) /\ l.buf[e[1]] = e[2]) = (e[1] \in Feeds(i) /\ e[2] = file)
      BY <2>4
    <3> QED BY <3>1, <3>2
  <2>7. records'[i] = new /\ \A j \in Indexes \ {i} : records'[j] = records[j]
    BY <2>1
  <2> HIDE DEF new
  <2>8. Exact(i, file)'
    BY <2>1, <2>6, <2>7 DEF Exact
  <2>9. Chosen(l.names) \subseteq Indexes
    BY <1>0 DEF Chosen, Locals
  <2>10. \A j \in Indexes \ Chosen(l.names) : Exact(j, file)'
    BY <2>1, <2>3, <2>7 DEF Indexed, Exact
  <2>11. \A j \in Chosen(l.names) : IF j \in l.todo \ {i} THEN records'[j] = Empty ELSE Exact(j, file)'
    <3> SUFFICES ASSUME NEW j \in Chosen(l.names), j # i
                 PROVE  IF j \in l.todo THEN records'[j] = Empty ELSE Exact(j, file)'
      BY <2>8
    <3> QED BY <2>1, <2>3, <2>7, <2>9 DEF Indexed, Exact
  <2>12. Stored(p)'
    BY <2>1, <2>3 DEF Stored, Parsed
  <2>13. Indexed(p)'
    BY <1>a, <2>1, <2>2, <2>3, <2>10, <2>11 DEF Indexed
  <2> QED BY <2>12, <2>13
<1> QED
  BY <1>3, <1>4, <1>5, <1>6, <1>7, <1>8, <1>9, <1>10, <1>11, <1>12 DEF RunStep

LEMMA VerifyStep == TypeOK /\ VerifyInv /\ [Next]_vars => VerifyInv'
<1> SUFFICES ASSUME TypeOK, VerifyInv, [Next]_vars PROVE VerifyInv'
  OBVIOUS
<1> DEFINE Undisturbed(q) == clean[q] /\ (loc[q].full \/ base[q]) => Stored(q) /\ Indexed(q)
<1>1. ASSUME NEW p \in Procs, NEW v, NEW e, Track(p, v, e), Others(p), Fresh(p)', Undisturbed(p)',
             VerifiedMeansExact'
      PROVE  VerifyInv'
  BY <1>1, RunFrame DEF VerifyInv
<1>2. ASSUME NEW p \in Procs, Tracked(p) PROVE VerifiedMeansExact'
  <2>1. verified' => verified /\ data' = data
    BY <1>2, Zenon DEF Tracked, Track
  <2> QED BY <2>1 DEF VerifyInv, VerifiedMeansExact, Exact, data
<1>3. ASSUME NEW p \in Procs, pc'[p] \notin {"extract", "save"} \union Parsed PROVE Undisturbed(p)'
  BY <1>3 DEF Stored, Indexed, Parsed
<1>4. ASSUME NEW p \in Procs,
             \/ Request(p) \/ Dispatch(p) \/ RequestStep(p) \/ JobEnd(p) \/ FinishIndexing(p)
             \/ CommitDelete(p) \/ RunFails(p) \/ RunStops(p) \/ Abort(p)
      PROVE  Undisturbed(p)'
  <2> pc \in [Procs -> Labels]
    BY DEF TypeOK
  <2>1. CASE Request(p) \/ Dispatch(p)
    BY <1>3, <2>1 DEF Request, CreateStart, UpdateStart, DeleteStart, ReindexStart, Dispatch, Goto,
                      Parsed
  <2>2. CASE RequestStep(p)
    BY <1>3, <2>2 DEF RequestStep, PutFile, FindByUrl, InsertRow, WriteRow, WriteStale, WipeIndex,
                      WipeChunks, EraseFile, Submit, TaskDone, AfterWipe, Rest, Goto, Parsed
  <2>3. CASE \/ JobEnd(p) \/ FinishIndexing(p) \/ CommitDelete(p) \/ RunFails(p) \/ RunStops(p)
             \/ Abort(p)
    BY <1>3, <2>3 DEF JobEnd, FinishIndexing, CommitDelete, RunFails, RunStops, Abort, Rest, Goto, Parsed
  <2> QED BY <1>4, <2>1, <2>2, <2>3
<1>5. ASSUME NEW p \in Procs, RunStep(p), Tracked(p) PROVE Undisturbed(p)'
  <2>1. pc[p] # "idle"
    BY <1>5 DEF RunStep, Load, StartProcessing, ClearChunks, Extract, SaveChunks, FinishProcessing,
                StartIndexing, ReadChunks, SetError, RemoveRecords, ReadDocument, AddRecords
  <2>2. clean'[p] => clean[p] \/ pc[p] = "begin"
    BY <1>5, <2>1, Zenon DEF Tracked, Track
  <2>3. base'[p] = IF pc[p] = "begin" THEN verified ELSE base[p]
    <3>1. base' = IF pc[p] = "begin" THEN [base EXCEPT ![p] = verified] ELSE base
      BY <1>5 DEF Tracked, Track
    <3>2. base \in [Procs -> BOOLEAN]
      BY DEF TypeOK
    <3>3. CASE pc[p] = "begin"
      BY <3>1, <3>2, <3>3, Zenon
    <3>4. CASE pc[p] # "begin"
      BY <3>1, <3>4, Zenon
    <3> QED BY <3>3, <3>4
  <2> QED BY <1>5, <2>2, <2>3, RunOwn
<1>6. ASSUME NEW p \in Procs PROVE Fresh(p)
  BY DEF VerifyInv
<1>7. ASSUME NEW p \in Procs, Begin(p) \/ Pick(p) \/ Advance(p) PROVE VerifyInv'
  <2>1. Tracked(p) /\ (Request(p) \/ Dispatch(p) \/ RequestStep(p) \/ RunStep(p) \/ JobEnd(p))
    BY <1>7 DEF Begin, Pick, Advance
  <2>2. Others(p) /\ Fresh(p)'
    BY <1>6, <2>1, OthersStay, FreshOwn
  <2>3. Undisturbed(p)'
    BY <1>4, <1>5, <2>1
  <2> QED BY <1>1, <1>2, <2>1, <2>2, <2>3 DEF Tracked
<1>8. ASSUME NEW p \in Procs, Complete(p) PROVE VerifyInv'
  <2>1. Others(p) /\ Fresh(p)' /\ Undisturbed(p)'
    BY <1>4, <1>6, <1>8, OthersStay, FreshOwn DEF Complete
  <2>2. verified' = (clean[p] /\ (loc[p].full \/ base[p]))
    BY <1>8 DEF Complete, Track
  <2>3. /\ pc[p] = "finish" /\ SetStatus("ready")
        /\ file' = file /\ chunks' = chunks /\ records' = records
    BY <1>8 DEF Complete, FinishIndexing
  <2>4. verified' => Stored(p) /\ Indexed(p)
    BY <2>2 DEF VerifyInv
  <2>5. Chosen(loc[p].names) \subseteq Indexes
    BY DEF TypeOK, Chosen, Locals
  <2>6. VerifiedMeansExact'
    BY <2>3, <2>4, <2>5 DEF VerifiedMeansExact, Stored, Indexed, Parsed, Exact, SetStatus
  <2> QED BY <1>1, <1>8, <2>1, <2>6 DEF Complete
<1>9. ASSUME NEW p \in Procs, Delete(p) PROVE VerifyInv'
  <2>1. Others(p) /\ Fresh(p)' /\ Undisturbed(p)'
    BY <1>4, <1>6, <1>9, OthersStay, FreshOwn DEF Delete
  <2>2. VerifiedMeansExact'
    BY <1>9 DEF Delete, Track, VerifiedMeansExact
  <2> QED BY <1>1, <1>9, <2>1, <2>2 DEF Delete
<1>10. ASSUME NEW p \in Procs, Break(p) PROVE VerifyInv'
  <2>1. Tracked(p) /\ (RunFails(p) \/ RunStops(p) \/ Abort(p) \/ Disconnect(p))
    BY <1>10 DEF Break
  <2>2. Others(p) /\ Fresh(p)'
    BY <1>6, <2>1, OthersStay, FreshOwn
  <2>3. Undisturbed(p)'
    <3>1. CASE Disconnect(p)
      <4>1. /\ pc'[p] = pc[p] /\ loc'[p] = loc[p] /\ status' = status /\ file' = file
            /\ chunks' = chunks /\ records' = records
        BY <3>1 DEF Disconnect, store
      <4>2. CASE pc[p] \in {"idle", "begin"}
        BY <1>3, <4>1, <4>2 DEF Parsed
      <4>3. CASE pc[p] \notin {"idle", "begin"}
        <5>1. (clean'[p] => clean[p]) /\ base' = base
          BY <2>1, <4>3, Zenon DEF Tracked, Track
        <5>2. clean'[p] /\ (loc'[p].full \/ base'[p]) => Stored(p) /\ Indexed(p)
          BY <4>1, <5>1 DEF VerifyInv
        <5> QED BY <4>1, <5>2 DEF Stored, Indexed, Exact
      <4> QED BY <4>2, <4>3
    <3> QED BY <1>4, <2>1, <3>1
  <2> QED BY <1>1, <1>2, <2>1, <2>2, <2>3 DEF Tracked
<1>11. CASE JobLost \/ UNCHANGED vars
  <2>1. UNCHANGED <<store, pc, loc, history>>
    BY <1>11 DEF JobLost, vars
  <2> QED BY <2>1 DEF store, history, VerifyInv, VerifiedMeansExact, Fresh, Stored, Indexed, Exact
<1> QED BY <1>7, <1>8, <1>9, <1>10, <1>11 DEF Next, Procs

\* A run nobody disturbed repairs whatever it found: once it says `ready`, and
\* until the next write, the chunks are those of the stored file and every index
\* holds each of them exactly once.
THEOREM VerifiedCorrect == Spec => []VerifiedMeansExact
<1>1. Init => VerifyInv
  BY DEF Init, VerifyInv, VerifiedMeansExact, Fresh, Resting
<1>2. TypeOK /\ VerifyInv /\ [Next]_vars => VerifyInv'
  BY VerifyStep
<1>3. VerifyInv => VerifiedMeansExact
  BY DEF VerifyInv
<1> QED BY <1>1, <1>2, <1>3, TypeCorrect, PTL DEF Spec
=============================================================================
