--------------------------- MODULE ChannelImport ---------------------------
(***************************************************************************)
(* Import of a channel archive: a request uploads it (FacadeService), a    *)
(* job imports its documents in batches (ExportService), and is tried      *)
(* again when it fails.                                                    *)
(*                                                                         *)
(* The documents of a batch are imported by concurrent coroutines.  When   *)
(* one of them fails the attempt fails, but the others go on (gather), and *)
(* may still be writing while the next attempt runs.                       *)
(***************************************************************************)
EXTENDS Naturals, FiniteSets

CONSTANTS
  Docs,         \* the documents of the archive
  Present,      \* those of them that the channel has already
  Refusable,    \* those with a bundle that the channel may refuse
  Indexes,      \* the indexes of the channel
  Given,        \* for each document the indexes its bundle has records for
  BatchSize,    \* 10 in the code
  MaxAttempts,  \* 3 in the code
  MaxFaults,
  NoAttempt

Attempts == 1..MaxAttempts

ASSUME ImportAssumption ==
  /\ Present \subseteq Docs /\ Refusable \subseteq Docs
  /\ IsFiniteSet(Docs)
  /\ Given \in [Docs -> SUBSET Indexes]
  /\ BatchSize \in Nat \ {0} /\ MaxAttempts \in Nat \ {0} /\ MaxFaults \in Nat
  /\ NoAttempt \notin Attempts

VARIABLES
  upload,   \* control state of the request that uploads the archive
  archive,  \* whether the uploaded archive is in the storage
  job,      \* the import job, with the attempt whose stream is read
  attempt,  \* the coroutines that serve the attempts
  task,     \* for each attempt and document the coroutine that imports it
  file,     \* whose content a document's file and row are
  status,   \* whose status the row has
  chunks,   \* whose chunks are stored
  records,  \* how many records each index has of the old and the new content
  faults,
  apart,    \* history: attempts since whose start no other one has written
  killed    \* history: whether an attempt ended with its server

vars == <<upload, archive, job, attempt, task, file, status, chunks, records,
          faults, apart, killed>>

Steps == {"idle", "create", "status", "clear", "chunks", "remove", "add", "done", "failed",
          "refused"}

documents == <<file, status, chunks, records>>

NotYet == [pc |-> "idle", rest |-> {}, at |-> {}]
Unused == [pc |-> "idle", left |-> Docs]

Init ==
  /\ upload = "put" /\ archive = FALSE
  /\ job = [state |-> "none", attempts |-> 0, owner |-> NoAttempt]
  /\ attempt = [a \in Attempts |-> Unused]
  /\ task = [a \in Attempts |-> [d \in Docs |-> NotYet]]
  /\ file = [d \in Docs |-> IF d \in Present THEN "old" ELSE "none"]
  /\ status = file /\ chunks = file
  /\ records = [d \in Docs |-> [i \in Indexes |->
                 [old |-> IF d \in Present THEN 1 ELSE 0, new |-> 0]]]
  /\ faults = 0 /\ apart = {} /\ killed = FALSE

Fault == faults < MaxFaults /\ faults' = faults + 1
----------------------------------------------------------------------------
(* upload_channel_archive *)

Request == UNCHANGED <<attempt, task, documents, faults, apart, killed>>

PutArchive ==
  /\ upload = "put"
  /\ archive' = TRUE
  /\ upload' = "enqueue"
  /\ UNCHANGED job /\ Request

(* enqueue_job finds the application accessible or not. *)
EnqueueImport ==
  /\ upload = "enqueue"
  /\ \/ job' = [job EXCEPT !.state = "queued"] /\ upload' = "done"
     \/ upload' = "delete" /\ UNCHANGED job
  /\ UNCHANGED archive /\ Request

WithdrawArchive ==
  /\ upload = "delete"
  /\ archive' = FALSE
  /\ upload' = "done"
  /\ UNCHANGED job /\ Request
----------------------------------------------------------------------------
(* import_channel_archive and import_channel *)

(* Mutant of Retried: the attempts are not counted. *)
RetriedAgain == [job EXCEPT !.state = "queued", !.owner = NoAttempt]

Retried ==
  IF job.attempts + 1 < MaxAttempts
  THEN [state |-> "queued", attempts |-> job.attempts + 1, owner |-> NoAttempt]
  ELSE [job EXCEPT !.state = "exception", !.owner = NoAttempt]

Succeeded == [job EXCEPT !.state = "successful", !.owner = NoAttempt]

Goto(a, pc) == attempt' = [attempt EXCEPT ![a].pc = pc]

Attempt == UNCHANGED <<upload, documents>>

Pick ==
  LET a == job.attempts + 1 IN
  /\ job.state = "queued"
  /\ job' = [job EXCEPT !.state = "picked", !.owner = a]
  /\ Goto(a, "check")
  /\ apart' = IF \E b \in Attempts, d \in Docs :
                   task[b][d].pc \notin {"idle", "done", "failed"}
              THEN apart ELSE apart \union {a}
  /\ UNCHANGED <<archive, task, faults, killed>> /\ Attempt

(* Without the file an assertion fails; a file that is no archive of such a *)
(* channel is an InvalidRequestError.                                       *)
CheckArchive(a) ==
  /\ attempt[a].pc = "check"
  /\ IF archive THEN Goto(a, "extract") \/ (Refusable # {} /\ Goto(a, "refused"))
     ELSE Goto(a, "raised")
  /\ UNCHANGED <<archive, job, task, faults, apart, killed>> /\ Attempt

(* _import_from_zip_file: the documents of the next batch, all at a time. *)
StartBatch(a) ==
  /\ attempt[a].pc = "extract" /\ attempt[a].left # {}
  /\ \E batch \in SUBSET attempt[a].left :
       /\ IF Cardinality(attempt[a].left) <= BatchSize THEN batch = attempt[a].left
          ELSE Cardinality(batch) = BatchSize
       /\ task' = [task EXCEPT ![a] = [d \in Docs |->
            IF d \in batch THEN [NotYet EXCEPT !.pc = "create", !.rest = Given[d]] ELSE task[a][d]]]
       /\ attempt' = [attempt EXCEPT ![a] = [pc |-> "wait", left |-> @.left \ batch]]
  /\ UNCHANGED <<archive, job, faults, apart, killed>> /\ Attempt

(* Mutant of EndBatch: exceptions of tasks are returned, not raised. *)
EndBatchOfAny(a) ==
  /\ attempt[a].pc = "wait"
  /\ \A d \in Docs : task[a][d].pc \in {"idle", "done", "failed", "refused"}
  /\ Goto(a, "extract")
  /\ UNCHANGED <<archive, job, task, faults, apart, killed>> /\ Attempt

(* Mutant of EndBatch: the archive is deleted after any exception. *)
EndBatchDeleting(a) ==
  /\ attempt[a].pc = "wait"
  /\ \/ /\ \A d \in Docs : task[a][d].pc \in {"idle", "done"}
        /\ Goto(a, "extract") /\ UNCHANGED archive
     \/ /\ \E d \in Docs : task[a][d].pc \in {"failed", "refused"}
        /\ Goto(a, "raised") /\ archive' = FALSE
  /\ UNCHANGED <<job, task, faults, apart, killed>> /\ Attempt

(* gather: all are done, or the first exception is raised. *)
EndBatch(a) ==
  /\ attempt[a].pc = "wait"
  /\ \/ /\ \A d \in Docs : task[a][d].pc \in {"idle", "done"}
        /\ Goto(a, "extract")
     \/ (\E d \in Docs : task[a][d].pc = "failed") /\ Goto(a, "raised")
     \/ (\E d \in Docs : task[a][d].pc = "refused") /\ Goto(a, "refused")
  /\ UNCHANGED <<archive, job, task, faults, apart, killed>> /\ Attempt

(* The archive goes when the import is complete, or is given up because of  *)
(* an InvalidRequestError, which is not raised.                             *)
DeleteArchive(a) ==
  /\ \/ attempt[a].pc = "extract" /\ attempt[a].left = {} /\ Goto(a, "returned")
     \/ attempt[a].pc = "refused" /\ Goto(a, "gave up")
  /\ archive' = FALSE
  /\ UNCHANGED <<job, task, faults, apart, killed>> /\ Attempt

(* The worker reads the end of the stream. *)
EndAttempt(a) ==
  /\ job.owner = a
  /\ \/ attempt[a].pc \in {"returned", "gave up"} /\ job' = Succeeded
     \/ attempt[a].pc = "raised" /\ job' = Retried
  /\ UNCHANGED <<archive, attempt, task, faults, apart, killed>> /\ Attempt

Working(a) == attempt[a].pc \in {"check", "extract", "wait", "refused"}

(* Any step of the attempt itself may raise. *)
AttemptFails(a) ==
  /\ Working(a) /\ Fault
  /\ Goto(a, "raised")
  /\ UNCHANGED <<archive, job, task, apart, killed>> /\ Attempt

(* The worker loses the stream and tries again. *)
LoseStream(a) ==
  /\ job.owner = a /\ Fault
  /\ job' = Retried
  /\ UNCHANGED <<archive, attempt, task, apart, killed>> /\ Attempt

(* A heartbeat finds the worker gone: the attempt is cancelled, and with it *)
(* the tasks that it waits for.                                             *)
Abandon(a) ==
  /\ Working(a) /\ job.owner # a
  /\ Goto(a, "raised")
  /\ task' = IF attempt[a].pc = "wait" THEN [task EXCEPT ![a] = [d \in Docs |-> NotYet]]
             ELSE task
  /\ UNCHANGED <<archive, job, faults, apart, killed>> /\ Attempt

(* A server dies with the attempts it runs; the worker sees the end of a    *)
(* stream, or an error.                                                     *)
ServerDies(dead) ==
  /\ \E a \in dead : Working(a)
  /\ Fault
  /\ attempt' = [a \in Attempts |->
       IF a \in dead /\ Working(a) THEN [attempt[a] EXCEPT !.pc = "raised"] ELSE attempt[a]]
  /\ task' = [a \in Attempts |-> IF a \in dead THEN [d \in Docs |-> NotYet] ELSE task[a]]
  /\ killed' = TRUE
  /\ job' \in IF job.owner \in dead /\ Working(job.owner) THEN {Succeeded, Retried} ELSE {job}
  /\ UNCHANGED <<archive, apart>> /\ Attempt
----------------------------------------------------------------------------
(* import_document *)

Next1(a, d, pc) == task' = [task EXCEPT ![a][d].pc = pc]

(* Another attempt wrote: the ones before are not on their own any more. *)
Import(a) ==
  /\ apart' = apart \intersect {a}
  /\ UNCHANGED <<upload, archive, job, attempt, faults, killed>>

CreateDocument(a, d) ==
  /\ task[a][d].pc = "create"
  /\ file' = [file EXCEPT ![d] = "new"]
  /\ status' = [status EXCEPT ![d] = IF file[d] = "new" THEN @ ELSE "created"]
  /\ Next1(a, d, "status")
  /\ UNCHANGED <<chunks, records>> /\ Import(a)

SetStatus(a, d) ==
  /\ task[a][d].pc = "status"
  /\ status' = [status EXCEPT ![d] = "new"]
  /\ Next1(a, d, "clear")
  /\ UNCHANGED <<file, chunks, records>> /\ Import(a)

DeleteChunks(a, d) ==
  /\ task[a][d].pc = "clear"
  /\ chunks' = [chunks EXCEPT ![d] = "none"]
  /\ Next1(a, d, "chunks")
  /\ UNCHANGED <<file, status, records>> /\ Import(a)

(* After the last index, or when there is none. *)
Following(rest) == IF rest = {} THEN "done" ELSE "remove"

(* The primary key of the chunks refuses a second copy. *)
AddChunks(a, d) ==
  /\ task[a][d].pc = "chunks"
  /\ IF chunks[d] = "none"
     THEN chunks' = [chunks EXCEPT ![d] = "new"] /\ Next1(a, d, Following(task[a][d].rest))
     ELSE Next1(a, d, "failed") /\ UNCHANGED chunks
  /\ UNCHANGED <<file, status, records>> /\ Import(a)

(* Mutant of RemoveRecords: an index is only emptied of other contents. *)
RemoveOldRecords(a, d) ==
  /\ task[a][d].pc = "remove"
  /\ \E i \in task[a][d].rest :
       /\ records' = [records EXCEPT ![d][i].old = 0]
       /\ task' = [task EXCEPT ![a][d] = [pc |-> "add", rest |-> @.rest \ {i}, at |-> {i}]]
  /\ UNCHANGED <<file, status, chunks>> /\ Import(a)

(* The indexes of the channel, one after the other (`rest': those left). *)
RemoveRecords(a, d) ==
  /\ task[a][d].pc = "remove"
  /\ \E i \in task[a][d].rest :
       /\ records' = [records EXCEPT ![d][i] = [old |-> 0, new |-> 0]]
       /\ task' = [task EXCEPT ![a][d] = [pc |-> "add", rest |-> @.rest \ {i}, at |-> {i}]]
  /\ UNCHANGED <<file, status, chunks>> /\ Import(a)

AddRecords(a, d) ==
  /\ task[a][d].pc = "add"
  /\ records' = [records EXCEPT ![d] = [i \in Indexes |->
       IF i \in task[a][d].at THEN [records[d][i] EXCEPT !.new = @ + 1]
       ELSE records[d][i]]]
  /\ task' = [task EXCEPT ![a][d].pc = Following(task[a][d].rest), ![a][d].at = {}]
  /\ UNCHANGED <<file, status, chunks>> /\ Import(a)

(* The bundle is not valid, or its content type is not accepted. *)
RefuseDocument(a, d) ==
  /\ task[a][d].pc = "create" /\ d \in Refusable
  /\ Next1(a, d, "refused")
  /\ UNCHANGED documents /\ Import(a)

TaskFails(a, d) ==
  /\ task[a][d].pc \notin {"idle", "done", "failed", "refused"} /\ Fault
  /\ Next1(a, d, "failed")
  /\ UNCHANGED <<upload, archive, job, attempt, documents, apart, killed>>
----------------------------------------------------------------------------
RequestStep == PutArchive \/ EnqueueImport \/ WithdrawArchive

AttemptStep(a) ==
  CheckArchive(a) \/ StartBatch(a) \/ EndBatch(a) \/ DeleteArchive(a) \/ EndAttempt(a)
  \/ Abandon(a)

TaskStep(a, d) ==
  \/ CreateDocument(a, d) \/ SetStatus(a, d) \/ DeleteChunks(a, d) \/ AddChunks(a, d)
  \/ RemoveRecords(a, d) \/ AddRecords(a, d) \/ RefuseDocument(a, d)

Next ==
  \/ RequestStep \/ Pick
  \/ \E a \in Attempts : AttemptStep(a) \/ AttemptFails(a) \/ LoseStream(a)
  \/ \E dead \in SUBSET Attempts : ServerDies(dead)
  \/ \E a \in Attempts, d \in Docs : TaskStep(a, d) \/ TaskFails(a, d)

Spec == Init /\ [][Next]_vars

(* The worker picks the job, and coroutines that can go on do. *)
FairSpec ==
  /\ Spec
  /\ WF_vars(RequestStep) /\ WF_vars(Pick)
  /\ \A a \in Attempts : WF_vars(AttemptStep(a))
  /\ \A a \in Attempts, d \in Docs : WF_vars(TaskStep(a, d))
----------------------------------------------------------------------------
TypeOK ==
  /\ upload \in {"put", "enqueue", "delete", "done"} /\ archive \in BOOLEAN
  /\ job \in [state : {"none", "queued", "picked", "successful", "exception"},
              attempts : 0..(MaxAttempts - 1), owner : Attempts \union {NoAttempt}]
  /\ attempt \in [Attempts -> [pc : {"idle", "check", "extract", "wait", "refused", "raised",
                                    "returned", "gave up"}, left : SUBSET Docs]]
  /\ task \in [Attempts -> [Docs -> [pc : Steps, rest : SUBSET Indexes, at : SUBSET Indexes]]]
  /\ file \in [Docs -> {"none", "old", "new"}]
  /\ status \in [Docs -> {"none", "old", "created", "new"}]
  /\ chunks \in [Docs -> {"none", "old", "new"}]
  /\ records \in [Docs -> [Indexes -> [old : {0, 1}, new : Nat]]]
  /\ faults \in 0..MaxFaults /\ apart \in SUBSET Attempts /\ killed \in BOOLEAN

(* The document is the one of the archive, in every store that the bundle   *)
(* has data for.                                                            *)
Imported(d) ==
  /\ file[d] = "new" /\ status[d] = "new" /\ chunks[d] = "new"
  /\ \A i \in Given[d] : records[d][i] = [old |-> 0, new |-> 1]

(* An import that has returned has made every document what the archive     *)
(* says, exactly once, whatever earlier attempts have left half done, as    *)
(* long as none of their tasks was still at work beside it.                 *)
ReturnedIsImported ==
  \A a \in apart : attempt[a].pc = "returned" => \A d \in Docs : Imported(d)

(* An import that will be tried again finds its archive: the file is        *)
(* deleted only when an attempt was complete or gave up.                    *)
RetryFindsArchive ==
  (job.state = "queued" /\ \A a \in Attempts : attempt[a].pc \notin {"returned", "gave up"})
    => archive

(* The job of an import counts as successful only when every document was   *)
(* written, unless the archive was refused or a server died.                *)
SuccessMeansComplete ==
  (job.state = "successful" /\ ~killed /\ \A a \in Attempts : attempt[a].pc # "gave up")
    => \A d \in Docs : file[d] = "new" /\ status[d] # "old"

(* An import that was accepted ends. *)
ImportEnds ==
  (job.state = "queued") ~> (job.state \in {"successful", "exception"})
============================================================================
