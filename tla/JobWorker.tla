----------------------------- MODULE JobWorker -----------------------------
(***************************************************************************)
(* Background jobs (app/jobs.py): the supervised worker, the attempts of a *)
(* job, and the event stream through which the API runs it.                *)
(*                                                                         *)
(* An attempt is a request of the worker to the API.  The API runs the job *)
(* as a task and streams heartbeats and then its result; either side may   *)
(* lose the other.  pgqueuer is modelled as the code relies on it.         *)
(***************************************************************************)
EXTENDS Integers, FiniteSets

CONSTANTS
  Jobs,          \* dedupe keys, one job each at a time
  Entrypoint,    \* the entrypoint of each job
  Limit,         \* concurrency_limit of each entrypoint
  Servers,       \* event streams that the API can have open
  MaxAttempts,   \* max_attempts of the executor (3 in the code)
  MaxDoublings,  \* greatest n for which 2.0 ** n is a float (1023)
  MaxCrashes,    \* bound on runs of the worker that end by themselves
  MaxFaults,     \* bound on the other faults
  NoServer, NoJob

EntrypointName == {"reindex_document", "create_channel_archive", "import_channel_archive"}

ASSUME WorkerAssumption ==
  /\ Entrypoint \in [Jobs -> EntrypointName]
  /\ Limit \in [EntrypointName -> Nat \ {0}]
  /\ MaxAttempts \in Nat \ {0} /\ MaxDoublings \in Nat
  /\ MaxCrashes \in Nat /\ MaxFaults \in Nat
  /\ NoServer \notin Servers /\ NoJob \notin Jobs

VARIABLES
  main,      \* _worker_main: up, stopping (the worker task is cancelled) or over
  worker,    \* the task `worker_task'
  failures,  \* runs of it in a row that were not stable
  crashes,   \* how often it has ended by itself
  access,    \* whether the application answers to the global api-key
  known,     \* _check_application_access: the cached answer, if there is one
  job,       \* the row of each job, and the stream that its worker reads
  serve,     \* the streams
  faults,
  answered,  \* history: jobs of which an attempt has returned, or died with its server
  late       \* history: whether the worker ended by itself while it was stopped

vars == <<main, worker, failures, crashes, access, known, job, serve, faults,
          answered, late>>

supervisor == <<main, worker, failures, crashes, late>>

(* A worker task that has ended waits for its done callback. *)
Tasks == {"sleeping", "running", "cancelled", "crashed", "none"}

Closed == [job |-> NoJob, stream |-> "closed", task |-> "none", linked |-> FALSE,
           sent |-> "nothing"]

NoRow == [state |-> "none", attempts |-> 0, owner |-> NoServer]

Init ==
  /\ main = "up" /\ worker = "sleeping" /\ failures = 0 /\ crashes = 0
  /\ access = TRUE /\ known = "unknown"
  /\ job = [j \in Jobs |-> NoRow]
  /\ serve = [s \in Servers |-> Closed]
  /\ faults = 0 /\ answered = {} /\ late = FALSE
----------------------------------------------------------------------------
(* _worker_main *)

Supervise == UNCHANGED <<access, known, job, serve, faults, answered>>

(* Mutant of RunWorker: the shutdown event of the run before is not cleared. *)
RunWorkerShut ==
  /\ worker = "sleeping" /\ crashes = 0
  /\ worker' = "running"
  /\ UNCHANGED <<main, failures, crashes, late>> /\ Supervise

(* _run: after the delay pgqueuer runs. *)
RunWorker ==
  /\ worker = "sleeping"
  /\ worker' = "running"
  /\ UNCHANGED <<main, failures, crashes, late>> /\ Supervise

(* The listener fails, or pgqueuer ends with an exception. *)
WorkerEnds ==
  /\ worker = "running" /\ crashes < MaxCrashes
  /\ worker' = "crashed"
  /\ crashes' = crashes + 1
  /\ late' = (late \/ main # "up")
  /\ UNCHANGED <<main, failures>> /\ Supervise

(* The delay is min(2.0 ** (failures - 1), 60): the power is computed first *)
(* and overflows, whereupon the callback ends without a new task.           *)
Overflows(n) == n - 1 > MaxDoublings

(* Mutant of OnTaskDone: no new task after a stable run. *)
OnTaskDoneFailed ==
  /\ worker \in {"cancelled", "crashed"}
  /\ failures' \in IF worker = "cancelled" THEN {failures} ELSE {0, failures + 1}
  /\ worker' = IF worker = "cancelled" \/ failures' = 0 THEN "none" ELSE "sleeping"
  /\ late' = (late \/ (worker = "crashed" /\ main # "up"))
  /\ UNCHANGED <<main, crashes>> /\ Supervise

(* Mutant of OnTaskDone: a cancelled task is followed by another as well. *)
OnTaskDoneAlways ==
  /\ worker \in {"cancelled", "crashed"}
  /\ worker' = "sleeping"
  /\ late' = (late \/ (worker = "crashed" /\ main # "up"))
  /\ UNCHANGED <<main, failures, crashes>> /\ Supervise

(* _on_task_done *)
OnTaskDone ==
  /\ \/ /\ worker = "cancelled"
        /\ worker' = "none"
        /\ UNCHANGED <<failures, late>>
     \/ /\ worker = "crashed"
        /\ failures' \in {0, failures + 1}     \* a stable run, or not
        /\ worker' = IF Overflows(failures') THEN "none" ELSE "sleeping"
        /\ late' = (late \/ main # "up")
  /\ UNCHANGED <<main, crashes>> /\ Supervise

(* A signal sets the stop event; the loop ends and the task is cancelled.   *)
(* A task that has ended already is not waited for.                         *)
StopWorker ==
  /\ main = "up"
  /\ main' = IF worker \in {"sleeping", "running"} THEN "stopping" ELSE "over"
  /\ UNCHANGED <<worker, failures, crashes, late>> /\ Supervise

(* The cancellation reaches the task, which may answer it with an exception. *)
WorkerStops ==
  /\ main = "stopping" /\ worker \in {"sleeping", "running"} /\ ~late
  /\ worker' = "cancelled"
  /\ UNCHANGED <<main, failures, crashes, late>> /\ Supervise

(* wait_for returns with the task that was cancelled, or with its exception. *)
MainEnds ==
  /\ main = "stopping" /\ (worker \in {"cancelled", "crashed", "none"} \/ late)
  /\ main' = "over"
  /\ UNCHANGED <<worker, failures, crashes, late>> /\ Supervise
----------------------------------------------------------------------------
(* Submitting *)

AccessChanges ==
  /\ faults < MaxFaults /\ faults' = faults + 1
  /\ access' = ~access
  /\ UNCHANGED <<supervisor, known, job, serve, answered>>

(* The answer is an hour old. *)
ForgetAccess ==
  /\ known # "unknown" /\ known' = "unknown"
  /\ UNCHANGED <<supervisor, access, job, serve, faults, answered>>

(* enqueue_job: FALSE makes the request do the work itself. *)
CheckAccess ==
  /\ known = "unknown"
  /\ known' = IF access THEN "yes" ELSE "no"
  /\ UNCHANGED <<supervisor, access, job, serve, faults, answered>>

Active == {"queued", "picked"}

EnqueueJob(j) ==
  /\ known = "yes" /\ job[j].state \notin Active
  /\ job' = [job EXCEPT ![j] = [NoRow EXCEPT !.state = "queued"]]
  /\ answered' = answered \ {j}
  /\ UNCHANGED <<supervisor, access, known, serve, faults>>
----------------------------------------------------------------------------
(* Attempts: the side of the worker *)

Running(e) == {j \in Jobs : Entrypoint[j] = e /\ job[j].state = "picked"}

(* An exception, of which a cancellation is made one too (_executor_factory): *)
(* the job is queued again until its attempts are used up.                    *)
Retried(j) ==
  [job EXCEPT ![j] =
    IF job[j].attempts + 1 < MaxAttempts
    THEN [state |-> "queued", attempts |-> job[j].attempts + 1, owner |-> NoServer]
    ELSE [NoRow EXCEPT !.state = "exception"]]

(* The row leaves the queue for the log. *)
Ended(j, state) == [job EXCEPT ![j] = [NoRow EXCEPT !.state = state]]

Unlinked(s) == [serve EXCEPT ![s].linked = FALSE]

Pick(j, s) ==
  /\ worker = "running" /\ job[j].state = "queued" /\ access
  /\ Cardinality(Running(Entrypoint[j])) < Limit[Entrypoint[j]]
  /\ serve[s] = Closed
  /\ job' = [job EXCEPT ![j].state = "picked", ![j].owner = s]
  /\ serve' = [serve EXCEPT ![s] = [job |-> j, stream |-> "open", task |-> "running",
                                    linked |-> TRUE, sent |-> "nothing"]]
  /\ UNCHANGED <<supervisor, access, known, faults, answered>>

(* The API refuses the request of an attempt. *)
Refused(j) ==
  /\ worker = "running" /\ job[j].state = "queued" /\ ~access
  /\ job' = Retried(j)
  /\ UNCHANGED <<supervisor, access, known, serve, faults, answered>>

(* _event_stream_helper: the stream is over.  An event `exception' is raised; *)
(* everything else counts as the end of the job.                              *)
Receive(j) ==
  LET s == job[j].owner IN
  /\ job[j].state = "picked" /\ serve[s].stream = "closed"
  /\ job' = IF serve[s].sent = "exception" THEN Retried(j) ELSE Ended(j, "successful")
  /\ serve' = [serve EXCEPT ![s] = Closed]
  /\ UNCHANGED <<supervisor, access, known, faults, answered>>

(* No heartbeat for 30 seconds, or the connection breaks. *)
LoseStream(j) ==
  /\ job[j].state = "picked" /\ faults < MaxFaults
  /\ faults' = faults + 1
  /\ job' = Retried(j)
  /\ serve' = Unlinked(job[j].owner)
  /\ UNCHANGED <<supervisor, access, known, answered>>

(* The worker that held the job is no longer there. *)
LoseWorker(j) ==
  /\ job[j].state = "picked" /\ worker # "running"
  /\ \/ job' = Retried(j)
     \/ job' = [job EXCEPT ![j].state = "queued", ![j].owner = NoServer]  \* no heartbeats
  /\ serve' = Unlinked(job[j].owner)
  /\ UNCHANGED <<supervisor, access, known, faults, answered>>

(* Only the archive jobs leave their stream then (context.cancellation); a *)
(* reindex job is read to its end, whatever it is.                         *)
CancelJob(j) ==
  /\ job[j].state \in Active
  /\ job' = Ended(j, "canceled")
  /\ serve' = IF job[j].state = "picked" /\ Entrypoint[j] # "reindex_document"
              THEN Unlinked(job[j].owner) ELSE serve
  /\ UNCHANGED <<supervisor, access, known, faults, answered>>
----------------------------------------------------------------------------
(* Attempts: run_as_event_stream *)

Stream(s) == UNCHANGED <<supervisor, access, known, job, faults>>

(* The coroutine of the job returns or raises. *)
TaskEnds(s) ==
  /\ serve[s].task = "running"
  /\ \/ /\ serve' = [serve EXCEPT ![s].task = "returned"]
        /\ answered' = answered \union {serve[s].job}
     \/ /\ serve' = [serve EXCEPT ![s].task = "raised"]
        /\ UNCHANGED answered
  /\ Stream(s)

(* Mutant of Report: the exception of the task is not sent. *)
ReportResult(s) ==
  /\ serve[s].stream = "open" /\ serve[s].task \in {"returned", "raised"}
  /\ serve' = [serve EXCEPT ![s].stream = "closed", ![s].task = "none",
       ![s].sent = IF serve[s].task = "returned" THEN "message" ELSE "nothing"]
  /\ Stream(s) /\ UNCHANGED answered

(* The loop finds the task done; the result or the exception is an event. *)
Report(s) ==
  /\ serve[s].stream = "open" /\ serve[s].task \in {"returned", "raised"}
  /\ serve' = [serve EXCEPT ![s].stream = "closed", ![s].task = "none",
       ![s].sent = IF serve[s].task = "returned" THEN "message" ELSE "exception"]
  /\ Stream(s) /\ UNCHANGED answered

(* Mutant of Desert: the connection is looked at only when the task is done. *)
DesertWhenDone(s) ==
  /\ serve[s].stream = "open" /\ serve[s].task = "returned" /\ ~serve[s].linked
  /\ serve' = [serve EXCEPT ![s].stream = "cancelling"]
  /\ Stream(s) /\ UNCHANGED answered

(* A heartbeat finds the worker gone: there is no result yet, which is an    *)
(* exception nobody hears of; the task is cancelled and waited for.          *)
Desert(s) ==
  /\ serve[s].stream = "open" /\ serve[s].task = "running" /\ ~serve[s].linked
  /\ serve' = [serve EXCEPT ![s].stream = "cancelling"]
  /\ Stream(s) /\ UNCHANGED answered

TaskStops(s) ==
  /\ serve[s].stream = "cancelling"
  /\ serve' = [serve EXCEPT ![s] = Closed]
  /\ Stream(s) /\ UNCHANGED answered

(* The last events of a stream whose job is no longer there. *)
Forget(s) ==
  /\ serve[s].stream = "closed" /\ serve[s] # Closed
  /\ job[serve[s].job].owner # s
  /\ serve' = [serve EXCEPT ![s] = Closed]
  /\ Stream(s) /\ UNCHANGED answered

(* The API process ends; the worker sees a stream that was closed. *)
ServerDies(s) ==
  /\ serve[s].stream # "closed" /\ faults < MaxFaults
  /\ faults' = faults + 1
  /\ serve' = [serve EXCEPT ![s].stream = "closed", ![s].task = "none"]
  /\ answered' = answered \union {serve[s].job}
  /\ UNCHANGED <<supervisor, access, known, job>>
----------------------------------------------------------------------------
WorkerStep == RunWorker \/ OnTaskDone \/ WorkerStops \/ MainEnds

JobStep(j) ==
  (\E s \in Servers : Pick(j, s)) \/ Refused(j) \/ Receive(j) \/ LoseWorker(j)

StreamStep(s) == Report(s) \/ Desert(s) \/ TaskStops(s) \/ Forget(s)

Next ==
  \/ WorkerStep \/ WorkerEnds \/ StopWorker
  \/ AccessChanges \/ ForgetAccess \/ CheckAccess
  \/ \E j \in Jobs : EnqueueJob(j) \/ JobStep(j) \/ LoseStream(j) \/ CancelJob(j)
  \/ \E s \in Servers : StreamStep(s) \/ TaskEnds(s) \/ ServerDies(s)

Spec == Init /\ [][Next]_vars

(* The event loops run what can go on, and the worker polls its queue.  A   *)
(* job need not end, unless it is cancelled.                                *)
FairSpec ==
  /\ Spec
  /\ WF_vars(WorkerStep)
  /\ \A j \in Jobs : WF_vars(JobStep(j))
  /\ \A s \in Servers : WF_vars(StreamStep(s))
----------------------------------------------------------------------------
TypeOK ==
  /\ main \in {"up", "stopping", "over"} /\ worker \in Tasks
  /\ failures \in Nat /\ crashes \in 0..MaxCrashes
  /\ access \in BOOLEAN /\ known \in {"unknown", "yes", "no"}
  /\ job \in [Jobs -> [state : {"none", "queued", "picked", "successful", "exception", "canceled"},
                       attempts : 0..(MaxAttempts - 1), owner : Servers \union {NoServer}]]
  /\ serve \in [Servers -> [job : Jobs \union {NoJob}, stream : {"open", "cancelling", "closed"},
                            task : {"none", "running", "returned", "raised"},
                            linked : BOOLEAN, sent : {"nothing", "message", "exception"}]]
  /\ faults \in 0..MaxFaults
  /\ answered \in SUBSET (Jobs \union {NoJob}) /\ late \in BOOLEAN

(* A job counts as successful only after one of its attempts has returned,  *)
(* although streams break, are retried and end alike with a result and      *)
(* without one; a server that died is the exception (_event_stream_helper). *)
DoneMeansRan ==
  \A j \in Jobs : job[j].state = "successful" => j \in answered

(* Until it is stopped there is a worker, or one about to be made, after    *)
(* any number of runs that failed, as long as the delay can be computed.    *)
WorkerLives == main = "up" => worker # "none" \/ Overflows(failures)

(* When _worker_main is over no worker goes on, unless one ended by itself  *)
(* at that very moment, which has its callback make another.                *)
StopsForGood == main = "over" /\ worker \in {"sleeping", "running"} => late

(* A run that its worker has left comes to its end, however long the job is *)
(* (run_as_event_stream).                                                   *)
DesertedEnds ==
  \A s \in Servers :
    (serve[s].stream = "open" /\ ~serve[s].linked) ~> (serve[s].stream # "open")

(* The entrypoint of a job is at its limit, or the API is.                  *)
Busy(j) ==
  \/ Cardinality(Running(Entrypoint[j])) >= Limit[Entrypoint[j]]
  \/ \A s \in Servers : serve[s] # Closed

(* A queued job is tried, however often the worker fails on the way, unless *)
(* it is being stopped or other jobs take its place.                        *)
QueuedIsTried ==
  \A j \in Jobs :
    (job[j].state = "queued")
      ~> (job[j].state # "queued" \/ Busy(j) \/ main # "up" \/ Overflows(failures))
============================================================================
