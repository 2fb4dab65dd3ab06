-------------------------- MODULE JobWorkerProofs --------------------------
(* Proofs of the safety properties of JobWorker, for any number of jobs,   *)
(* streams, attempts and faults.                                           *)
EXTENDS JobWorker, TLAPS

Rows == [state : {"none", "queued", "picked", "successful", "exception", "canceled"},
         attempts : 0..(MaxAttempts - 1), owner : Servers \union {NoServer}]

Streams == [job : Jobs \union {NoJob}, stream : {"open", "cancelling", "closed"},
            task : {"none", "running", "returned", "raised"},
            linked : BOOLEAN, sent : {"nothing", "message", "exception"}]

(* The steps of one job, and of one stream. *)
JobAction(j) ==
  \/ EnqueueJob(j) \/ (\E s \in Servers : Pick(j, s)) \/ Refused(j) \/ Receive(j)
  \/ LoseWorker(j) \/ LoseStream(j) \/ CancelJob(j)

StreamAction(s) == StreamStep(s) \/ TaskEnds(s) \/ ServerDies(s)

MainAction ==
  WorkerStep \/ WorkerEnds \/ StopWorker \/ AccessChanges \/ ForgetAccess \/ CheckAccess

LEMMA NextSplits ==
  ASSUME Next
  PROVE  MainAction \/ (\E j \in Jobs : JobAction(j)) \/ (\E s \in Servers : StreamAction(s))
BY DEF Next, MainAction, JobAction, JobStep, StreamAction

LEMMA RetriedType ==
  ASSUME WorkerAssumption, job \in [Jobs -> Rows], NEW j \in Jobs
  PROVE  Retried(j) \in [Jobs -> Rows]
<1>1. NoRow \in Rows /\ [NoRow EXCEPT !.state = "exception"] \in Rows
  BY DEF NoRow, Rows, WorkerAssumption
<1>2. CASE job[j].attempts + 1 < MaxAttempts
  <2>1. [state |-> "queued", attempts |-> job[j].attempts + 1, owner |-> NoServer] \in Rows
    BY <1>2 DEF Rows, WorkerAssumption
  <2> QED BY <2>1, <1>2 DEF Retried
<1>3. CASE ~(job[j].attempts + 1 < MaxAttempts)
  BY <1>1, <1>3 DEF Retried
<1> QED BY <1>2, <1>3

LEMMA EndedType ==
  ASSUME WorkerAssumption, job \in [Jobs -> Rows], NEW j \in Jobs,
         NEW state \in {"successful", "canceled"}
  PROVE  Ended(j, state) \in [Jobs -> Rows]
BY DEF Ended, NoRow, Rows, WorkerAssumption

LEMMA UnlinkedType ==
  ASSUME serve \in [Servers -> Streams], NEW s
  PROVE  Unlinked(s) \in [Servers -> Streams]
BY DEF Unlinked, Streams

(* The types hold in every state, and no job is tried more often than       *)
(* MaxAttempts times (_executor_factory).                                   *)
THEOREM WorkerTypeCorrect == Spec => []TypeOK
<1> USE WorkerAssumption
<1>1. Init => TypeOK
  <2> SUFFICES ASSUME Init PROVE TypeOK
    OBVIOUS
  <2>1. job \in [Jobs -> Rows]
    BY DEF Init, NoRow, Rows, WorkerAssumption
  <2>2. serve \in [Servers -> Streams]
    BY DEF Init, Closed, Streams
  <2>3. late \in BOOLEAN /\ access \in BOOLEAN
    BY DEF Init
  <2> QED BY <2>1, <2>2, <2>3 DEF Init, TypeOK, Tasks, Rows, Streams, WorkerAssumption
<1>2. ASSUME TypeOK, [Next]_vars
      PROVE  TypeOK'
  <2> job \in [Jobs -> Rows] /\ serve \in [Servers -> Streams]
    BY <1>2 DEF TypeOK, Rows, Streams
  <2> Closed \in Streams
    BY DEF Closed, Streams
  <2>1. CASE MainAction
    <3>1. late' \in BOOLEAN
      BY <1>2, <2>1, Zenon DEF TypeOK, MainAction, WorkerStep, RunWorker, OnTaskDone, WorkerStops,
         MainEnds, WorkerEnds, StopWorker, AccessChanges, ForgetAccess, CheckAccess, supervisor
    <3>2. access' \in BOOLEAN
      BY <1>2, <2>1, Zenon DEF TypeOK, MainAction, WorkerStep, RunWorker, OnTaskDone, WorkerStops,
         MainEnds, WorkerEnds, StopWorker, AccessChanges, ForgetAccess, CheckAccess, Supervise
    <3>3. UNCHANGED <<job, serve, answered>>
      BY <2>1 DEF MainAction, WorkerStep, RunWorker, OnTaskDone, WorkerStops,
         MainEnds, WorkerEnds, StopWorker, AccessChanges, ForgetAccess, CheckAccess, Supervise
    <3>4. /\ main' \in {"up", "stopping", "over"} /\ worker' \in Tasks
          /\ failures' \in Nat /\ crashes' \in 0..MaxCrashes /\ faults' \in 0..MaxFaults
          /\ known' \in {"unknown", "yes", "no"}
      BY <1>2, <2>1 DEF TypeOK, MainAction, WorkerStep, RunWorker, OnTaskDone, WorkerStops,
         MainEnds, WorkerEnds, StopWorker, AccessChanges, ForgetAccess, CheckAccess, Supervise,
         supervisor, Tasks, Overflows, WorkerAssumption
    <3> QED BY <1>2, <3>1, <3>2, <3>3, <3>4 DEF TypeOK
  <2>2. ASSUME NEW j \in Jobs, JobAction(j)
        PROVE  TypeOK'
    <3>1. job' \in [Jobs -> Rows]
      <4>1. CASE EnqueueJob(j)
        BY <4>1 DEF EnqueueJob, NoRow, Rows, WorkerAssumption
      <4>2. CASE \E s \in Servers : Pick(j, s)
        <5> PICK s \in Servers : Pick(j, s)
          BY <4>2
        <5>1. job' = [job EXCEPT ![j] = [job[j] EXCEPT !.state = "picked", !.owner = s]]
          BY DEF Pick
        <5>2. ASSUME NEW x \in Rows
              PROVE  [x EXCEPT !.state = "picked", !.owner = s] \in Rows
          BY DEF Rows
        <5> QED BY <5>1, <5>2
      <4>3. CASE Refused(j) \/ LoseStream(j)
        BY <4>3, RetriedType DEF Refused, LoseStream
      <4>4. CASE Receive(j)
        BY <4>4, RetriedType, EndedType DEF Receive
      <4>5. CASE LoseWorker(j)
        <5>1. CASE job' = Retried(j)
          BY <5>1, RetriedType
        <5>2. CASE job' = [job EXCEPT ![j].state = "queued", ![j].owner = NoServer]
          <6>1. job' = [job EXCEPT ![j] = [job[j] EXCEPT !.state = "queued", !.owner = NoServer]]
            BY <5>2
          <6>2. ASSUME NEW x \in Rows
                PROVE  [x EXCEPT !.state = "queued", !.owner = NoServer] \in Rows
            BY DEF Rows
          <6> QED BY <6>1, <6>2
        <5> QED BY <4>5, <5>1, <5>2 DEF LoseWorker
      <4>6. CASE CancelJob(j)
        BY <4>6, EndedType DEF CancelJob
      <4> QED BY <2>2, <4>1, <4>2, <4>3, <4>4, <4>5, <4>6 DEF JobAction
    <3>2. serve' \in [Servers -> Streams]
      <4>1. CASE \E s \in Servers : Pick(j, s)
        BY <4>1 DEF Pick, Streams
      <4>2. CASE EnqueueJob(j) \/ Refused(j)
        BY <4>2 DEF EnqueueJob, Refused
      <4>3. CASE Receive(j)
        BY <4>3 DEF Receive
      <4>4. CASE LoseWorker(j) \/ LoseStream(j) \/ CancelJob(j)
        BY <4>4, UnlinkedType DEF LoseWorker, LoseStream, CancelJob
      <4> QED BY <2>2, <4>1, <4>2, <4>3, <4>4 DEF JobAction
    <3>3. /\ UNCHANGED <<main, worker, failures, crashes, access, known, late>>
          /\ faults' \in 0..MaxFaults /\ answered' \in SUBSET (Jobs \union {NoJob})
      BY <1>2, <2>2 DEF TypeOK, JobAction, EnqueueJob, Pick, Refused, Receive, LoseWorker,
         LoseStream, CancelJob, supervisor, WorkerAssumption
    <3> QED BY <1>2, <3>1, <3>2, <3>3 DEF TypeOK, Rows, Streams
  <2>3. ASSUME NEW s \in Servers, StreamAction(s)
        PROVE  TypeOK'
    <3>1. serve' \in [Servers -> Streams]
      BY <2>3 DEF StreamAction, StreamStep, Report, Desert, TaskStops, Forget, TaskEnds,
         ServerDies, Streams
    <3>2. answered' \in SUBSET (Jobs \union {NoJob})
      BY <1>2, <2>3 DEF TypeOK, StreamAction, StreamStep, Report, Desert, TaskStops, Forget,
         TaskEnds, ServerDies, Stream
    <3>3. /\ UNCHANGED <<main, worker, failures, crashes, access, known, late, job>>
          /\ faults' \in 0..MaxFaults
      BY <1>2, <2>3 DEF TypeOK, StreamAction, StreamStep, Report, Desert, TaskStops, Forget,
         TaskEnds, ServerDies, Stream, supervisor, WorkerAssumption
    <3> QED BY <1>2, <3>1, <3>2, <3>3 DEF TypeOK, Rows, Streams
  <2>4. CASE UNCHANGED vars
    BY <1>2, <2>4 DEF TypeOK, vars
  <2> QED BY <1>2, <2>1, <2>2, <2>3, <2>4, NextSplits
<1> QED BY <1>1, <1>2, PTL DEF Spec

----------------------------------------------------------------------------
(* Until it is stopped there is a worker, unless the delay has overflowed   *)
(* (_worker_main).  The invariant also says when the task was cancelled.    *)
WorkerInv ==
  /\ WorkerLives
  /\ worker \in {"cancelled", "none"} => main # "up" \/ Overflows(failures)

THEOREM WorkerLivesCorrect == Spec => []WorkerLives
<1>1. Init => WorkerInv
  BY DEF Init, WorkerInv, WorkerLives
<1>2. ASSUME WorkerInv, [Next]_vars
      PROVE  WorkerInv'
  <2>1. CASE MainAction
    BY <1>2, <2>1 DEF WorkerInv, WorkerLives, MainAction, WorkerStep, RunWorker, OnTaskDone,
       WorkerStops, MainEnds, WorkerEnds, StopWorker, AccessChanges, ForgetAccess, CheckAccess,
       Supervise, supervisor
  <2>2. CASE ~MainAction
    <3>1. UNCHANGED <<main, worker, failures>>
      BY <1>2, <2>2, NextSplits DEF JobAction, EnqueueJob, Pick, Refused, Receive, LoseWorker,
         LoseStream, CancelJob, StreamAction, StreamStep, Report, Desert, TaskStops, Forget,
         TaskEnds, ServerDies, Stream, supervisor, vars
    <3> QED BY <1>2, <3>1 DEF WorkerInv, WorkerLives, Overflows
  <2> QED BY <2>1, <2>2
<1>3. WorkerInv => WorkerLives
  BY DEF WorkerInv
<1> QED BY <1>1, <1>2, <1>3, PTL DEF Spec

(* No worker goes on after _worker_main, unless one ended by itself while   *)
(* it was being stopped.  A task that _worker_main does not wait for has     *)
(* ended by itself.                                                         *)
StopInv ==
  /\ main = "over" => late \/ worker \in {"cancelled", "crashed", "none"}

THEOREM StopsForGoodCorrect == Spec => []StopsForGood
<1>1. Init => StopInv
  BY DEF Init, StopInv
<1>2. ASSUME StopInv, TypeOK, [Next]_vars
      PROVE  StopInv'
  <2>1. CASE MainAction
    <3>1. CASE RunWorker \/ WorkerEnds \/ WorkerStops
      BY <1>2, <3>1, Zenon DEF StopInv, RunWorker, WorkerEnds, WorkerStops
    <3>2. CASE OnTaskDone
      BY <1>2, <3>2, Zenon DEF StopInv, OnTaskDone
    <3>3. CASE StopWorker \/ MainEnds
      BY <1>2, <3>3, Zenon DEF StopInv, StopWorker, MainEnds, TypeOK, Tasks
    <3>4. CASE AccessChanges \/ ForgetAccess \/ CheckAccess
      BY <1>2, <3>4 DEF StopInv, AccessChanges, ForgetAccess, CheckAccess, supervisor
    <3> QED BY <2>1, <3>1, <3>2, <3>3, <3>4 DEF MainAction, WorkerStep
  <2>2. CASE ~MainAction
    <3>1. UNCHANGED <<main, worker, late>>
      BY <1>2, <2>2, NextSplits DEF JobAction, EnqueueJob, Pick, Refused, Receive, LoseWorker,
         LoseStream, CancelJob, StreamAction, StreamStep, Report, Desert, TaskStops, Forget,
         TaskEnds, ServerDies, Stream, supervisor, vars
    <3> QED BY <1>2, <3>1 DEF StopInv
  <2> QED BY <2>1, <2>2
<1>3. StopInv => StopsForGood
  BY DEF StopInv, StopsForGood
<1> QED BY <1>1, <1>2, <1>3, WorkerTypeCorrect, PTL DEF Spec

----------------------------------------------------------------------------
(* The stream that the worker of a picked job reads is a stream of that job, *)
(* which the API does not give up; what it says of the end is true.          *)
OwnerInv(j) ==
  job[j].state = "picked" =>
    /\ job[j].owner \in Servers
    /\ LET x == serve[job[j].owner] IN
       /\ x.job = j /\ x.linked /\ x.stream # "cancelling"
       /\ x.task = "returned" => j \in answered
       /\ x.stream = "closed" => x.sent = "exception" \/ j \in answered

DoneInv == DoneMeansRan /\ \A j \in Jobs : OwnerInv(j)

(* A successful job was run, or its server died (_event_stream_helper,      *)
(* run_as_event_stream).                                                    *)
THEOREM DoneMeansRanCorrect == Spec => []DoneMeansRan
<1>1. Init => DoneInv
  BY DEF Init, DoneInv, DoneMeansRan, OwnerInv, NoRow
<1>2. ASSUME DoneInv, TypeOK, [Next]_vars
      PROVE  DoneInv'
  <2> job \in [Jobs -> Rows] /\ serve \in [Servers -> Streams]
    BY <1>2 DEF TypeOK, Rows, Streams
  <2> USE <1>2 DEF DoneInv
  <2>1. CASE MainAction
    BY <2>1 DEF DoneMeansRan, OwnerInv, MainAction, WorkerStep, RunWorker, OnTaskDone,
       WorkerStops, MainEnds, WorkerEnds, StopWorker, AccessChanges, ForgetAccess, CheckAccess,
       Supervise
  <2>2. ASSUME NEW j \in Jobs, JobAction(j), NEW k \in Jobs
        PROVE  /\ job'[k].state = "successful" => k \in answered'
               /\ OwnerInv(k)'
    <3>1. CASE EnqueueJob(j)
      BY <3>1 DEF EnqueueJob, OwnerInv, DoneMeansRan, NoRow, Active, Rows
    <3>2. CASE \E s \in Servers : Pick(j, s)
      <4> PICK s \in Servers : Pick(j, s)
        BY <3>2
      <4> QED BY DEF Pick, OwnerInv, DoneMeansRan, Closed, Rows, Streams, WorkerAssumption
    <3>3. CASE Refused(j)
      BY <3>3 DEF Refused, Retried, OwnerInv, DoneMeansRan, NoRow, Rows
    <3>4. CASE Receive(j)
      BY <3>4 DEF Receive, Retried, Ended, OwnerInv, DoneMeansRan, NoRow, Rows
    <3>5. CASE LoseWorker(j)
      BY <3>5 DEF LoseWorker, Retried, Unlinked, OwnerInv, DoneMeansRan, NoRow, Rows, Streams
    <3>6. CASE LoseStream(j)
      BY <3>6 DEF LoseStream, Retried, Unlinked, OwnerInv, DoneMeansRan, NoRow, Rows, Streams
    <3>7. CASE CancelJob(j)
      BY <3>7 DEF CancelJob, Ended, Unlinked, OwnerInv, DoneMeansRan, NoRow, Rows, Streams
    <3> QED BY <2>2, <3>1, <3>2, <3>3, <3>4, <3>5, <3>6, <3>7 DEF JobAction
  <2>3. ASSUME NEW s \in Servers, StreamAction(s), NEW k \in Jobs
        PROVE  /\ job'[k].state = "successful" => k \in answered'
               /\ OwnerInv(k)'
    <3>1. CASE Report(s)
      BY <3>1 DEF Report, Stream, OwnerInv, DoneMeansRan, Rows, Streams
    <3>2. CASE Desert(s) \/ TaskStops(s) \/ Forget(s)
      BY <3>2 DEF Desert, TaskStops, Forget, Stream, OwnerInv, DoneMeansRan, Rows, Streams
    <3>3. CASE TaskEnds(s)
      BY <3>3 DEF TaskEnds, Stream, OwnerInv, DoneMeansRan, Rows, Streams
    <3>4. CASE ServerDies(s)
      BY <3>4 DEF ServerDies, OwnerInv, DoneMeansRan, Rows, Streams
    <3> QED BY <2>3, <3>1, <3>2, <3>3, <3>4 DEF StreamAction, StreamStep
  <2>4. CASE UNCHANGED vars
    BY <2>4 DEF vars, DoneMeansRan, OwnerInv
  <2> QED BY <2>1, <2>2, <2>3, <2>4, NextSplits DEF DoneMeansRan
<1>3. DoneInv => DoneMeansRan
  BY DEF DoneInv
<1> QED BY <1>1, <1>2, <1>3, WorkerTypeCorrect, PTL DEF Spec
============================================================================
