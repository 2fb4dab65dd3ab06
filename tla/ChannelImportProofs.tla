------------------------ MODULE ChannelImportProofs ------------------------
(* Proofs of the safety properties of ChannelImport, for any number of      *)
(* documents, indexes, attempts and faults.                                 *)
EXTENDS ChannelImport, TLAPS

Jobs == [state : {"none", "queued", "picked", "successful", "exception"},
         attempts : 0..(MaxAttempts - 1), owner : Attempts \union {NoAttempt}]

Serving == [pc : {"idle", "check", "extract", "wait", "refused", "raised", "returned",
                  "gave up"}, left : SUBSET Docs]

Tasks == [pc : Steps, rest : SUBSET Indexes, at : SUBSET Indexes]

Counts == [old : {0, 1}, new : Nat]

TaskTypes == task \in [Attempts -> [Docs -> Tasks]]

(* The steps that leave the documents alone. *)
Control ==
  \/ RequestStep \/ Pick
  \/ \E a \in Attempts : AttemptStep(a) \/ AttemptFails(a) \/ LoseStream(a)
  \/ \E dead \in SUBSET Attempts : ServerDies(dead)

Work(a, d) == TaskStep(a, d) \/ TaskFails(a, d)

LEMMA NextSplits ==
  ASSUME Next
  PROVE  Control \/ (\E a \in Attempts, d \in Docs : Work(a, d))
BY DEF Next, Control, Work

LEMMA TaskStepType ==
  ASSUME ImportAssumption, TaskTypes, NEW a \in Attempts, NEW d \in Docs,
         NEW pc \in Steps, Next1(a, d, pc)
  PROVE  TaskTypes'
<1>1. [task[a][d] EXCEPT !.pc = pc] \in Tasks
  <2>1. ASSUME NEW x \in Tasks PROVE [x EXCEPT !.pc = pc] \in Tasks
    BY DEF Tasks
  <2> QED BY <2>1 DEF TaskTypes
<1>2. task' = [task EXCEPT ![a] = [task[a] EXCEPT ![d] = [task[a][d] EXCEPT !.pc = pc]]]
  BY DEF Next1
<1> QED BY <1>1, <1>2 DEF TaskTypes

LEMMA FollowingType == ASSUME NEW rest PROVE Following(rest) \in Steps
BY DEF Following, Steps

LEMMA JobTypes ==
  ASSUME ImportAssumption, job \in Jobs
  PROVE  /\ Retried \in Jobs /\ Succeeded \in Jobs
         /\ [job EXCEPT !.state = "queued"] \in Jobs
         /\ job.state = "queued" =>
              [job EXCEPT !.state = "picked", !.owner = job.attempts + 1] \in Jobs
<1>1. Retried \in Jobs
  <2>1. CASE job.attempts + 1 < MaxAttempts
    <3>1. job.attempts + 1 \in 0..(MaxAttempts - 1)
      BY <2>1 DEF Jobs, ImportAssumption
    <3> QED BY <2>1, <3>1 DEF Retried, Jobs
  <2>2. CASE ~(job.attempts + 1 < MaxAttempts)
    BY <2>2 DEF Retried, Jobs
  <2> QED BY <2>1, <2>2
<1>2. Succeeded \in Jobs /\ [job EXCEPT !.state = "queued"] \in Jobs
  BY DEF Succeeded, Jobs
<1>3. job.attempts + 1 \in Attempts
  BY DEF Jobs, Attempts, ImportAssumption
<1>4. [job EXCEPT !.state = "picked", !.owner = job.attempts + 1] \in Jobs
  BY <1>3 DEF Jobs
<1> QED BY <1>1, <1>2, <1>4

LEMMA ControlTypes ==
  ASSUME ImportAssumption, TypeOK, Control
  PROVE  /\ job' \in Jobs /\ TaskTypes' /\ attempt' \in [Attempts -> Serving]
         /\ UNCHANGED documents
<1> job \in Jobs /\ TaskTypes /\ attempt \in [Attempts -> Serving]
  BY DEF TypeOK, Jobs, TaskTypes, Tasks, Serving
<1> NotYet \in Tasks
  BY DEF NotYet, Tasks, Steps
<1>1. CASE RequestStep
  BY <1>1, JobTypes DEF RequestStep, PutArchive, EnqueueImport, WithdrawArchive, Request,
     documents, TaskTypes
<1>2. CASE Pick
  BY <1>2, JobTypes DEF Pick, Goto, Attempt, documents, TaskTypes, Serving
<1>3. ASSUME NEW a \in Attempts,
             AttemptStep(a) \/ AttemptFails(a) \/ LoseStream(a)
      PROVE  /\ job' \in Jobs /\ TaskTypes' /\ attempt' \in [Attempts -> Serving]
             /\ UNCHANGED documents
  <2>1. job' \in Jobs
    BY <1>3, JobTypes DEF AttemptStep, CheckArchive, StartBatch, EndBatch, DeleteArchive,
       EndAttempt, Abandon, AttemptFails, LoseStream
  <2>2. TaskTypes'
    <3>1. CASE StartBatch(a)
      <4>1. ASSUME NEW d \in Docs
            PROVE  [NotYet EXCEPT !.pc = "create", !.rest = Given[d]] \in Tasks
        BY DEF NotYet, Tasks, Steps, ImportAssumption
      <4> PICK batch \in SUBSET attempt[a].left :
            task' = [task EXCEPT ![a] = [d \in Docs |->
               IF d \in batch THEN [NotYet EXCEPT !.pc = "create", !.rest = Given[d]]
               ELSE task[a][d]]]
        BY <3>1 DEF StartBatch
      <4> DEFINE started == [d \in Docs |->
               IF d \in batch THEN [NotYet EXCEPT !.pc = "create", !.rest = Given[d]]
               ELSE task[a][d]]
      <4>2. started \in [Docs -> Tasks]
        <5>1. task[a] \in [Docs -> Tasks]
          BY DEF TaskTypes
        <5>2. ASSUME NEW d \in Docs PROVE started[d] \in Tasks
          BY <4>1, <5>1
        <5> QED BY <5>2
      <4>3. task' = [task EXCEPT ![a] = started]
        OBVIOUS
      <4> HIDE DEF started
      <4> QED BY <4>2, <4>3 DEF TaskTypes
    <3>2. CASE Abandon(a)
      BY <3>2 DEF Abandon, TaskTypes
    <3> QED BY <1>3, <3>1, <3>2 DEF AttemptStep, CheckArchive, EndBatch, DeleteArchive,
       EndAttempt, AttemptFails, LoseStream, TaskTypes
  <2>3. attempt' \in [Attempts -> Serving]
    <3>1. CASE StartBatch(a)
      <4> PICK batch \in SUBSET attempt[a].left :
            attempt' = [attempt EXCEPT ![a] = [pc |-> "wait", left |-> attempt[a].left \ batch]]
        BY <3>1 DEF StartBatch
      <4>1. attempt[a] \in Serving
        OBVIOUS
      <4>2. [pc |-> "wait", left |-> attempt[a].left \ batch] \in Serving
        BY <4>1 DEF Serving
      <4> QED BY <4>2
    <3>2. ASSUME NEW pc \in {"extract", "wait", "refused", "raised", "returned", "gave up"},
                 Goto(a, pc)
          PROVE  attempt' \in [Attempts -> Serving]
      <4>1. ASSUME NEW x \in Serving PROVE [x EXCEPT !.pc = pc] \in Serving
        BY DEF Serving
      <4>2. attempt' = [attempt EXCEPT ![a] = [attempt[a] EXCEPT !.pc = pc]]
        BY <3>2 DEF Goto
      <4> QED BY <4>1, <4>2
    <3> QED BY <1>3, <3>1, <3>2 DEF AttemptStep, CheckArchive, EndBatch, DeleteArchive,
       EndAttempt, Abandon, AttemptFails, LoseStream
  <2>4. UNCHANGED documents
    BY <1>3 DEF AttemptStep, CheckArchive, StartBatch, EndBatch, DeleteArchive, EndAttempt,
       Abandon, AttemptFails, LoseStream, Attempt, documents
  <2> QED BY <2>1, <2>2, <2>3, <2>4
<1>4. ASSUME NEW dead \in SUBSET Attempts, ServerDies(dead)
      PROVE  /\ job' \in Jobs /\ TaskTypes' /\ attempt' \in [Attempts -> Serving]
             /\ UNCHANGED documents
  <2>1. ASSUME NEW x \in Serving PROVE [x EXCEPT !.pc = "raised"] \in Serving
    BY DEF Serving
  <2> QED BY <1>4, <2>1, JobTypes DEF ServerDies, TaskTypes, Attempt, documents
<1> QED BY <1>1, <1>2, <1>3, <1>4 DEF Control

LEMMA ControlFlags ==
  ASSUME ImportAssumption, TypeOK, Control
  PROVE  /\ archive' \in BOOLEAN /\ killed' \in BOOLEAN
         /\ upload' \in {"put", "enqueue", "delete", "done"}
         /\ faults' \in 0..MaxFaults /\ apart' \in SUBSET Attempts
<1> /\ archive \in BOOLEAN /\ killed \in BOOLEAN
    /\ upload \in {"put", "enqueue", "delete", "done"}
    /\ faults \in 0..MaxFaults /\ apart \in SUBSET Attempts
  BY DEF TypeOK
<1>1. CASE RequestStep
  BY <1>1 DEF RequestStep, PutArchive, EnqueueImport, WithdrawArchive, Request
<1>2. CASE Pick
  <2> job \in Jobs
    BY DEF TypeOK, Jobs
  <2>1. job.attempts + 1 \in Attempts
    BY DEF Jobs, Attempts, ImportAssumption
  <2>2. apart' \in SUBSET Attempts
    BY <1>2, <2>1 DEF Pick
  <2> QED BY <1>2, <2>2 DEF Pick, Attempt
<1>3. ASSUME NEW a \in Attempts, AttemptStep(a)
      PROVE  UNCHANGED <<upload, faults, apart, killed>> /\ archive' \in BOOLEAN
  BY <1>3 DEF AttemptStep, CheckArchive, StartBatch, EndBatch, DeleteArchive, EndAttempt,
     Abandon, Attempt
<1>4. ASSUME NEW a \in Attempts, AttemptFails(a) \/ LoseStream(a)
      PROVE  /\ UNCHANGED <<upload, archive, apart, killed>> /\ faults' \in 0..MaxFaults
  BY <1>4 DEF AttemptFails, LoseStream, Attempt, Fault, ImportAssumption
<1>5. ASSUME NEW dead \in SUBSET Attempts, ServerDies(dead)
      PROVE  /\ UNCHANGED <<upload, archive, apart>> /\ faults' \in 0..MaxFaults
             /\ killed' \in BOOLEAN
  BY <1>5 DEF ServerDies, Attempt, Fault, ImportAssumption
<1> QED BY <1>1, <1>2, <1>3, <1>4, <1>5 DEF Control

LEMMA WorkTypes ==
  ASSUME ImportAssumption, TypeOK, NEW a \in Attempts, NEW d \in Docs, Work(a, d)
  PROVE  /\ TaskTypes' /\ UNCHANGED <<upload, archive, job, attempt, killed>>
         /\ file' \in [Docs -> {"none", "old", "new"}]
         /\ status' \in [Docs -> {"none", "old", "created", "new"}]
         /\ chunks' \in [Docs -> {"none", "old", "new"}]
         /\ records' \in [Docs -> [Indexes -> Counts]]
         /\ faults' \in 0..MaxFaults /\ apart' \in SUBSET Attempts
<1> TaskTypes /\ records \in [Docs -> [Indexes -> Counts]]
  BY DEF TypeOK, TaskTypes, Tasks, Counts
<1>1. TaskTypes'
  <2>1. CASE CreateDocument(a, d) \/ SetStatus(a, d) \/ DeleteChunks(a, d)
             \/ RefuseDocument(a, d) \/ TaskFails(a, d)
    BY <2>1, TaskStepType DEF CreateDocument, SetStatus, DeleteChunks, RefuseDocument,
       TaskFails, Steps
  <2>2. CASE AddChunks(a, d)
    BY <2>2, TaskStepType, FollowingType DEF AddChunks, Steps
  <2>3. CASE RemoveRecords(a, d)
    <3> PICK i \in task[a][d].rest :
          task' = [task EXCEPT ![a][d] = [pc |-> "add", rest |-> @.rest \ {i}, at |-> {i}]]
      BY <2>3 DEF RemoveRecords
    <3>1. task[a][d] \in Tasks
      BY DEF TaskTypes
    <3>2. [pc |-> "add", rest |-> task[a][d].rest \ {i}, at |-> {i}] \in Tasks
      BY <3>1 DEF Tasks, Steps
    <3> QED BY <3>2 DEF TaskTypes
  <2>4. CASE AddRecords(a, d)
    <3>1. ASSUME NEW x \in Tasks
          PROVE  [x EXCEPT !.pc = Following(x.rest), !.at = {}] \in Tasks
      BY FollowingType DEF Tasks
    <3>2. task' = [task EXCEPT ![a] = [task[a] EXCEPT ![d] =
             [task[a][d] EXCEPT !.pc = Following(task[a][d].rest), !.at = {}]]]
      BY <2>4 DEF AddRecords
    <3> QED BY <3>1, <3>2 DEF TaskTypes
  <2> QED BY <2>1, <2>2, <2>3, <2>4 DEF Work, TaskStep
<1>2. records' \in [Docs -> [Indexes -> Counts]]
  <2>1. CASE RemoveRecords(a, d)
    <3> PICK i \in task[a][d].rest :
          records' = [records EXCEPT ![d][i] = [old |-> 0, new |-> 0]]
      BY <2>1 DEF RemoveRecords
    <3>1. [old |-> 0, new |-> 0] \in Counts
      BY DEF Counts
    <3> QED BY <3>1
  <2>2. CASE AddRecords(a, d)
    <3>1. ASSUME NEW x \in Counts PROVE [x EXCEPT !.new = @ + 1] \in Counts
      BY DEF Counts
    <3>2. records' = [records EXCEPT ![d] = [i \in Indexes |->
             IF i \in task[a][d].at THEN [records[d][i] EXCEPT !.new = @ + 1] ELSE records[d][i]]]
      BY <2>2 DEF AddRecords
    <3> QED BY <3>1, <3>2
  <2>3. CASE ~(RemoveRecords(a, d) \/ AddRecords(a, d))
    BY <2>3 DEF Work, TaskStep, CreateDocument, SetStatus, DeleteChunks, AddChunks,
       RefuseDocument, TaskFails, documents
  <2> QED BY <2>1, <2>2, <2>3
<1>3. /\ file' \in [Docs -> {"none", "old", "new"}]
      /\ status' \in [Docs -> {"none", "old", "created", "new"}]
      /\ chunks' \in [Docs -> {"none", "old", "new"}]
  BY DEF TypeOK, Work, TaskStep, CreateDocument, SetStatus, DeleteChunks, AddChunks,
     RemoveRecords, AddRecords, RefuseDocument, TaskFails, documents
<1>4. UNCHANGED <<upload, archive, job, attempt, killed>>
  BY DEF Work, TaskStep, CreateDocument, SetStatus, DeleteChunks, AddChunks,
     RemoveRecords, AddRecords, RefuseDocument, TaskFails, Import
<1>5. faults' \in 0..MaxFaults /\ apart' \in SUBSET Attempts
  <2> faults \in 0..MaxFaults /\ apart \in SUBSET Attempts
    BY DEF TypeOK
  <2>1. CASE TaskFails(a, d)
    BY <2>1 DEF TaskFails, Fault, ImportAssumption
  <2>2. CASE TaskStep(a, d)
    BY <2>2 DEF TaskStep, CreateDocument, SetStatus, DeleteChunks, AddChunks,
       RemoveRecords, AddRecords, RefuseDocument, Import
  <2> QED BY <2>1, <2>2 DEF Work
<1> QED BY <1>1, <1>2, <1>3, <1>4, <1>5

(* The types hold in every state, and an import is tried no more than        *)
(* MaxAttempts times.                                                        *)
THEOREM ImportTypeCorrect == Spec => []TypeOK
<1> USE ImportAssumption
<1>1. Init => TypeOK
  <2> SUFFICES ASSUME Init PROVE TypeOK
    OBVIOUS
  <2>1. job \in Jobs
    BY DEF Init, Jobs
  <2>2. task \in [Attempts -> [Docs -> Tasks]]
    BY DEF Init, NotYet, Tasks, Steps
  <2>3. attempt \in [Attempts -> Serving]
    BY DEF Init, Unused, Serving
  <2>4. records \in [Docs -> [Indexes -> Counts]]
    BY DEF Init, Counts
  <2>5. archive \in BOOLEAN /\ killed \in BOOLEAN
    BY DEF Init
  <2>6. /\ file \in [Docs -> {"none", "old", "new"}]
        /\ status \in [Docs -> {"none", "old", "created", "new"}]
        /\ chunks \in [Docs -> {"none", "old", "new"}]
    BY DEF Init
  <2>7. /\ upload \in {"put", "enqueue", "delete", "done"}
        /\ faults \in 0..MaxFaults /\ apart \in SUBSET Attempts
    BY DEF Init
  <2> QED BY <2>1, <2>2, <2>3, <2>4, <2>5, <2>6, <2>7 DEF TypeOK, Jobs, Tasks, Serving, Counts
<1>2. ASSUME TypeOK, [Next]_vars
      PROVE  TypeOK'
  <2>1. CASE Control
    BY <1>2, <2>1, ControlTypes, ControlFlags DEF TypeOK, Jobs, Tasks, TaskTypes, Serving,
       documents
  <2>2. ASSUME NEW a \in Attempts, NEW d \in Docs, Work(a, d)
        PROVE  TypeOK'
    <3>1. /\ archive' \in BOOLEAN /\ killed' \in BOOLEAN
      BY <1>2, <2>2, WorkTypes, Zenon DEF TypeOK
    <3>2. /\ job' \in Jobs /\ attempt' \in [Attempts -> Serving]
          /\ upload' \in {"put", "enqueue", "delete", "done"}
      BY <1>2, <2>2, WorkTypes DEF TypeOK, Jobs, Serving
    <3> QED BY <1>2, <2>2, <3>1, <3>2, WorkTypes DEF TypeOK, TaskTypes, Tasks, Counts, Jobs,
       Serving
  <2>3. CASE UNCHANGED vars
    BY <1>2, <2>3 DEF TypeOK, vars
  <2> QED BY <1>2, <2>1, <2>2, <2>3, NextSplits
<1> QED BY <1>1, <1>2, PTL DEF Spec

(* How far the attempts have come: at most one is served, numbered by the    *)
(* attempts before it, and later ones are not used yet.                      *)
Started == IF job.state \in {"none", "queued"} THEN job.attempts ELSE job.attempts + 1

Numbering ==
  /\ job.state = "picked" <=> job.owner # NoAttempt
  /\ job.owner # NoAttempt => job.owner = job.attempts + 1
  /\ job.state = "none" => job.attempts = 0
  /\ \A b \in Attempts : b > Started => attempt[b].pc = "idle" /\ b \notin apart

(* Which tasks an attempt has started and waited for. *)
Phase(a, d) ==
  /\ attempt[a].pc \in {"idle", "check"} => d \in attempt[a].left
  /\ attempt[a].pc \in {"idle", "check", "extract"} =>
       task[a][d].pc = IF d \in attempt[a].left THEN "idle" ELSE "done"
  /\ attempt[a].pc = "wait" => (task[a][d].pc = "idle" <=> d \in attempt[a].left)
  /\ attempt[a].pc = "returned" => task[a][d].pc \in {"done", "idle"}

Phases == \A a \in Attempts, d \in Docs : Phase(a, d)

Ending == {"returned", "gave up"}

(* The archive is there from the upload to the end of the import. *)
Kept ==
  /\ upload \in {"put", "enqueue", "delete"} => job.state = "none"
  /\ upload = "enqueue" => archive
  /\ (upload = "done" /\ job.state # "none" /\ \A a \in Attempts : attempt[a].pc \notin Ending)
       => archive

LEMMA GotoMoves ==
  ASSUME TypeOK, NEW a \in Attempts, NEW pc, Goto(a, pc)
  PROVE  \A b \in Attempts : /\ attempt'[b].left = attempt[b].left
                             /\ attempt'[b].pc = IF b = a THEN pc ELSE attempt[b].pc
<1>1. attempt \in [Attempts -> Serving]
  BY DEF TypeOK, Serving
<1>2. attempt' = [attempt EXCEPT ![a] = [attempt[a] EXCEPT !.pc = pc]]
  BY DEF Goto
<1> QED BY <1>1, <1>2 DEF Serving

LEMMA Next1Moves ==
  ASSUME TypeOK, NEW a \in Attempts, NEW d \in Docs, NEW pc, Next1(a, d, pc)
  PROVE  \A b \in Attempts, e \in Docs :
           /\ task'[b][e].rest = task[b][e].rest /\ task'[b][e].at = task[b][e].at
           /\ task'[b][e].pc = IF b = a /\ e = d THEN pc ELSE task[b][e].pc
<1>1. task \in [Attempts -> [Docs -> Tasks]]
  BY DEF TypeOK, Tasks
<1>2. task' = [task EXCEPT ![a] = [task[a] EXCEPT ![d] = [task[a][d] EXCEPT !.pc = pc]]]
  BY DEF Next1
<1> QED BY <1>1, <1>2 DEF Tasks

LEMMA DeathMoves ==
  ASSUME TypeOK, NEW dead \in SUBSET Attempts, ServerDies(dead)
  PROVE  \A b \in Attempts :
           /\ attempt'[b].left = attempt[b].left
           /\ attempt'[b].pc = IF b \in dead /\ Working(b) THEN "raised" ELSE attempt[b].pc
           /\ \A d \in Docs : task'[b][d] = IF b \in dead THEN NotYet ELSE task[b][d]
<1>1. attempt \in [Attempts -> Serving]
  BY DEF TypeOK, Serving
<1>2. ASSUME NEW b \in Attempts
      PROVE  /\ attempt'[b].left = attempt[b].left
             /\ attempt'[b].pc = IF b \in dead /\ Working(b) THEN "raised" ELSE attempt[b].pc
  <2>1. attempt'[b] = IF b \in dead /\ Working(b) THEN [attempt[b] EXCEPT !.pc = "raised"]
                      ELSE attempt[b]
    BY DEF ServerDies
  <2> QED BY <1>1, <2>1 DEF Serving
<1>3. ASSUME NEW b \in Attempts, NEW d \in Docs
      PROVE  task'[b][d] = IF b \in dead THEN NotYet ELSE task[b][d]
  BY DEF ServerDies
<1> QED BY <1>2, <1>3

(* What a step does to the job. *)
LEMMA JobMoves ==
  ASSUME ImportAssumption, TypeOK
  PROVE  /\ Succeeded.state = "successful" /\ Succeeded.owner = NoAttempt
         /\ Succeeded.attempts = job.attempts
         /\ Retried.owner = NoAttempt
         /\ \/ Retried.state = "queued" /\ Retried.attempts = job.attempts + 1
            \/ Retried.state = "exception" /\ Retried.attempts = job.attempts
         /\ [job EXCEPT !.state = "queued"].state = "queued"
         /\ [job EXCEPT !.state = "queued"].owner = job.owner
         /\ [job EXCEPT !.state = "queued"].attempts = job.attempts
         /\ \A a : /\ [job EXCEPT !.state = "picked", !.owner = a].state = "picked"
                   /\ [job EXCEPT !.state = "picked", !.owner = a].owner = a
                   /\ [job EXCEPT !.state = "picked", !.owner = a].attempts = job.attempts
<1> job \in Jobs
  BY DEF TypeOK, Jobs
<1> QED BY DEF Retried, Succeeded, Jobs

LEMMA NumberingKept ==
  ASSUME ImportAssumption, TypeOK, Numbering, Kept, [Next]_vars
  PROVE  Numbering'
<1> job \in Jobs
  BY DEF TypeOK, Jobs
<1> NoAttempt \notin Attempts /\ job.attempts \in Nat /\ Attempts \subseteq Nat
  BY DEF ImportAssumption, Jobs, Attempts
<1>1. CASE RequestStep
  <2>1. job.state = "none" \/ UNCHANGED job
    BY <1>1 DEF RequestStep, PutArchive, EnqueueImport, WithdrawArchive, Kept
  <2>2. UNCHANGED <<attempt, apart>> /\ (UNCHANGED job \/ job' = [job EXCEPT !.state = "queued"])
    BY <1>1 DEF RequestStep, PutArchive, EnqueueImport, WithdrawArchive, Request
  <2> QED BY <2>1, <2>2, JobMoves DEF Numbering, Started
<1>2. CASE Pick
  <2> DEFINE a == job.attempts + 1
  <2>1. /\ job.state = "queued" /\ job'.state = "picked" /\ job'.owner = a
        /\ job'.attempts = job.attempts
    BY <1>2, JobMoves DEF Pick
  <2>2. a \in Attempts
    BY DEF Jobs, Attempts, ImportAssumption
  <2>3. apart' \subseteq apart \union {a} /\ Goto(a, "check")
    BY <1>2 DEF Pick
  <2>4. ASSUME NEW b \in Attempts, b > a
        PROVE  attempt'[b].pc = "idle" /\ b \notin apart'
    BY <2>1, <2>2, <2>3, <2>4, GotoMoves DEF Numbering, Started
  <2> QED BY <2>1, <2>2, <2>4 DEF Numbering, Started
<1>3. ASSUME NEW a \in Attempts, AttemptStep(a) \/ AttemptFails(a) \/ LoseStream(a)
      PROVE  Numbering'
  <2>1. /\ UNCHANGED apart
        /\ UNCHANGED job \/ (job.owner = a /\ (job' = Succeeded \/ job' = Retried))
    BY <1>3 DEF AttemptStep, CheckArchive, StartBatch, EndBatch, DeleteArchive, EndAttempt,
       Abandon, AttemptFails, LoseStream
  <2>2. ASSUME NEW b \in Attempts, attempt[b].pc = "idle"
        PROVE  attempt'[b].pc = "idle"
    <3>1. CASE StartBatch(a)
      BY <2>2, <3>1 DEF StartBatch, TypeOK
    <3>2. CASE UNCHANGED attempt
      BY <2>2, <3>2
    <3>3. CASE attempt[a].pc # "idle" /\ \E pc : Goto(a, pc)
      BY <2>2, <3>3, GotoMoves
    <3> QED BY <1>3, <3>1, <3>2, <3>3 DEF AttemptStep, CheckArchive, EndBatch, DeleteArchive,
       EndAttempt, Abandon, AttemptFails, LoseStream, Working
  <2>3. Started' >= Started
    BY <2>1, JobMoves DEF Numbering, Started
  <2>4. /\ job'.state = "picked" <=> job'.owner # NoAttempt
        /\ job'.owner # NoAttempt => job'.owner = job'.attempts + 1
        /\ job'.state = "none" => job'.attempts = 0
    BY <2>1, JobMoves DEF Numbering
  <2>5. Started \in Nat /\ Started' \in Nat
    BY <2>1, JobMoves DEF Started
  <2>6. ASSUME NEW b \in Attempts, b > Started'
        PROVE  attempt'[b].pc = "idle" /\ b \notin apart'
    <3>1. b > Started
      BY <2>3, <2>5, <2>6
    <3> QED BY <2>1, <2>2, <3>1 DEF Numbering
  <2> QED BY <2>4, <2>6 DEF Numbering
<1>4. ASSUME NEW dead \in SUBSET Attempts, ServerDies(dead)
      PROVE  Numbering'
  <2>1. /\ UNCHANGED apart
        /\ UNCHANGED job \/ (job.owner \in Attempts /\ (job' = Succeeded \/ job' = Retried))
    BY <1>4 DEF ServerDies
  <2>2. ASSUME NEW b \in Attempts, attempt[b].pc = "idle"
        PROVE  attempt'[b].pc = "idle"
    BY <1>4, <2>2, DeathMoves DEF Working
  <2>3. Started' >= Started
    BY <2>1, JobMoves DEF Numbering, Started
  <2>4. /\ job'.state = "picked" <=> job'.owner # NoAttempt
        /\ job'.owner # NoAttempt => job'.owner = job'.attempts + 1
        /\ job'.state = "none" => job'.attempts = 0
    BY <2>1, JobMoves DEF Numbering
  <2>5. Started \in Nat /\ Started' \in Nat
    BY <2>1, JobMoves DEF Started
  <2>6. ASSUME NEW b \in Attempts, b > Started'
        PROVE  attempt'[b].pc = "idle" /\ b \notin apart'
    <3>1. b > Started
      BY <2>3, <2>5, <2>6
    <3> QED BY <2>1, <2>2, <3>1 DEF Numbering
  <2> QED BY <2>4, <2>6 DEF Numbering
<1>5. ASSUME NEW a \in Attempts, NEW d \in Docs, Work(a, d)
      PROVE  Numbering'
  <2>1. UNCHANGED <<job, attempt>> /\ apart' \subseteq apart
    BY <1>5 DEF Work, TaskStep, CreateDocument, SetStatus, DeleteChunks, AddChunks,
       RemoveRecords, AddRecords, RefuseDocument, TaskFails, Import
  <2> QED BY <2>1 DEF Numbering, Started
<1>6. CASE UNCHANGED vars
  BY <1>6 DEF Numbering, Started, vars
<1> QED BY <1>1, <1>2, <1>3, <1>4, <1>5, <1>6, NextSplits DEF Control

LEMMA KeptKept ==
  ASSUME ImportAssumption, TypeOK, Numbering, Kept, [Next]_vars
  PROVE  Kept'
<1> job \in Jobs
  BY DEF TypeOK, Jobs
<1> NoAttempt \notin Attempts
  BY DEF ImportAssumption
<1>1. CASE RequestStep
  BY <1>1, JobMoves DEF RequestStep, PutArchive, EnqueueImport, WithdrawArchive, Request, Kept
(* Attempts that have ended stay so, and only an end deletes the archive. *)
<1>2. ASSUME UNCHANGED <<upload, archive>>, job'.state = "none" <=> job.state = "none",
             \A b \in Attempts : attempt[b].pc \in Ending => attempt'[b].pc \in Ending
      PROVE  Kept'
  BY <1>2 DEF Kept
<1>3. CASE Pick
  <2>1. job.attempts + 1 \in Attempts
    BY DEF Jobs, Attempts, ImportAssumption
  <2>2. attempt[job.attempts + 1].pc = "idle"
    BY <1>3, <2>1 DEF Pick, Numbering, Started, Jobs
  <2>3. \A b \in Attempts : attempt[b].pc \in Ending => attempt'[b].pc \in Ending
    BY <1>3, <2>1, <2>2, GotoMoves DEF Pick, Ending
  <2>4. job'.state = "none" <=> job.state = "none"
    BY <1>3, JobMoves DEF Pick
  <2> QED BY <1>2, <1>3, <2>3, <2>4 DEF Pick, Attempt
<1>4. ASSUME NEW a \in Attempts, DeleteArchive(a)
      PROVE  Kept'
  <2>1. job.state # "none"
    <3>1. attempt[a].pc # "idle"
      BY <1>4 DEF DeleteArchive
    <3>2. ~(a > Started)
      BY <3>1 DEF Numbering
    <3>3. job.state = "none" => Started = 0
      BY DEF Numbering, Started
    <3> QED BY <3>2, <3>3 DEF Attempts, ImportAssumption
  <2>2. attempt'[a].pc \in Ending
    BY <1>4, GotoMoves DEF DeleteArchive, Ending
  <2> QED BY <1>4, <2>1, <2>2 DEF DeleteArchive, Kept, Attempt
<1>5. ASSUME NEW a \in Attempts, AttemptStep(a) \/ AttemptFails(a) \/ LoseStream(a),
             ~DeleteArchive(a)
      PROVE  Kept'
  <2>1. UNCHANGED <<upload, archive>>
    BY <1>5 DEF AttemptStep, CheckArchive, StartBatch, EndBatch, EndAttempt, Abandon,
       AttemptFails, LoseStream, Attempt
  <2>2. job'.state = "none" <=> job.state = "none"
    <3>1. UNCHANGED job \/ (job.owner = a /\ (job' = Succeeded \/ job' = Retried))
      BY <1>5 DEF AttemptStep, CheckArchive, StartBatch, EndBatch, EndAttempt,
         Abandon, AttemptFails, LoseStream
    <3> QED BY <3>1, JobMoves DEF Numbering
  <2>3. \A b \in Attempts : attempt[b].pc \in Ending => attempt'[b].pc \in Ending
    <3>1. CASE StartBatch(a)
      BY <3>1 DEF StartBatch, TypeOK, Ending
    <3>2. CASE UNCHANGED attempt
      BY <3>2
    <3>3. CASE attempt[a].pc \notin Ending /\ \E pc : Goto(a, pc)
      BY <3>3, GotoMoves
    <3> QED BY <1>5, <3>1, <3>2, <3>3 DEF AttemptStep, CheckArchive, EndBatch, EndAttempt,
       Abandon, AttemptFails, LoseStream, Working, Ending
  <2> QED BY <1>2, <2>1, <2>2, <2>3
<1>6. ASSUME NEW dead \in SUBSET Attempts, ServerDies(dead)
      PROVE  Kept'
  <2>1. UNCHANGED job \/ (job.owner \in Attempts /\ (job' = Succeeded \/ job' = Retried))
    BY <1>6 DEF ServerDies
  <2>2. job'.state = "none" <=> job.state = "none"
    BY <2>1, JobMoves DEF Numbering
  <2>3. \A b \in Attempts : attempt[b].pc \in Ending => attempt'[b].pc \in Ending
    BY <1>6, DeathMoves DEF Working, Ending
  <2> QED BY <1>2, <1>6, <2>2, <2>3 DEF ServerDies, Attempt
<1>7. ASSUME NEW a \in Attempts, NEW d \in Docs, Work(a, d)
      PROVE  Kept'
  BY <1>2, <1>7, WorkTypes
<1>8. CASE UNCHANGED vars
  BY <1>8 DEF Kept, vars
<1> QED BY <1>1, <1>3, <1>4, <1>5, <1>6, <1>7, <1>8, NextSplits DEF Control

(* An import that will be tried again finds its archive. *)
THEOREM RetryFindsArchiveCorrect == Spec => []RetryFindsArchive
<1> USE ImportAssumption
<1>1. Init => Numbering /\ Kept
  BY DEF Init, Unused, Numbering, Kept
<1>2. TypeOK /\ Numbering /\ Kept /\ [Next]_vars => Numbering' /\ Kept'
  BY NumberingKept, KeptKept
<1>3. TypeOK /\ Kept => RetryFindsArchive
  BY DEF TypeOK, Kept, Ending, RetryFindsArchive
<1> QED BY <1>1, <1>2, <1>3, ImportTypeCorrect, PTL DEF Spec

(* A task's own step changes no other task, and leaves its own at work. *)
LEMMA TaskGoesOn ==
  ASSUME TypeOK, NEW a \in Attempts, NEW d \in Docs, Work(a, d)
  PROVE  /\ task'[a][d].pc # "idle"
         /\ \A b \in Attempts, e \in Docs : (b # a \/ e # d) => task'[b][e] = task[b][e]
<1>1. task \in [Attempts -> [Docs -> Tasks]]
  BY DEF TypeOK, Tasks
<1>2. task[a][d] \in Tasks
  BY <1>1
<1>3. CASE CreateDocument(a, d) \/ SetStatus(a, d) \/ DeleteChunks(a, d)
           \/ RefuseDocument(a, d) \/ TaskFails(a, d) \/ AddChunks(a, d)
  <2> PICK pc \in Steps \ {"idle"} : Next1(a, d, pc)
    BY <1>3 DEF CreateDocument, SetStatus, DeleteChunks, RefuseDocument, TaskFails,
       AddChunks, Following, Steps
  <2> QED BY <1>1, Next1Moves DEF Next1
<1>4. ASSUME NEW t \in Tasks, t.pc # "idle", task' = [task EXCEPT ![a][d] = t]
      PROVE  /\ task'[a][d].pc # "idle"
             /\ \A b \in Attempts, e \in Docs : (b # a \/ e # d) => task'[b][e] = task[b][e]
  BY <1>1, <1>4
<1>5. CASE RemoveRecords(a, d)
  <2> PICK i \in task[a][d].rest :
        task' = [task EXCEPT ![a][d] = [pc |-> "add", rest |-> @.rest \ {i}, at |-> {i}]]
    BY <1>5 DEF RemoveRecords
  <2>1. [pc |-> "add", rest |-> task[a][d].rest \ {i}, at |-> {i}] \in Tasks
    BY <1>2 DEF Tasks, Steps
  <2> QED BY <2>1, <1>4
<1>6. CASE AddRecords(a, d)
  <2>1. task' = [task EXCEPT ![a][d] =
             [task[a][d] EXCEPT !.pc = Following(task[a][d].rest), !.at = {}]]
    BY <1>6 DEF AddRecords
  <2>2. ASSUME NEW t \in Tasks
        PROVE  /\ [t EXCEPT !.pc = Following(t.rest), !.at = {}] \in Tasks
               /\ [t EXCEPT !.pc = Following(t.rest), !.at = {}].pc # "idle"
    BY DEF Tasks, Following, Steps
  <2> QED BY <1>2, <1>4, <2>1, <2>2
<1> QED BY <1>3, <1>5, <1>6 DEF Work, TaskStep

LEMMA PhasesKept ==
  ASSUME ImportAssumption, TypeOK, Numbering, Phases, [Next]_vars
  PROVE  Phases'
<1> USE DEF Phases, Phase
<1>1. CASE RequestStep
  BY <1>1 DEF RequestStep, PutArchive, EnqueueImport, WithdrawArchive, Request
<1>2. CASE Pick
  <2> job \in Jobs
    BY DEF TypeOK, Jobs
  <2>1. job.attempts + 1 \in Attempts
    BY <1>2 DEF Jobs, Attempts, ImportAssumption
  <2>2. attempt[job.attempts + 1].pc = "idle"
    BY <1>2, <2>1 DEF Pick, Numbering, Started, Jobs
  <2> QED BY <1>2, <2>1, <2>2, GotoMoves DEF Pick
<1>3. ASSUME NEW a \in Attempts, CheckArchive(a) \/ AttemptFails(a)
      PROVE  Phases'
  BY <1>3, GotoMoves DEF CheckArchive, AttemptFails
<1>4. ASSUME NEW a \in Attempts, StartBatch(a)
      PROVE  Phases'
  <2>0. PICK batch \in SUBSET attempt[a].left :
        /\ task' = [task EXCEPT ![a] = [d \in Docs |->
             IF d \in batch THEN [NotYet EXCEPT !.pc = "create", !.rest = Given[d]] ELSE task[a][d]]]
        /\ attempt' = [attempt EXCEPT ![a] = [pc |-> "wait", left |-> attempt[a].left \ batch]]
    BY <1>4 DEF StartBatch
  <2>1. /\ attempt'[a].pc = "wait" /\ attempt'[a].left = attempt[a].left \ batch
        /\ \A b \in Attempts \ {a} : attempt'[b] = attempt[b] /\ task'[b] = task[b]
    BY <2>0 DEF TypeOK
  <2>2. ASSUME NEW d \in Docs
        PROVE  task'[a][d].pc = IF d \in batch THEN "create" ELSE task[a][d].pc
    BY <2>0 DEF TypeOK, NotYet
  <2>3. \A d \in Docs : (task'[a][d].pc = "idle") <=> (d \in attempt'[a].left)
    <3> SUFFICES ASSUME NEW d \in Docs
                 PROVE  (task'[a][d].pc = "idle") <=> (d \in attempt'[a].left)
      OBVIOUS
    <3>1. task[a][d].pc = IF d \in attempt[a].left THEN "idle" ELSE "done"
      BY <1>4 DEF StartBatch
    <3>2. task'[a][d].pc = IF d \in batch THEN "create" ELSE task[a][d].pc
      BY <2>2
    <3>3. attempt'[a].left = attempt[a].left \ batch
      BY <2>1
    <3> HIDE DEF Phases, Phase
    <3> QED BY <3>1, <3>2, <3>3
  <2> SUFFICES ASSUME NEW b \in Attempts, NEW d \in Docs
               PROVE  Phase(b, d)'
    OBVIOUS
  <2>4. CASE b = a
    BY <2>1, <2>3, <2>4
  <2>5. CASE b # a
    <3>1. Phase(b, d) /\ attempt'[b] = attempt[b] /\ task'[b] = task[b]
      BY <2>1, <2>5
    <3> QED BY <3>1
  <2> QED BY <2>4, <2>5
<1>5. ASSUME NEW a \in Attempts, EndBatch(a)
      PROVE  Phases'
  BY <1>5, GotoMoves DEF EndBatch
<1>6. ASSUME NEW a \in Attempts, DeleteArchive(a)
      PROVE  Phases'
  <2>1. CASE attempt[a].pc = "extract" /\ attempt[a].left = {} /\ Goto(a, "returned")
    BY <1>6, <2>1, GotoMoves DEF DeleteArchive
  <2>2. CASE attempt[a].pc = "refused" /\ Goto(a, "gave up")
    <3>1. UNCHANGED task
      BY <1>6 DEF DeleteArchive
    <3> SUFFICES ASSUME NEW b \in Attempts, NEW d \in Docs
                 PROVE  Phase(b, d)'
      OBVIOUS
    <3>2. Phase(b, d) /\ task'[b][d] = task[b][d]
      BY <3>1
    <3>3. /\ attempt'[b].left = attempt[b].left
          /\ attempt'[b].pc = IF b = a THEN "gave up" ELSE attempt[b].pc
      BY <2>2, GotoMoves
    <3> QED BY <3>2, <3>3
  <2> QED BY <1>6, <2>1, <2>2 DEF DeleteArchive
<1>7. ASSUME NEW a \in Attempts, EndAttempt(a) \/ LoseStream(a)
      PROVE  Phases'
  BY <1>7 DEF EndAttempt, LoseStream
<1>8. ASSUME NEW a \in Attempts, Abandon(a)
      PROVE  Phases'
  <2>1. \A b \in Attempts \ {a} : task'[b] = task[b]
    BY <1>8 DEF Abandon, TypeOK
  <2> QED BY <1>8, <2>1, GotoMoves DEF Abandon
<1>9. ASSUME NEW dead \in SUBSET Attempts, ServerDies(dead)
      PROVE  Phases'
  BY <1>9, DeathMoves DEF Working, NotYet
<1>10. ASSUME NEW a \in Attempts, NEW d \in Docs, Work(a, d)
       PROVE  Phases'
  <2>1. attempt' = attempt
    BY <1>10, WorkTypes
  <2>2. task[a][d].pc \notin {"idle", "done"}
    BY <1>10 DEF Work, TaskStep, CreateDocument, SetStatus, DeleteChunks, AddChunks,
       RemoveRecords, AddRecords, RefuseDocument, TaskFails
  <2>3. /\ task'[a][d].pc # "idle"
        /\ \A b \in Attempts, e \in Docs : (b # a \/ e # d) => task'[b][e] = task[b][e]
    BY <1>10, TaskGoesOn
  <2> QED BY <2>1, <2>2, <2>3
<1>11. CASE UNCHANGED vars
  BY <1>11 DEF vars
<1> QED BY <1>1, <1>2, <1>3, <1>4, <1>5, <1>6, <1>7, <1>8, <1>9, <1>10, <1>11, NextSplits
        DEF Control, AttemptStep

(* What a task has achieved so far, as long as no other attempt writes. *)
Progress(a, d) ==
  /\ task[a][d].pc \in {"create", "status", "clear", "chunks"} =>
       task[a][d].rest = Given[d] /\ task[a][d].at = {}
  /\ task[a][d].pc \in {"status", "clear", "chunks", "remove", "add", "done"} => file[d] = "new"
  /\ task[a][d].pc \in {"clear", "chunks", "remove", "add", "done"} => status[d] = "new"
  /\ task[a][d].pc = "chunks" => chunks[d] = "none"
  /\ task[a][d].pc \in {"remove", "add", "done"} =>
       /\ chunks[d] = "new"
       /\ \A i \in Given[d] \ (task[a][d].rest \union task[a][d].at) :
            records[d][i] = [old |-> 0, new |-> 1]
  /\ task[a][d].pc = "add" => \A i \in task[a][d].at : records[d][i] = [old |-> 0, new |-> 0]
  /\ task[a][d].pc = "done" => task[a][d].rest = {}
  /\ task[a][d].pc \in {"done", "remove"} => task[a][d].at = {}

(* An attempt on its own makes the documents what the archive says. *)
Alone == \A a \in apart :
  /\ \A d \in Docs : Progress(a, d)
  /\ attempt[a].pc = "returned" => \A d \in Docs : Imported(d)

LEMMA OwnStep ==
  ASSUME ImportAssumption, TypeOK, NEW a \in Attempts, NEW d \in Docs, Work(a, d), Progress(a, d)
  PROVE  Progress(a, d)'
<1> DEFINE t == task[a][d]
<1> task \in [Attempts -> [Docs -> Tasks]]
  BY DEF TypeOK, Tasks
<1> /\ file \in [Docs -> {"none", "old", "new"}]
    /\ status \in [Docs -> {"none", "old", "created", "new"}]
    /\ chunks \in [Docs -> {"none", "old", "new"}]
  BY DEF TypeOK
<1>1. task \in [Attempts -> [Docs -> Tasks]] /\ t \in Tasks
  OBVIOUS
<1>2. records \in [Docs -> [Indexes -> Counts]] /\ Given[d] \subseteq Indexes
  BY DEF TypeOK, Counts, ImportAssumption
<1>3. CASE CreateDocument(a, d)
  <2>1. task'[a][d].pc = "status" /\ task'[a][d].rest = t.rest /\ task'[a][d].at = t.at
    BY <1>3, Next1Moves DEF CreateDocument
  <2>2. t.pc = "create" /\ file'[d] = "new"
    BY <1>1, <1>3 DEF CreateDocument
  <2> QED BY <2>1, <2>2 DEF Progress
<1>4. CASE SetStatus(a, d)
  <2>1. task'[a][d].pc = "clear" /\ task'[a][d].rest = t.rest /\ task'[a][d].at = t.at
    BY <1>4, Next1Moves DEF SetStatus
  <2>2. t.pc = "status" /\ file' = file /\ status'[d] = "new"
    BY <1>1, <1>4 DEF SetStatus
  <2> QED BY <2>1, <2>2 DEF Progress
<1>5. CASE DeleteChunks(a, d)
  <2>1. task'[a][d].pc = "chunks" /\ task'[a][d].rest = t.rest /\ task'[a][d].at = t.at
    BY <1>5, Next1Moves DEF DeleteChunks
  <2>2. t.pc = "clear" /\ file' = file /\ status' = status /\ chunks'[d] = "none"
    BY <1>1, <1>5 DEF DeleteChunks
  <2> QED BY <2>1, <2>2 DEF Progress
<1>6. CASE AddChunks(a, d)
  <2>1. t.pc = "chunks" /\ chunks[d] = "none"
    BY <1>6 DEF AddChunks, Progress
  <2>2. Next1(a, d, Following(t.rest)) /\ chunks'[d] = "new" /\ UNCHANGED <<file, status, records>>
    BY <1>1, <1>6, <2>1 DEF AddChunks
  <2>3. /\ task'[a][d].pc = Following(t.rest)
        /\ task'[a][d].rest = t.rest /\ task'[a][d].at = t.at
    BY <2>2, Next1Moves
  <2>4. t.rest = Given[d] /\ t.at = {} /\ file[d] = "new" /\ status[d] = "new"
    BY <2>1 DEF Progress
  <2> QED BY <2>2, <2>3, <2>4 DEF Progress, Following
<1>7. CASE RemoveRecords(a, d)
  <2>1. PICK i \in t.rest :
          /\ records' = [records EXCEPT ![d][i] = [old |-> 0, new |-> 0]]
          /\ task' = [task EXCEPT ![a][d] = [pc |-> "add", rest |-> @.rest \ {i}, at |-> {i}]]
    BY <1>7 DEF RemoveRecords
  <2>2. /\ task'[a][d].pc = "add" /\ task'[a][d].rest = t.rest \ {i}
        /\ task'[a][d].at = {i}
    BY <1>1, <2>1
  <2>3. i \in Indexes
    BY <1>1 DEF Tasks
  <2>4. /\ records'[d][i] = [old |-> 0, new |-> 0]
        /\ \A j \in Indexes \ {i} : records'[d][j] = records[d][j]
    BY <1>2, <2>1, <2>3
  <2>5. /\ t.pc = "remove" /\ t.at = {}
        /\ \A j \in Given[d] \ t.rest : records[d][j] = [old |-> 0, new |-> 1]
    BY <1>7 DEF RemoveRecords, Progress
  <2>6. \A j \in Given[d] \ (task'[a][d].rest \union task'[a][d].at) :
          records'[d][j] = [old |-> 0, new |-> 1]
    BY <1>2, <2>2, <2>4, <2>5
  <2>7. file'[d] = "new" /\ status'[d] = "new" /\ chunks'[d] = "new"
    BY <1>7 DEF RemoveRecords, Progress
  <2> QED BY <2>2, <2>4, <2>6, <2>7 DEF Progress
<1>8. CASE AddRecords(a, d)
  <2>1. task' = [task EXCEPT ![a] = [task[a] EXCEPT ![d] =
             [t EXCEPT !.pc = Following(t.rest), !.at = {}]]]
    BY <1>8 DEF AddRecords
  <2>2. /\ task'[a][d].pc = Following(t.rest) /\ task'[a][d].rest = t.rest
        /\ task'[a][d].at = {}
    BY <1>1, <2>1 DEF Tasks
  <2>3. /\ t.pc = "add" /\ \A i \in t.at : records[d][i] = [old |-> 0, new |-> 0]
        /\ \A j \in Given[d] \ (t.rest \union t.at) : records[d][j] = [old |-> 0, new |-> 1]
    BY <1>8 DEF AddRecords, Progress
  <2>4. records'[d] = [i \in Indexes |->
          IF i \in t.at THEN [records[d][i] EXCEPT !.new = @ + 1] ELSE records[d][i]]
    BY <1>2, <1>8 DEF AddRecords
  <2>5. ASSUME NEW j \in Given[d] \ t.rest
        PROVE  records'[d][j] = [old |-> 0, new |-> 1]
    <3>1. CASE j \in t.at
      BY <1>2, <2>3, <2>4, <3>1
    <3>2. CASE j \notin t.at
      BY <1>2, <2>3, <2>4, <3>2
    <3> QED BY <3>1, <3>2
  <2>6. file'[d] = "new" /\ status'[d] = "new" /\ chunks'[d] = "new"
    BY <1>8 DEF AddRecords, Progress
  <2> QED BY <2>2, <2>5, <2>6 DEF Progress, Following
<1>9. CASE RefuseDocument(a, d) \/ TaskFails(a, d)
  <2>1. task'[a][d].pc \in {"refused", "failed"}
    BY <1>9, Next1Moves DEF RefuseDocument, TaskFails
  <2> QED BY <2>1 DEF Progress
<1> QED BY <1>3, <1>4, <1>5, <1>6, <1>7, <1>8, <1>9 DEF Work, TaskStep

LEMMA OtherDocs ==
  ASSUME TypeOK, NEW a \in Attempts, NEW d \in Docs, Work(a, d), NEW e \in Docs, e # d
  PROVE  /\ file'[e] = file[e] /\ status'[e] = status[e] /\ chunks'[e] = chunks[e]
         /\ records'[e] = records[e]
BY DEF TypeOK, Work, TaskStep, CreateDocument, SetStatus, DeleteChunks, AddChunks,
   RemoveRecords, AddRecords, RefuseDocument, TaskFails, documents

LEMMA WorkersAlone ==
  ASSUME ImportAssumption, TypeOK, Phases, Alone, NEW a \in Attempts, NEW d \in Docs, Work(a, d)
  PROVE  Alone'
<1>1. attempt' = attempt
  BY WorkTypes
<1>2. task[a][d].pc \notin {"idle", "done"}
  BY DEF Work, TaskStep, CreateDocument, SetStatus, DeleteChunks, AddChunks,
     RemoveRecords, AddRecords, RefuseDocument, TaskFails
<1>3. attempt[a].pc # "returned"
  BY <1>2 DEF Phases, Phase
<1>4. CASE TaskFails(a, d)
  <2>1. UNCHANGED <<file, status, chunks, records, apart>>
    BY <1>4 DEF TaskFails, documents
  <2>2. ASSUME NEW b \in apart, NEW e \in Docs
        PROVE  Progress(b, e)'
    <3>1. b \in Attempts
      BY DEF TypeOK
    <3>2. CASE b = a /\ e = d
      BY <3>2, OwnStep DEF Alone
    <3>3. CASE b # a \/ e # d
      <4>1. task'[b][e] = task[b][e]
        BY <3>1, <3>3, TaskGoesOn
      <4>2. Progress(b, e)
        BY DEF Alone
      <4> QED BY <2>1, <4>1, <4>2 DEF Progress
    <3> QED BY <3>2, <3>3
  <2> QED BY <1>1, <2>1, <2>2 DEF Alone, Imported
<1>5. CASE TaskStep(a, d)
  <2>1. apart' = apart \intersect {a}
    BY <1>5 DEF TaskStep, CreateDocument, SetStatus, DeleteChunks, AddChunks,
       RemoveRecords, AddRecords, RefuseDocument, Import
  <2>2. ASSUME a \in apart, NEW e \in Docs
        PROVE  Progress(a, e)'
    <3>1. Progress(a, e)
      BY <2>2 DEF Alone
    <3>2. CASE e = d
      BY <3>1, <3>2, OwnStep
    <3>3. CASE e # d
      BY <3>1, <3>3, TaskGoesOn, OtherDocs DEF Progress
    <3> QED BY <3>2, <3>3
  <2> QED BY <1>1, <1>3, <2>1, <2>2 DEF Alone
<1> QED BY <1>4, <1>5 DEF Work

LEMMA ControlAlone ==
  ASSUME ImportAssumption, TypeOK, Numbering, Phases, Alone, Control
  PROVE  Alone'
<1>1. UNCHANGED <<file, status, chunks, records>>
  BY ControlTypes DEF documents
(* Tasks that are started anew or go on, and attempts that do not return. *)
<1>2. ASSUME apart' \subseteq apart,
             \A b \in apart, d \in Docs :
               task'[b][d] = task[b][d] \/ task'[b][d] = NotYet
               \/ task'[b][d] = [NotYet EXCEPT !.pc = "create", !.rest = Given[d]],
             \A b \in apart : attempt'[b].pc = "returned" => attempt[b].pc = "returned"
      PROVE  Alone'
  <2>1. ASSUME NEW b \in apart, NEW d \in Docs
        PROVE  Progress(b, d)'
    <3>1. CASE task'[b][d] = task[b][d]
      BY <1>1, <3>1 DEF Alone, Progress
    <3>2. CASE task'[b][d] = NotYet
      BY <3>2 DEF NotYet, Progress
    <3>3. CASE task'[b][d] = [NotYet EXCEPT !.pc = "create", !.rest = Given[d]]
      <4>1. /\ task'[b][d].pc = "create" /\ task'[b][d].rest = Given[d]
            /\ task'[b][d].at = {}
        BY <3>3 DEF NotYet
      <4> QED BY <4>1 DEF Progress
    <3> QED BY <1>2, <3>1, <3>2, <3>3
  <2>2. ASSUME NEW b \in apart, attempt'[b].pc = "returned"
        PROVE  \A d \in Docs : Imported(d)'
    <3>1. \A d \in Docs : Imported(d)
      BY <1>2, <2>2 DEF Alone
    <3> QED BY <1>1, <3>1 DEF Imported
  <2> QED BY <1>2, <2>1, <2>2 DEF Alone
<1>3. apart \subseteq Attempts
  BY DEF TypeOK
<1>4. CASE RequestStep
  BY <1>2, <1>4 DEF RequestStep, PutArchive, EnqueueImport, WithdrawArchive, Request
<1>5. CASE Pick
  <2> DEFINE a == job.attempts + 1
  <2> job \in Jobs
    BY DEF TypeOK, Jobs
  <2>1. a \in Attempts
    BY DEF Jobs, Attempts, ImportAssumption
  <2>2. attempt[a].pc = "idle"
    BY <1>5, <2>1 DEF Pick, Numbering, Started, Jobs
  <2>3. \A d \in Docs : task[a][d].pc = "idle"
    BY <2>1, <2>2 DEF Phases, Phase
  <2>4. apart' \subseteq apart \union {a} /\ UNCHANGED task
    BY <1>5 DEF Pick
  <2>5. ASSUME NEW b \in apart', NEW d \in Docs
        PROVE  Progress(b, d)'
    <3>1. CASE b = a
      BY <2>3, <2>4, <3>1 DEF Progress
    <3>2. CASE b # a
      BY <1>1, <2>4, <2>5, <3>2 DEF Alone, Progress
    <3> QED BY <3>1, <3>2
  <2>6. attempt'[a].pc = "check"
        /\ \A b \in Attempts \ {a} : attempt'[b].pc = attempt[b].pc
    BY <1>5, <2>1, GotoMoves DEF Pick
  <2> QED BY <1>1, <1>3, <2>4, <2>5, <2>6 DEF Alone, Imported
<1>6. ASSUME NEW a \in Attempts, StartBatch(a)
      PROVE  Alone'
  <2>0. PICK batch \in SUBSET attempt[a].left :
        /\ task' = [task EXCEPT ![a] = [d \in Docs |->
             IF d \in batch THEN [NotYet EXCEPT !.pc = "create", !.rest = Given[d]] ELSE task[a][d]]]
        /\ attempt' = [attempt EXCEPT ![a] = [pc |-> "wait", left |-> attempt[a].left \ batch]]
    BY <1>6 DEF StartBatch
  <2>1. \A b \in apart : attempt'[b].pc = "returned" => attempt[b].pc = "returned"
    BY <1>3, <2>0 DEF TypeOK
  <2>2. \A b \in apart, d \in Docs : task'[b][d] = task[b][d]
          \/ task'[b][d] = [NotYet EXCEPT !.pc = "create", !.rest = Given[d]]
    BY <1>3, <2>0 DEF TypeOK
  <2> QED BY <1>2, <1>6, <2>1, <2>2 DEF StartBatch
<1>7. ASSUME NEW a \in Attempts, DeleteArchive(a)
      PROVE  Alone'
  <2>1. UNCHANGED <<task, apart>>
    BY <1>7 DEF DeleteArchive
  <2>2. CASE attempt[a].pc = "refused" /\ Goto(a, "gave up")
    <3>1. \A b \in apart : attempt'[b].pc = "returned" => attempt[b].pc = "returned"
      <4>1. \A b \in Attempts : attempt'[b].pc = IF b = a THEN "gave up" ELSE attempt[b].pc
        BY <2>2, GotoMoves
      <4> QED BY <1>3, <4>1
    <3> QED BY <1>2, <2>1, <3>1
  <2>3. CASE attempt[a].pc = "extract" /\ attempt[a].left = {} /\ Goto(a, "returned")
    <3>1. \A d \in Docs : task[a][d].pc = "done"
      BY <2>3 DEF Phases, Phase
    <3>2. a \in apart => \A d \in Docs : Imported(d)
      BY <3>1 DEF Alone, Progress, Imported
    <3>3. \A b \in Attempts \ {a} : attempt'[b].pc = attempt[b].pc
      BY <2>3, GotoMoves
    <3> QED BY <1>1, <1>3, <2>1, <3>2, <3>3 DEF Alone, Progress, Imported
  <2> QED BY <1>7, <2>2, <2>3 DEF DeleteArchive
<1>8. ASSUME NEW a \in Attempts, Abandon(a)
      PROVE  Alone'
  <2>1. \A b \in apart : attempt'[b].pc = "returned" => attempt[b].pc = "returned"
    BY <1>3, <1>8, GotoMoves DEF Abandon
  <2>2. \A b \in apart, d \in Docs : task'[b][d] = task[b][d] \/ task'[b][d] = NotYet
    BY <1>3, <1>8 DEF Abandon, TypeOK
  <2> QED BY <1>2, <1>8, <2>1, <2>2 DEF Abandon
<1>9. ASSUME NEW a \in Attempts,
             CheckArchive(a) \/ EndBatch(a) \/ EndAttempt(a) \/ AttemptFails(a) \/ LoseStream(a)
      PROVE  Alone'
  <2>1. UNCHANGED <<task, apart>>
    BY <1>9 DEF CheckArchive, EndBatch, EndAttempt, AttemptFails, LoseStream
  <2>2. UNCHANGED attempt \/ \E pc \in {"extract", "refused", "raised"} : Goto(a, pc)
    BY <1>9 DEF CheckArchive, EndBatch, EndAttempt, AttemptFails, LoseStream
  <2>3. \A b \in apart : attempt'[b].pc = "returned" => attempt[b].pc = "returned"
    BY <1>3, <2>2, GotoMoves
  <2> QED BY <1>2, <2>1, <2>3
<1>10. ASSUME NEW dead \in SUBSET Attempts, ServerDies(dead)
       PROVE  Alone'
  <2>1. apart' = apart
    BY <1>10 DEF ServerDies
  <2>2. \A b \in apart : attempt'[b].pc = "returned" => attempt[b].pc = "returned"
    BY <1>3, <1>10, DeathMoves
  <2>3. \A b \in apart, d \in Docs : task'[b][d] = task[b][d] \/ task'[b][d] = NotYet
    BY <1>3, <1>10, DeathMoves
  <2> QED BY <1>2, <2>1, <2>2, <2>3
<1> QED BY <1>4, <1>5, <1>6, <1>7, <1>8, <1>9, <1>10 DEF Control, AttemptStep

(* An import that has returned, with no task of another attempt beside it,   *)
(* has made every document what the archive says.                            *)
THEOREM ReturnedIsImportedCorrect == Spec => []ReturnedIsImported
<1> USE ImportAssumption
<1>1. Init => Numbering /\ Kept /\ Phases /\ Alone
  <2> SUFFICES ASSUME Init PROVE Numbering /\ Kept /\ Phases /\ Alone
    OBVIOUS
  <2>1. Numbering /\ Kept /\ Alone
    BY DEF Init, Unused, Numbering, Kept, Alone
  <2>2. Phases
    BY DEF Init, Unused, NotYet, Phases, Phase
  <2> QED BY <2>1, <2>2
<1>2. ASSUME TypeOK, Numbering, Kept, Phases, Alone, [Next]_vars
      PROVE  Numbering' /\ Kept' /\ Phases' /\ Alone'
  <2>1. ASSUME UNCHANGED vars
        PROVE  Alone'
    <3>1. UNCHANGED <<attempt, task, file, status, chunks, records, apart>>
      BY <2>1 DEF vars
    <3>2. \A d \in Docs : Imported(d)' <=> Imported(d)
      BY <3>1 DEF Imported
    <3>3. ASSUME NEW a \in apart, NEW d \in Docs PROVE Progress(a, d)'
      BY <1>2, <3>1 DEF Alone, Progress
    <3>4. ASSUME NEW a \in apart, attempt'[a].pc = "returned" PROVE \A d \in Docs : Imported(d)'
      BY <1>2, <3>1, <3>2, <3>4 DEF Alone
    <3> QED BY <3>1, <3>3, <3>4 DEF Alone
  <2>2. Alone'
    BY <1>2, <2>1, NextSplits, ControlAlone, WorkersAlone
  <2> QED BY <1>2, <2>2, NumberingKept, KeptKept, PhasesKept
<1>3. Alone => ReturnedIsImported
  BY DEF Alone, ReturnedIsImported
<1> QED BY <1>1, <1>2, <1>3, ImportTypeCorrect, PTL DEF Spec
----------------------------------------------------------------------------
(* What the end of an import says. *)

(* The steps of a task after the one that writes the file and the row. *)
Written == {"status", "clear", "chunks", "remove", "add", "done"}

(* A document that has its new content keeps it, with a row of its own:     *)
(* whichever attempt wrote it, no other attempt brings the old one back.    *)
SuccessInv ==
  /\ \A d \in Docs : file[d] = "new" => status[d] # "old"
  /\ \A a \in Attempts, d \in Docs : task[a][d].pc \in Written => file[d] = "new"
  /\ \A a \in Attempts : attempt[a].pc = "returned" => \A d \in Docs : file[d] = "new"
  /\ job.state = "successful" /\ ~killed =>
       \/ \A d \in Docs : file[d] = "new"
       \/ \E a \in Attempts : attempt[a].pc = "gave up"

LEMMA SuccessOfWork ==
  ASSUME ImportAssumption, TypeOK, SuccessInv, NEW a \in Attempts, NEW d \in Docs, Work(a, d)
  PROVE  SuccessInv'
<1>1. UNCHANGED <<job, attempt, killed>>
  BY WorkTypes
<1>2. \A e \in Docs : /\ file[e] = "new" => file'[e] = "new"
                      /\ file'[e] = "new" => status'[e] # "old"
  <2>1. CASE CreateDocument(a, d)
    BY <2>1 DEF CreateDocument, TypeOK, SuccessInv
  <2>2. CASE SetStatus(a, d)
    BY <2>2 DEF SetStatus, TypeOK, SuccessInv
  <2>3. CASE ~CreateDocument(a, d) /\ ~SetStatus(a, d)
    <3>1. UNCHANGED <<file, status>>
      BY <2>3 DEF Work, TaskStep, DeleteChunks, AddChunks, RemoveRecords, AddRecords,
         RefuseDocument, TaskFails, documents
    <3> QED BY <3>1 DEF SuccessInv
  <2> QED BY <2>1, <2>2, <2>3
<1>3. task'[a][d].pc \in Written => file'[d] = "new"
  <2>1. CASE CreateDocument(a, d)
    BY <2>1 DEF CreateDocument, TypeOK
  <2>2. CASE RefuseDocument(a, d) \/ TaskFails(a, d)
    BY <2>2, Next1Moves DEF RefuseDocument, TaskFails, Written
  <2>3. CASE ~(CreateDocument(a, d) \/ RefuseDocument(a, d) \/ TaskFails(a, d))
    <3>1. task[a][d].pc \in Written
      BY <2>3 DEF Work, TaskStep, SetStatus, DeleteChunks, AddChunks, RemoveRecords,
         AddRecords, Written
    <3> QED BY <1>2, <3>1 DEF SuccessInv
  <2> QED BY <2>1, <2>2, <2>3
<1>4. \A b \in Attempts, e \in Docs : (b # a \/ e # d) => task'[b][e] = task[b][e]
  BY TaskGoesOn
<1> QED BY <1>1, <1>2, <1>3, <1>4 DEF SuccessInv

(* A step of the request, of the job or of an attempt starts tasks anew, and *)
(* an attempt returns when all of its tasks are done.                        *)
LEMMA SuccessOfControl ==
  ASSUME ImportAssumption, TypeOK, Numbering, Phases, SuccessInv, Control
  PROVE  SuccessInv'
<1> DEFINE AllNew == \A d \in Docs : file[d] = "new"
           GaveUp == \E a \in Attempts : attempt[a].pc = "gave up"
<1>1. UNCHANGED <<file, status>>
  BY ControlTypes DEF documents
<1>2. ASSUME \A b \in Attempts, d \in Docs : task'[b][d].pc \in Written => task[b][d].pc \in Written,
             \A b \in Attempts : attempt'[b].pc = "returned" => attempt[b].pc = "returned" \/ AllNew,
             \A b \in Attempts : attempt[b].pc = "gave up" => attempt'[b].pc = "gave up",
             job'.state = "successful" /\ ~killed' =>
               (job.state = "successful" /\ ~killed) \/ AllNew \/ GaveUp
      PROVE  SuccessInv'
  BY <1>1, <1>2 DEF SuccessInv
<1>3. CASE RequestStep
  <2>1. UNCHANGED <<task, attempt, killed>> /\ (UNCHANGED job \/ job' = [job EXCEPT !.state = "queued"])
    BY <1>3 DEF RequestStep, PutArchive, EnqueueImport, WithdrawArchive, Request
  <2> QED BY <1>2, <2>1, JobMoves
<1>4. CASE Pick
  <2> DEFINE a == job.attempts + 1
  <2> job \in Jobs
    BY DEF TypeOK, Jobs
  <2>1. a \in Attempts
    BY DEF Jobs, Attempts, ImportAssumption
  <2>2. attempt[a].pc = "idle"
    BY <1>4, <2>1 DEF Pick, Numbering, Started, Jobs
  <2>3. UNCHANGED task /\ job'.state = "picked" /\ Goto(a, "check")
    BY <1>4, JobMoves DEF Pick
  <2>4. \A b \in Attempts : attempt'[b].pc = IF b = a THEN "check" ELSE attempt[b].pc
    BY <2>1, <2>3, GotoMoves
  <2>5. \A b \in Attempts : /\ attempt'[b].pc = "returned" => attempt[b].pc = "returned"
                            /\ attempt[b].pc = "gave up" => attempt'[b].pc = "gave up"
    BY <2>1, <2>2, <2>4
  <2>6. job'.state # "successful"
    BY <2>3
  <2> QED BY <1>2, <2>3, <2>5, <2>6
<1>5. ASSUME NEW a \in Attempts, StartBatch(a)
      PROVE  SuccessInv'
  <2>1. PICK batch \in SUBSET attempt[a].left :
        /\ task' = [task EXCEPT ![a] = [d \in Docs |->
             IF d \in batch THEN [NotYet EXCEPT !.pc = "create", !.rest = Given[d]] ELSE task[a][d]]]
        /\ attempt' = [attempt EXCEPT ![a] = [pc |-> "wait", left |-> attempt[a].left \ batch]]
    BY <1>5 DEF StartBatch
  <2>2. attempt[a].pc = "extract" /\ UNCHANGED <<job, killed>>
    BY <1>5 DEF StartBatch
  <2>3. \A b \in Attempts : IF b = a THEN attempt'[b].pc = "wait" ELSE attempt'[b] = attempt[b]
    BY <2>1 DEF TypeOK
  <2>4. \A b \in Attempts, d \in Docs : task'[b][d] = task[b][d]
          \/ task'[b][d] = [NotYet EXCEPT !.pc = "create", !.rest = Given[d]]
    BY <2>1 DEF TypeOK
  <2>5. \A d \in Docs : [NotYet EXCEPT !.pc = "create", !.rest = Given[d]].pc = "create"
    BY DEF NotYet
  <2>6. "create" \notin Written
    BY DEF Written
  <2>7. ASSUME NEW b \in Attempts, NEW d \in Docs, task'[b][d].pc \in Written
        PROVE  task[b][d].pc \in Written
    BY <2>4, <2>5, <2>6, <2>7
  <2> QED BY <1>2, <2>2, <2>3, <2>7
<1>6. ASSUME NEW a \in Attempts, DeleteArchive(a)
      PROVE  SuccessInv'
  <2>1. UNCHANGED <<task, job, killed>>
    BY <1>6 DEF DeleteArchive
  <2>2. CASE attempt[a].pc = "refused" /\ Goto(a, "gave up")
    <3>1. \A b \in Attempts : attempt'[b].pc = IF b = a THEN "gave up" ELSE attempt[b].pc
      BY <2>2, GotoMoves
    <3> QED BY <1>2, <2>1, <3>1
  <2>3. CASE attempt[a].pc = "extract" /\ attempt[a].left = {} /\ Goto(a, "returned")
    <3>1. \A d \in Docs : task[a][d].pc = "done"
      BY <2>3 DEF Phases, Phase
    <3>2. AllNew
      BY <3>1 DEF SuccessInv, Written
    <3> QED BY <1>2, <2>1, <2>3, <3>2, GotoMoves
  <2> QED BY <1>6, <2>2, <2>3 DEF DeleteArchive
<1>7. ASSUME NEW a \in Attempts, EndAttempt(a)
      PROVE  SuccessInv'
  <2>1. UNCHANGED <<task, attempt, killed>>
    BY <1>7 DEF EndAttempt
  <2>2. CASE attempt[a].pc \in {"returned", "gave up"}
    <3>1. AllNew \/ GaveUp
      BY <2>2 DEF SuccessInv
    <3> QED BY <1>2, <2>1, <3>1
  <2>3. CASE job' = Retried
    BY <1>2, <2>1, <2>3, JobMoves
  <2> QED BY <1>7, <2>2, <2>3 DEF EndAttempt
<1>8. ASSUME NEW a \in Attempts, Abandon(a)
      PROVE  SuccessInv'
  <2>1. UNCHANGED <<job, killed>> /\ Goto(a, "raised") /\ attempt[a].pc # "gave up"
    BY <1>8 DEF Abandon, Working
  <2>2. \A b \in Attempts, d \in Docs : task'[b][d] = task[b][d] \/ task'[b][d] = NotYet
    BY <1>8 DEF Abandon, TypeOK
  <2>3. NotYet.pc \notin Written
    BY DEF NotYet, Written
  <2>4. ASSUME NEW b \in Attempts, NEW d \in Docs, task'[b][d].pc \in Written
        PROVE  task[b][d].pc \in Written
    BY <2>2, <2>3, <2>4
  <2> QED BY <1>2, <2>1, <2>4, GotoMoves
<1>9. ASSUME NEW a \in Attempts, CheckArchive(a) \/ EndBatch(a) \/ AttemptFails(a)
      PROVE  SuccessInv'
  <2>1. UNCHANGED <<task, job, killed>> /\ attempt[a].pc # "gave up"
    BY <1>9 DEF CheckArchive, EndBatch, AttemptFails, Working
  <2>2. \E pc \in {"extract", "refused", "raised"} : Goto(a, pc)
    BY <1>9 DEF CheckArchive, EndBatch, AttemptFails
  <2> QED BY <1>2, <2>1, <2>2, GotoMoves
<1>10. ASSUME NEW a \in Attempts, LoseStream(a)
       PROVE  SuccessInv'
  BY <1>2, <1>10, JobMoves DEF LoseStream
<1>11. ASSUME NEW dead \in SUBSET Attempts, ServerDies(dead)
       PROVE  SuccessInv'
  <2>1. killed' = TRUE
    BY <1>11 DEF ServerDies
  <2>2. NotYet.pc \notin Written
    BY DEF NotYet, Written
  <2>3. ASSUME NEW b \in Attempts, NEW d \in Docs, task'[b][d].pc \in Written
        PROVE  task[b][d].pc \in Written
    BY <1>11, <2>2, <2>3, DeathMoves
  <2>4. \A b \in Attempts : /\ attempt'[b].pc = "returned" => attempt[b].pc = "returned"
                            /\ attempt[b].pc = "gave up" => attempt'[b].pc = "gave up"
    BY <1>11, DeathMoves DEF Working
  <2>5. ~(job'.state = "successful" /\ ~killed')
    BY <2>1
  <2> QED BY <1>2, <2>3, <2>4, <2>5
<1> QED BY <1>3, <1>4, <1>5, <1>6, <1>7, <1>8, <1>9, <1>10, <1>11 DEF Control, AttemptStep

(* A job that counts as successful has written every document, unless the   *)
(* archive was refused or a server died, however many attempts it took      *)
(* (import_channel, get_job_status).                                        *)
THEOREM SuccessMeansCompleteCorrect == Spec => []SuccessMeansComplete
<1> USE ImportAssumption
<1>1. Init => Numbering /\ Kept /\ Phases /\ SuccessInv
  <2> SUFFICES ASSUME Init PROVE Numbering /\ Kept /\ Phases /\ SuccessInv
    OBVIOUS
  <2>1. Numbering /\ Kept
    BY DEF Init, Unused, Numbering, Kept
  <2>2. Phases
    BY DEF Init, Unused, NotYet, Phases, Phase
  <2>3. SuccessInv
    BY DEF Init, Unused, NotYet, SuccessInv, Written
  <2> QED BY <2>1, <2>2, <2>3
<1>2. ASSUME TypeOK, Numbering, Kept, Phases, SuccessInv, [Next]_vars
      PROVE  Numbering' /\ Kept' /\ Phases' /\ SuccessInv'
  <2>1. CASE UNCHANGED vars
    BY <1>2, <2>1, NumberingKept, KeptKept, PhasesKept DEF SuccessInv, vars
  <2> QED BY <1>2, <2>1, NextSplits, NumberingKept, KeptKept, PhasesKept, SuccessOfControl,
          SuccessOfWork
<1>3. SuccessInv => SuccessMeansComplete
  BY DEF SuccessInv, SuccessMeansComplete
<1> QED BY <1>1, <1>2, <1>3, ImportTypeCorrect, PTL DEF Spec
============================================================================
