------------------------- MODULE IndexTablesProofs -------------------------
(* Proofs of the safety properties of IndexTables, for any number of        *)
(* servers, indexes and operations.                                         *)
EXTENDS IndexTables, TLAPS

(* An operation that has tries left has not given up. *)
TriesInv == \A o \in Ops : op[o].pc # "failed" => op[o].tries < MaxTries

(* Tables of the old structure are being migrated by every server that     *)
(* starts, and the list of indexes is there with them.                      *)
MigrationInv ==
  /\ legacy # {} => listing
  /\ \A s \in Servers : boot[s] = "migrate" => legacy \subseteq todo[s] \union altered[s]
  /\ UpMeansMigrated

(* A row is inserted once: who is about to commit one is alone, and there  *)
(* is no row yet.                                                           *)
RowInv ==
  /\ \A o \in Ops : op[o].pc = "commit" => entry[On[o]] = NoMeta
  /\ \A o, x \in Ops : op[o].pc = "commit" /\ op[x].pc = "commit" /\ On[o] = On[x] => o = x
  /\ UsersAgree

(* Who changes the schema holds the lock of its server. *)
Holding == {"select", "insert", "look", "create", "close"}

LockInv ==
  /\ \A s \in Servers : ensure[s] \in {"look", "create"} => lock[s] = s
  /\ \A o \in Ops : op[o].pc \in Holding => lock[At[o]] = o

TypeInv == TypeOK /\ TriesInv

Pcs == {"idle", "begin", "ensure", "name", "select", "insert", "commit", "table", "look",
        "create", "close", "use", "end", "done", "failed"}

OpStates == [Ops -> [pc : Pcs, tries : 0..MaxTries]]

(* Steps of the servers, and of the operations. *)
ServerAction == \E s \in Servers : BootStep(s) \/ EnsureStep(s) \/ Crash(s)
OpAction(o) == Start(o) \/ OpStep(o) \/ Fail(o)

LEMMA NextSplits ==
  ASSUME Next
  PROVE  ServerAction \/ \E o \in Ops : OpAction(o)
BY DEF Next, ServerAction, OpAction

LEMMA GotoType ==
  ASSUME IndexAssumption, op \in OpStates, TriesInv, NEW o \in Ops,
         op[o].pc # "failed", NEW pc \in Pcs, Goto(o, pc)
  PROVE  op' \in OpStates /\ TriesInv'
BY DEF Goto, OpStates, TriesInv, Pcs

LEMMA RetriedType ==
  ASSUME IndexAssumption, op \in OpStates, TriesInv, NEW o \in Ops, op[o].pc # "failed"
  PROVE  /\ Retried(op[o]) \in [pc : Pcs, tries : 0..MaxTries]
         /\ Retried(op[o]).pc # "failed" => Retried(op[o]).tries < MaxTries
         /\ Retried(op[o]).pc \in {"ensure", "failed"}
<1>1. op[o].tries \in 0..MaxTries /\ op[o].tries < MaxTries
  BY DEF OpStates, TriesInv
<1>2. op[o].tries + 1 \in 0..MaxTries
  BY <1>1 DEF IndexAssumption
<1> QED BY <1>1, <1>2 DEF Retried, Pcs

LEMMA TypeOfServerStep ==
  ASSUME IndexAssumption, TypeInv, NEW s \in Servers, BootStep(s) \/ EnsureStep(s) \/ Crash(s)
  PROVE  TypeInv'
<1> TypeOK /\ TriesInv /\ op \in OpStates
  BY DEF TypeInv, TypeOK, OpStates, Pcs
<1> SUFFICES TypeOK' /\ op' \in OpStates /\ TriesInv'
  BY DEF TypeInv
<1>1. CASE BootStep(s)
  <2>1. /\ boot' \in [Servers -> {"down", "migrate", "up"}] /\ legacy' \in SUBSET Indexes
        /\ todo' \in [Servers -> SUBSET Indexes] /\ altered' \in [Servers -> SUBSET Indexes]
    <3>1. CASE BootRead(s)
      BY <3>1 DEF BootRead, TypeOK, database
    <3>2. CASE BootAlter(s)
      <4>1. CASE NotStarted(s)
        BY <3>2, <4>1 DEF BootAlter, NotStarted, TypeOK, database
      <4>2. CASE \E i \in todo[s] : /\ todo' = [todo EXCEPT ![s] = @ \ {i}] /\ UNCHANGED boot
                                    /\ altered' = [altered EXCEPT ![s] = @ \union {i}]
        BY <3>2, <4>2 DEF BootAlter, TypeOK, database
      <4> QED BY <3>2, <4>1, <4>2 DEF BootAlter
    <3>3. CASE BootDeadlocks(s)
      BY <3>3 DEF BootDeadlocks, NotStarted, TypeOK, database
    <3>4. CASE BootCommit(s)
      BY <3>4 DEF BootCommit, TypeOK
    <3> QED BY <1>1, <3>1, <3>2, <3>3, <3>4 DEF BootStep
  <2>2. UNCHANGED <<listing, entry, tables, lock, ensure, known, op, faults, torn>>
    BY <1>1 DEF BootStep, BootRead, BootAlter, BootDeadlocks, BootCommit, database, Serving
  <2> QED BY <2>1, <2>2 DEF TypeOK, TriesInv
<1>2. CASE EnsureStep(s)
  <2>1. UNCHANGED <<entry, tables, legacy, boot, todo, altered, known, faults, torn>>
    BY <1>2 DEF EnsureStep, EnsureStart, EnsureLook, EnsureCreate, EnsureCommit, Ensuring, starting
  <2>2. /\ listing' \in BOOLEAN /\ ensure' \in [Servers -> {"no", "look", "create", "commit", "yes"}]
        /\ lock' \in [Servers -> Ops \union Servers \union {Nobody}]
    <3>1. CASE EnsureStart(s)
      <4>1. /\ UNCHANGED listing /\ ensure' = [ensure EXCEPT ![s] = "look"]
            /\ lock' = [lock EXCEPT ![s] = s]
        BY <3>1 DEF EnsureStart, Ensuring, Take
      <4> QED BY <4>1 DEF TypeOK
    <3>2. CASE EnsureLook(s)
      <4>1. \E to \in {"yes", "create"} : ensure' = [ensure EXCEPT ![s] = to]
        BY <3>2 DEF EnsureLook, Ensuring
      <4>2. UNCHANGED listing /\ (lock' = lock \/ lock' = [lock EXCEPT ![s] = Nobody])
        BY <3>2 DEF EnsureLook, Release
      <4> QED BY <4>1, <4>2 DEF TypeOK
    <3>3. CASE EnsureCreate(s)
      BY <3>3 DEF EnsureCreate, Ensuring, Release, TypeOK
    <3>4. CASE EnsureCommit(s)
      BY <3>4 DEF EnsureCommit, Ensuring, TypeOK
    <3> QED BY <1>2, <3>1, <3>2, <3>3, <3>4 DEF EnsureStep
  <2>3. op' \in OpStates /\ TriesInv'
    <3>1. \/ UNCHANGED op
          \/ op' = [o \in Ops |-> IF o \in Ensurers(s) THEN Retried(op[o]) ELSE op[o]]
      BY <1>2 DEF EnsureStep, EnsureStart, EnsureLook, EnsureCreate, EnsureCommit
    <3>2. \A o \in Ensurers(s) : op[o].pc # "failed"
      BY DEF Ensurers
    <3> QED BY <3>1, <3>2, RetriedType DEF OpStates, TriesInv
  <2> QED BY <2>1, <2>2, <2>3 DEF TypeOK, OpStates, Pcs
<1>3. CASE Crash(s)
  <2>1. /\ UNCHANGED <<listing, entry, tables, legacy>>
        /\ boot' \in [Servers -> {"down", "migrate", "up"}]
        /\ todo' \in [Servers -> SUBSET Indexes] /\ altered' \in [Servers -> SUBSET Indexes]
        /\ lock' \in [Servers -> Ops \union Servers \union {Nobody}]
        /\ ensure' \in [Servers -> {"no", "look", "create", "commit", "yes"}]
        /\ known' \in [Servers -> SUBSET Indexes] /\ torn' \in SUBSET (Servers \X Indexes)
    BY <1>3 DEF Crash, NotStarted, Release, database, TypeOK
  <2>2. faults' \in 0..MaxFaults
    BY <1>3 DEF Crash, Fault, TypeOK, IndexAssumption
  <2>3. op' \in OpStates /\ TriesInv'
    BY <1>3 DEF Crash, OpStates, Pcs, TriesInv
  <2> QED BY <2>1, <2>2, <2>3 DEF TypeOK, OpStates, Pcs
<1> QED BY <1>1, <1>2, <1>3

LEMMA TypeOfOpStep ==
  ASSUME IndexAssumption, TypeInv, NEW o \in Ops, OpAction(o)
  PROVE  TypeInv'
<1> TypeOK /\ TriesInv /\ op \in OpStates
  BY DEF TypeInv, TypeOK, OpStates, Pcs
<1> At[o] \in Servers /\ On[o] \in Indexes /\ Meta[o] \in Metas
  BY DEF IndexAssumption
<1> SUFFICES TypeOK' /\ op' \in OpStates /\ TriesInv'
  BY DEF TypeInv
<1>1. UNCHANGED <<listing, legacy, boot, todo, altered, ensure>>
  BY DEF OpAction, OpStep, Start, BeginRequest, Ensured, LockName, Select, Insert, CommitName,
     LockTable, LookTable, CreateTable, CommitTable, Use, Finish, Fail, Operation, database, starting
<1>2. entry' \in [Indexes -> Metas \union {NoMeta}] /\ tables' \in SUBSET Indexes
  BY DEF OpAction, OpStep, Start, BeginRequest, Ensured, LockName, Select, Insert, CommitName,
     LockTable, LookTable, CreateTable, CommitTable, Use, Finish, Fail, database, TypeOK
<1>3. known' \in [Servers -> SUBSET Indexes] /\ torn' \in SUBSET (Servers \X Indexes)
  BY DEF OpAction, OpStep, Start, BeginRequest, Ensured, LockName, Select, Insert, CommitName,
     LockTable, LookTable, CreateTable, CommitTable, Use, Finish, Fail, TypeOK
<1>4. lock' \in [Servers -> Ops \union Servers \union {Nobody}]
  BY DEF OpAction, OpStep, Start, BeginRequest, Ensured, LockName, Select, Insert, CommitName,
     LockTable, LookTable, CreateTable, CommitTable, Use, Finish, Fail, Take, Release, TypeOK
<1>5. faults' \in 0..MaxFaults
  BY DEF OpAction, OpStep, Start, BeginRequest, Ensured, LockName, Select, Insert, CommitName,
     LockTable, LookTable, CreateTable, CommitTable, Use, Finish, Fail, Fault, Operation, TypeOK,
     IndexAssumption
<1>6. op[o].pc # "failed"
  BY DEF OpAction, OpStep, Start, BeginRequest, Ensured, LockName, Select, Insert, CommitName,
     LockTable, LookTable, CreateTable, CommitTable, Use, Finish, Fail, Ended
<1>7. (\E pc \in Pcs : Goto(o, pc)) \/ op' = [op EXCEPT ![o] = Retried(@)]
  BY DEF OpAction, OpStep, Start, BeginRequest, Ensured, LockName, Select, Insert, CommitName,
     LockTable, LookTable, CreateTable, CommitTable, Use, Finish, Fail, Pcs
<1>8. op' \in OpStates /\ TriesInv'
  <2>1. CASE \E pc \in Pcs : Goto(o, pc)
    BY <1>6, <2>1, GotoType
  <2>2. CASE op' = [op EXCEPT ![o] = Retried(@)]
    BY <1>6, <2>2, RetriedType DEF OpStates, TriesInv
  <2> QED BY <1>7, <2>1, <2>2
<1> QED BY <1>1, <1>2, <1>3, <1>4, <1>5, <1>8 DEF TypeOK, OpStates, Pcs

LEMMA TypeStep ==
  ASSUME IndexAssumption, TypeInv, [Next]_vars
  PROVE  TypeInv'
<1>1. CASE UNCHANGED vars
  BY <1>1 DEF TypeInv, TypeOK, TriesInv, vars
<1> QED BY <1>1, NextSplits, TypeOfServerStep, TypeOfOpStep DEF ServerAction

LEMMA TypeInit == ASSUME IndexAssumption, Init PROVE TypeInv
<1>1. op \in OpStates /\ TriesInv
  BY DEF IndexAssumption, Init, OpStates, Pcs, TriesInv
<1>2. faults \in 0..MaxFaults /\ legacy \in SUBSET Indexes
  BY DEF IndexAssumption, Init
<1> QED BY <1>1, <1>2 DEF Init, TypeInv, TypeOK, OpStates, Pcs

(* The types hold in every state; the tries of _get_table_name stay in      *)
(* their bound.                                                             *)
THEOREM TablesTypeCorrect == Spec => []TypeOK
<1> USE IndexAssumption
<1>1. Init => TypeInv
  BY TypeInit
<1>2. TypeInv /\ [Next]_vars => TypeInv'
  BY TypeStep
<1>3. TypeInv => TypeOK
  BY DEF TypeInv
<1> QED BY <1>1, <1>2, <1>3, PTL DEF Spec
----------------------------------------------------------------------------
(* Migration. *)

LEMMA MigrationOfServerStep ==
  ASSUME IndexAssumption, TypeInv, MigrationInv,
         NEW s \in Servers, BootStep(s) \/ EnsureStep(s) \/ Crash(s)
  PROVE  MigrationInv'
<1> TypeOK
  BY DEF TypeInv
<1>1. CASE BootRead(s)
  BY <1>1 DEF BootRead, MigrationInv, UpMeansMigrated, TypeOK, database, Serving
<1>2. CASE NotStarted(s) /\ UNCHANGED database
  BY <1>2 DEF NotStarted, MigrationInv, UpMeansMigrated, TypeOK, database
<1>3. CASE BootAlter(s) /\ ~NotStarted(s)
  <2>1. PICK i \in todo[s] : /\ todo' = [todo EXCEPT ![s] = @ \ {i}] /\ UNCHANGED boot
                            /\ altered' = [altered EXCEPT ![s] = @ \union {i}]
    BY <1>3 DEF BootAlter
  <2>2. UNCHANGED <<listing, legacy>>
    BY <1>3 DEF BootAlter, database
  <2>3. \A x \in Servers : todo'[x] \union altered'[x] = todo[x] \union altered[x]
    BY <2>1 DEF TypeOK
  <2> QED BY <2>1, <2>2, <2>3 DEF MigrationInv, UpMeansMigrated
<1>4. CASE BootCommit(s)
  <2>1. legacy \subseteq altered[s]
    BY <1>4 DEF BootCommit, MigrationInv
  <2>2. legacy' = {}
    BY <1>4, <2>1 DEF BootCommit
  <2> QED BY <2>2 DEF MigrationInv, UpMeansMigrated
<1>5. CASE EnsureStep(s)
  <2>1. UNCHANGED <<legacy, boot, todo, altered>> /\ (listing => listing')
    BY <1>5 DEF EnsureStep, EnsureStart, EnsureLook, EnsureCreate, EnsureCommit, Ensuring, starting
  <2> QED BY <2>1 DEF MigrationInv, UpMeansMigrated
<1> QED BY <1>1, <1>2, <1>3, <1>4, <1>5 DEF BootStep, BootAlter, BootDeadlocks, Crash

LEMMA MigrationOfOpStep ==
  ASSUME MigrationInv, NEW o \in Ops, OpAction(o)
  PROVE  MigrationInv'
<1>1. UNCHANGED <<listing, legacy, boot, todo, altered>>
  BY DEF OpAction, OpStep, Start, BeginRequest, Ensured, LockName, Select, Insert, CommitName,
     LockTable, LookTable, CreateTable, CommitTable, Use, Finish, Fail, Operation, database, starting
<1> QED BY <1>1 DEF MigrationInv, UpMeansMigrated

(* Whichever servers start at a time and whatever fails, none of them      *)
(* serves requests while there is a table of the old structure              *)
(* (_migrate_indexes).                                                      *)
THEOREM UpMeansMigratedCorrect == Spec => []UpMeansMigrated
<1> USE IndexAssumption
<1>1. Init => TypeInv /\ MigrationInv
  BY TypeInit DEF Init, MigrationInv, UpMeansMigrated
<1>2. TypeInv /\ MigrationInv /\ [Next]_vars => (TypeInv /\ MigrationInv)'
  <2>1. CASE UNCHANGED vars
    BY <2>1, TypeStep DEF MigrationInv, UpMeansMigrated, vars
  <2> QED BY <2>1, NextSplits, TypeStep, MigrationOfServerStep, MigrationOfOpStep DEF ServerAction
<1>3. MigrationInv => UpMeansMigrated
  BY DEF MigrationInv
<1> QED BY <1>1, <1>2, <1>3, PTL DEF Spec
----------------------------------------------------------------------------
(* Rows of the list of indexes. *)

(* A server's step may send operations back or end them, and no more. *)
LEMMA ServerStepOnOps ==
  ASSUME TypeInv, NEW s \in Servers, BootStep(s) \/ EnsureStep(s) \/ Crash(s)
  PROVE  /\ UNCHANGED <<entry, tables>>
         /\ \A o \in Ops : op'[o] = op[o] \/ op'[o].pc \in {"ensure", "failed"}
<1> op \in OpStates
  BY DEF TypeInv, TypeOK, OpStates, Pcs
<1>1. CASE BootStep(s)
  BY <1>1 DEF BootStep, BootRead, BootAlter, BootDeadlocks, BootCommit, database, Serving
<1>2. CASE EnsureStep(s)
  <2>1. UNCHANGED <<entry, tables>>
    BY <1>2 DEF EnsureStep, EnsureStart, EnsureLook, EnsureCreate, EnsureCommit, Ensuring
  <2>2. \/ UNCHANGED op
        \/ op' = [o \in Ops |-> IF o \in Ensurers(s) THEN Retried(op[o]) ELSE op[o]]
    BY <1>2 DEF EnsureStep, EnsureStart, EnsureLook, EnsureCreate, EnsureCommit
  <2> QED BY <2>1, <2>2 DEF Retried
<1>3. CASE Crash(s)
  BY <1>3 DEF Crash, database, OpStates
<1> QED BY <1>1, <1>2, <1>3

LEMMA RowOfServerStep ==
  ASSUME TypeInv, RowInv, NEW s \in Servers, BootStep(s) \/ EnsureStep(s) \/ Crash(s)
  PROVE  RowInv'
BY ServerStepOnOps DEF RowInv, UsersAgree

(* The other operations stay as they are; a row is only added by a commit. *)
LEMMA OpStepFrame ==
  ASSUME TypeInv, NEW o \in Ops, OpAction(o)
  PROVE  /\ \A x \in Ops : x # o => op'[x] = op[x]
         /\ ~CommitName(o) => UNCHANGED entry
         /\ op'[o].pc = "commit" => Insert(o)
         /\ op'[o].pc = "table" => Select(o) \/ CommitName(o)
         /\ op'[o].pc \in {"look", "create", "close", "use", "end", "done"} =>
              op[o].pc \in {"table", "look", "create", "close", "use", "end"}
<1> op \in OpStates
  BY DEF TypeInv, TypeOK, OpStates, Pcs
<1>1. \A x \in Ops : x # o => op'[x] = op[x]
  BY DEF OpAction, OpStep, Start, BeginRequest, Ensured, LockName, Select, Insert, CommitName,
     LockTable, LookTable, CreateTable, CommitTable, Use, Finish, Fail, Goto, OpStates
<1>2. ~CommitName(o) => UNCHANGED entry
  BY DEF OpAction, OpStep, Start, BeginRequest, Ensured, LockName, Select, Insert,
     LockTable, LookTable, CreateTable, CommitTable, Use, Finish, Fail, database
<1>3. ASSUME NEW pc \in Pcs, Goto(o, pc) PROVE op'[o].pc = pc
  BY <1>3 DEF Goto, OpStates
<1>4. CASE Start(o) \/ BeginRequest(o) \/ Ensured(o) \/ LockName(o)
  BY <1>1, <1>2, <1>3, <1>4 DEF Start, BeginRequest, Ensured, LockName, Pcs
<1>5. CASE Select(o)
  BY <1>1, <1>2, <1>3, <1>5 DEF Select, Pcs
<1>6. CASE Insert(o)
  <2>1. op'[o].pc \in {"commit", "ensure", "failed"}
    BY <1>3, <1>6 DEF Insert, Pcs, Retried, OpStates
  <2> QED BY <1>1, <1>2, <1>6, <2>1
<1>7. CASE CommitName(o)
  <2>1. op'[o].pc = "table"
    BY <1>3, <1>7 DEF CommitName, Pcs
  <2> QED BY <1>1, <1>2, <1>7, <2>1
<1>8. CASE LockTable(o) \/ LookTable(o) \/ CreateTable(o)
  BY <1>1, <1>2, <1>3, <1>8 DEF LockTable, LookTable, CreateTable, Pcs
<1>9. CASE CommitTable(o) \/ Use(o) \/ Finish(o) \/ Fail(o)
  BY <1>1, <1>2, <1>3, <1>9 DEF CommitTable, Use, Finish, Fail, Pcs
<1> QED BY <1>4, <1>5, <1>6, <1>7, <1>8, <1>9 DEF OpAction, OpStep

LEMMA RowOfOpStep ==
  ASSUME IndexAssumption, TypeInv, RowInv, NEW o \in Ops, OpAction(o)
  PROVE  RowInv'
<1> TypeOK /\ op \in OpStates
  BY DEF TypeInv, TypeOK, OpStates, Pcs
<1> On[o] \in Indexes /\ Meta[o] \in Metas
  BY DEF IndexAssumption
<1>1. CASE CommitName(o)
  <2>1. /\ op[o].pc = "commit" /\ op'[o].pc = "table"
        /\ entry' = [entry EXCEPT ![On[o]] = Meta[o]]
    BY <1>1 DEF CommitName, Goto, OpStates
  <2>2. entry[On[o]] = NoMeta
    BY <2>1 DEF RowInv
  <2>3. ASSUME NEW x \in Ops, x # o, op[x].pc = "commit"
        PROVE  On[x] # On[o] /\ On[x] \in Indexes
    BY <2>1, <2>3 DEF RowInv, IndexAssumption
  <2>4. ASSUME NEW x \in Ops, x # o,
               op[x].pc \in {"table", "look", "create", "close", "use", "end", "done"}
        PROVE  entry'[On[x]] = Meta[x]
    <3>1. entry[On[x]] = Meta[x] /\ Meta[x] # NoMeta /\ On[x] \in Indexes
      BY <2>4 DEF RowInv, UsersAgree, IndexAssumption
    <3> QED BY <2>1, <2>2, <3>1 DEF TypeOK
  <2>5. entry'[On[o]] = Meta[o]
    BY <2>1 DEF TypeOK
  <2>6. \A x \in Ops : x # o => op'[x] = op[x]
    BY OpStepFrame
  <2>7. \A x \in Ops : op'[x].pc = "commit" => entry'[On[x]] = NoMeta
    <3> SUFFICES ASSUME NEW x \in Ops, op'[x].pc = "commit" PROVE entry'[On[x]] = NoMeta
      OBVIOUS
    <3>1. x # o /\ op[x].pc = "commit" /\ On[x] # On[o] /\ On[x] \in Indexes
      BY <2>1, <2>3, <2>6
    <3> QED BY <2>1, <3>1 DEF RowInv, TypeOK
  <2>8. \A x, y \in Ops : op'[x].pc = "commit" /\ op'[y].pc = "commit" /\ On[x] = On[y] => x = y
    BY <2>1, <2>6 DEF RowInv
  <2>9. UsersAgree'
    BY <2>4, <2>5, <2>6 DEF UsersAgree
  <2> QED BY <2>7, <2>8, <2>9 DEF RowInv
<1>2. CASE Insert(o) /\ op'[o].pc = "commit"
  <2>1. /\ entry[On[o]] = NoMeta /\ UNCHANGED entry
        /\ \A x \in Ops : On[x] = On[o] => op[x].pc # "commit"
    BY <1>2 DEF Insert, Retried, OpStates
  <2> QED BY <1>2, <2>1, OpStepFrame DEF RowInv, UsersAgree
<1>3. CASE Select(o) /\ op'[o].pc = "table"
  <2>1. UNCHANGED entry
    BY <1>3 DEF Select
  <2>2. entry[On[o]] = Meta[o]
    <3>1. ~Goto(o, "insert") /\ ~Goto(o, "failed")
      BY <1>3 DEF Goto, OpStates
    <3> QED BY <1>3, <3>1 DEF Select
  <2> QED BY <1>3, <2>1, <2>2, OpStepFrame DEF RowInv, UsersAgree
<1>4. CASE /\ ~CommitName(o) /\ op'[o].pc # "commit"
           /\ op'[o].pc \in {"table", "look", "create", "close", "use", "end", "done"} =>
                op[o].pc \in {"table", "look", "create", "close", "use", "end"}
  BY <1>4, OpStepFrame DEF RowInv, UsersAgree
<1> QED BY <1>1, <1>2, <1>3, <1>4, OpStepFrame

(* Operations that use the table of an index agree on its metadata, however *)
(* many servers and transactions race for the row (_get_table_name).        *)
THEOREM UsersAgreeCorrect == Spec => []UsersAgree
<1> USE IndexAssumption
<1>1. Init => TypeInv /\ RowInv
  BY TypeInit DEF Init, RowInv, UsersAgree
<1>2. TypeInv /\ RowInv /\ [Next]_vars => (TypeInv /\ RowInv)'
  <2>1. CASE UNCHANGED vars
    BY <2>1, TypeStep DEF RowInv, UsersAgree, vars
  <2> QED BY <2>1, NextSplits, TypeStep, RowOfServerStep, RowOfOpStep DEF ServerAction
<1>3. RowInv => UsersAgree
  BY DEF RowInv
<1> QED BY <1>1, <1>2, <1>3, PTL DEF Spec
----------------------------------------------------------------------------
(* The lock, and the tables that a server knows. *)

(* The operation that makes a table, while it holds the lock. *)
Making(s, i, o) ==
  lock[s] = o /\ At[o] = s /\ On[o] = i /\ op[o].pc \in {"look", "create", "close"}

LEMMA LockOfServerStep ==
  ASSUME IndexAssumption, TypeInv, LockInv,
         NEW s \in Servers, BootStep(s) \/ EnsureStep(s) \/ Crash(s)
  PROVE  /\ LockInv'
         /\ \A x \in Ops : op[x].pc \in Holding /\ At[x] # s => op'[x] = op[x]
         /\ ~Crash(s) => \A x \in Ops : op[x].pc \in Holding => op'[x] = op[x] /\ lock'[At[x]] = x
<1> TypeOK /\ op \in OpStates
  BY DEF TypeInv, TypeOK, OpStates, Pcs
<1> USE IndexAssumption
<1> DEFINE Kept == \A x \in Ops : op[x].pc \in Holding => op'[x] = op[x]
<1>1. CASE BootStep(s)
  BY <1>1 DEF BootStep, BootRead, BootAlter, BootDeadlocks, BootCommit, Serving, LockInv
<1>2. CASE EnsureStep(s)
  <2>1. \/ UNCHANGED op
        \/ op' = [o \in Ops |-> IF o \in Ensurers(s) THEN Retried(op[o]) ELSE op[o]]
    BY <1>2 DEF EnsureStep, EnsureStart, EnsureLook, EnsureCreate, EnsureCommit
  <2>2. Kept /\ \A x \in Ops : op'[x].pc \in Holding => op'[x] = op[x]
    BY <2>1 DEF Ensurers, Holding, Retried, OpStates
  <2>3. lock[s] \in {Nobody, s} => \A x \in Ops : op[x].pc \in Holding => At[x] # s
    BY DEF LockInv
  <2>4. CASE EnsureStart(s)
    <3>1. lock[s] = Nobody /\ lock' = [lock EXCEPT ![s] = s] /\ ensure' = [ensure EXCEPT ![s] = "look"]
      BY <2>4 DEF EnsureStart, Take, Free, Ensuring
    <3>2. \A x \in Ops : op[x].pc \in Holding => lock'[At[x]] = x
      BY <2>3, <3>1 DEF LockInv, TypeOK
    <3>3. \A x \in Servers : ensure'[x] \in {"look", "create"} => lock'[x] = x
      BY <3>1 DEF LockInv, TypeOK
    <3> QED BY <1>2, <2>2, <3>2, <3>3 DEF LockInv
  <2>5. CASE EnsureLook(s) \/ EnsureCreate(s)
    <3>1. lock[s] = s /\ (UNCHANGED lock \/ lock' = [lock EXCEPT ![s] = Nobody])
      BY <2>5 DEF EnsureLook, EnsureCreate, Ensuring, Release, LockInv
    <3>2. \E e \in {"yes", "create", "commit", "no"} :
            /\ ensure' = [ensure EXCEPT ![s] = e] /\ (e = "create" => UNCHANGED lock)
      BY <2>5 DEF EnsureLook, EnsureCreate, Ensuring
    <3>3. \A x \in Ops : op[x].pc \in Holding => lock'[At[x]] = x
      BY <2>3, <3>1 DEF LockInv, TypeOK
    <3>4. \A x \in Servers : ensure'[x] \in {"look", "create"} => lock'[x] = x
      BY <3>1, <3>2 DEF LockInv, TypeOK
    <3> QED BY <1>2, <2>2, <3>3, <3>4 DEF LockInv
  <2>6. CASE EnsureCommit(s)
    <3>1. UNCHANGED <<op, lock>> /\ ensure' = [ensure EXCEPT ![s] = "yes"]
      BY <2>6 DEF EnsureCommit, Ensuring
    <3> QED BY <3>1 DEF LockInv, TypeOK
  <2> QED BY <1>2, <2>4, <2>5, <2>6 DEF EnsureStep
<1>3. CASE Crash(s)
  <2>1. /\ lock' = [lock EXCEPT ![s] = Nobody] /\ ensure' = [ensure EXCEPT ![s] = "no"]
        /\ \A x \in Ops : At[x] # s => op'[x] = op[x]
        /\ \A x \in Ops : At[x] = s => op'[x].pc \in {"idle", "done", "failed"}
    BY <1>3 DEF Crash, Release, OpStates, Ended
  <2> QED BY <1>3, <2>1 DEF LockInv, TypeOK, Holding
<1> QED BY <1>1, <1>2, <1>3

LEMMA KnownOfServerStep ==
  ASSUME IndexAssumption, TypeInv, LockInv, KnownExists,
         NEW s \in Servers, BootStep(s) \/ EnsureStep(s) \/ Crash(s)
  PROVE  KnownExists'
<1> TypeOK
  BY DEF TypeInv
<1> SUFFICES ASSUME NEW z \in Servers, NEW i \in known'[z]
             PROVE  i \in tables' \/ <<z, i>> \in torn' \/ \E o \in Ops : Making(z, i, o)'
  BY DEF KnownExists, Making
<1>1. UNCHANGED tables
  BY ServerStepOnOps
<1>2. CASE ~Crash(s)
  <2>1. UNCHANGED <<known, torn>>
    BY <1>2 DEF BootStep, BootRead, BootAlter, BootDeadlocks, BootCommit, Serving, EnsureStep,
       EnsureStart, EnsureLook, EnsureCreate, EnsureCommit, Ensuring
  <2>2. ASSUME NEW o \in Ops, Making(z, i, o) PROVE Making(z, i, o)'
    BY <1>2, <2>2, LockOfServerStep DEF Making, Holding
  <2>3. i \in tables \/ <<z, i>> \in torn \/ \E o \in Ops : Making(z, i, o)
    BY <2>1 DEF KnownExists, Making
  <2> QED BY <1>1, <2>1, <2>2, <2>3
<1>3. CASE Crash(s)
  <2>1. /\ known' = [known EXCEPT ![s] = {}] /\ torn' = {x \in torn : x[1] # s}
        /\ lock' = [lock EXCEPT ![s] = Nobody]
    BY <1>3 DEF Crash, Release
  <2>2. z # s /\ i \in known[z] /\ lock'[z] = lock[z]
    BY <2>1 DEF TypeOK
  <2>3. ASSUME NEW o \in Ops, Making(z, i, o) PROVE Making(z, i, o)'
    BY <2>2, <2>3, LockOfServerStep DEF Making, Holding
  <2>4. i \in tables \/ <<z, i>> \in torn \/ \E o \in Ops : Making(z, i, o)
    BY <2>2 DEF KnownExists, Making
  <2>5. <<z, i>> \in torn => <<z, i>> \in torn'
    BY <2>1, <2>2
  <2> QED BY <1>1, <2>3, <2>4, <2>5
<1> QED BY <1>2, <1>3

(* An operation takes a free lock, or it has it. *)
LEMMA LockOfOpStep ==
  ASSUME IndexAssumption, TypeInv, LockInv, NEW o \in Ops, OpAction(o)
  PROVE  /\ LockInv'
         /\ \A s \in Servers : lock[s] \notin {o, Nobody} => lock'[s] = lock[s]
<1> TypeOK /\ op \in OpStates
  BY DEF TypeInv, TypeOK, OpStates, Pcs
<1> USE IndexAssumption
<1> At[o] \in Servers
  OBVIOUS
<1>1. \A x \in Ops : x # o => op'[x] = op[x]
  BY OpStepFrame
<1>2. UNCHANGED ensure
  BY DEF OpAction, OpStep, Start, BeginRequest, Ensured, LockName, Select, Insert, CommitName,
     LockTable, LookTable, CreateTable, CommitTable, Use, Finish, Fail, Operation
<1>3. ASSUME NEW pc \in Pcs, Goto(o, pc) PROVE op'[o].pc = pc
  BY <1>3 DEF Goto, OpStates
<1> DEFINE Keeps == UNCHANGED lock /\ (op'[o].pc \in Holding => op[o].pc \in Holding)
           Takes == lock[At[o]] = Nobody /\ lock' = [lock EXCEPT ![At[o]] = o]
           Gives == /\ op[o].pc \in Holding /\ op'[o].pc \notin Holding
                    /\ lock' = [lock EXCEPT ![At[o]] = Nobody]
<1>4. CASE Keeps
  BY <1>1, <1>2, <1>4 DEF LockInv
<1>5. CASE Takes
  BY <1>1, <1>2, <1>5 DEF LockInv, TypeOK
<1>6. CASE Gives
  <2>1. lock[At[o]] = o
    BY <1>6 DEF LockInv
  <2> QED BY <1>1, <1>2, <1>6, <2>1 DEF LockInv, TypeOK
<1>7. CASE Start(o) \/ BeginRequest(o) \/ Ensured(o) \/ CommitName(o) \/ Use(o) \/ Finish(o)
  BY <1>3, <1>4, <1>7 DEF Start, BeginRequest, Ensured, CommitName, Use, Finish, Pcs, Holding
<1>8. CASE LockName(o)
  BY <1>5, <1>8 DEF LockName, Take, Free
<1>9. CASE Select(o)
  <2>1. CASE Goto(o, "insert") /\ UNCHANGED lock
    BY <1>4, <1>9, <2>1 DEF Select, Holding
  <2>2. CASE (Goto(o, "table") \/ Goto(o, "failed")) /\ Release(At[o])
    BY <1>3, <1>6, <1>9, <2>2 DEF Select, Holding, Release, Pcs
  <2> QED BY <1>9, <2>1, <2>2 DEF Select
<1>10. CASE Insert(o)
  <2>1. op'[o].pc \in {"commit", "ensure", "failed"}
    BY <1>3, <1>10 DEF Insert, Pcs, Retried, OpStates
  <2> QED BY <1>6, <1>10, <2>1 DEF Insert, Release, Holding
<1>11. CASE LockTable(o)
  <2>1. CASE Goto(o, "use") /\ UNCHANGED lock
    BY <1>3, <1>4, <2>1 DEF Pcs, Holding
  <2>2. CASE Take(At[o], o)
    BY <1>5, <2>2 DEF Take, Free
  <2> QED BY <1>11, <2>1, <2>2 DEF LockTable
<1>12. CASE LookTable(o) \/ CreateTable(o) \/ CommitTable(o)
  <2>1. op[o].pc \in Holding
    BY <1>12 DEF LookTable, CreateTable, CommitTable, Holding
  <2>2. CASE UNCHANGED lock
    BY <1>4, <2>1, <2>2
  <2>3. CASE (Goto(o, "use") \/ Goto(o, "failed")) /\ Release(At[o])
    BY <1>3, <1>6, <2>1, <2>3 DEF Holding, Release, Pcs
  <2> QED BY <1>12, <2>2, <2>3 DEF LookTable, CreateTable, CommitTable
<1>13. CASE Fail(o)
  <2>1. op'[o].pc = "failed" /\ lock' = [s \in Servers |-> IF lock[s] = o THEN Nobody ELSE lock[s]]
    BY <1>3, <1>13 DEF Fail, Pcs
  <2> QED BY <1>1, <1>2, <2>1 DEF LockInv, TypeOK, Holding
<1> QED BY <1>7, <1>8, <1>9, <1>10, <1>11, <1>12, <1>13 DEF OpAction, OpStep

(* Who makes a table goes on making it, has made it, or fails and leaves    *)
(* the mark.                                                                *)
LEMMA MakingGoesOn ==
  ASSUME IndexAssumption, TypeInv, LockInv, NEW o \in Ops, OpAction(o),
         NEW s \in Servers, NEW i \in Indexes, NEW x \in Ops, Making(s, i, x)
  PROVE  i \in tables' \/ <<s, i>> \in torn' \/ Making(s, i, x)'
<1> TypeOK /\ op \in OpStates
  BY DEF TypeInv, TypeOK, OpStates, Pcs
<1> USE IndexAssumption
<1>1. CASE x # o
  <2>1. op'[x] = op[x] /\ lock'[s] = lock[s]
    BY <1>1, OpStepFrame, LockOfOpStep DEF Making
  <2> QED BY <2>1 DEF Making
<1>2. CASE x = o
  <2>1. ASSUME NEW pc \in Pcs, Goto(o, pc) PROVE op'[o].pc = pc
    BY <2>1 DEF Goto, OpStates
  <2>2. CASE LookTable(o)
    BY <1>2, <2>1, <2>2 DEF LookTable, Making, Pcs
  <2>3. CASE CreateTable(o)
    BY <1>2, <2>1, <2>3 DEF CreateTable, Making, Pcs
  <2>4. CASE CommitTable(o)
    BY <1>2, <2>4 DEF CommitTable, Making
  <2>5. CASE Fail(o)
    BY <1>2, <2>5 DEF Fail, Making
  <2> QED BY <1>2, <2>2, <2>3, <2>4, <2>5 DEF OpAction, OpStep, Start, BeginRequest, Ensured,
            LockName, Select, Insert, CommitName, LockTable, Use, Finish, Making
<1> QED BY <1>1, <1>2

LEMMA KnownOfOpStep ==
  ASSUME IndexAssumption, TypeInv, LockInv, KnownExists, NEW o \in Ops, OpAction(o)
  PROVE  KnownExists'
<1> TypeOK /\ op \in OpStates
  BY DEF TypeInv, TypeOK, OpStates, Pcs
<1> SUFFICES ASSUME NEW s \in Servers, NEW i \in known'[s]
             PROVE  i \in tables' \/ <<s, i>> \in torn' \/ \E x \in Ops : Making(s, i, x)'
  BY DEF KnownExists, Making
<1>1. tables \subseteq tables' /\ torn \subseteq torn'
  BY DEF OpAction, OpStep, Start, BeginRequest, Ensured, LockName, Select, Insert, CommitName,
     LockTable, LookTable, CreateTable, CommitTable, Use, Finish, Fail, Operation, database
<1>2. CASE i \in known[s]
  <2>1. i \in tables \/ <<s, i>> \in torn \/ \E x \in Ops : Making(s, i, x)
    BY <1>2 DEF KnownExists, Making
  <2>2. i \in Indexes
    BY <1>2 DEF TypeOK
  <2> QED BY <1>1, <2>1, <2>2, MakingGoesOn
<1>3. CASE i \notin known[s]
  <2>1. LockTable(o) /\ known' = [known EXCEPT ![At[o]] = @ \union {On[o]}]
    BY <1>3 DEF OpAction, OpStep, Start, BeginRequest, Ensured, LockName, Select, Insert, CommitName,
       LockTable, LookTable, CreateTable, CommitTable, Use, Finish, Fail
  <2>2. s = At[o] /\ i = On[o]
    BY <1>3, <2>1 DEF TypeOK
  <2>3. Goto(o, "look") /\ Take(At[o], o)
    BY <1>3, <2>1, <2>2 DEF LockTable
  <2>4. op'[o].pc = "look" /\ lock'[s] = o
    BY <2>2, <2>3 DEF Goto, Take, OpStates, TypeOK
  <2> QED BY <2>2, <2>4 DEF Making
<1> QED BY <1>2, <1>3

(* A table that a server takes for existing is in the database, is being   *)
(* made under the lock, or has failed to be made (_EntityBase.metadata).    *)
THEOREM KnownExistsCorrect == Spec => []KnownExists
<1> USE IndexAssumption
<1> DEFINE Inv == TypeInv /\ LockInv /\ KnownExists
<1>1. Init => Inv
  BY TypeInit DEF Init, LockInv, KnownExists, Holding
<1>2. Inv /\ [Next]_vars => Inv'
  <2>1. CASE UNCHANGED vars
    BY <2>1, TypeStep DEF LockInv, KnownExists, vars
  <2> QED BY <2>1, NextSplits, TypeStep, LockOfServerStep, LockOfOpStep, KnownOfServerStep,
            KnownOfOpStep DEF ServerAction
<1>3. Inv => KnownExists
  OBVIOUS
<1> QED BY <1>1, <1>2, <1>3, PTL DEF Spec
----------------------------------------------------------------------------
(* The tries of _get_table_name. *)

(* Which races an operation can have lost: the one for the table `_indexes' *)
(* only before that is there, and the one for the row of its index only     *)
(* before that is there.  Afterwards the one that lost finds what the other *)
(* has made, so none is lost twice.                                         *)
RacesInv ==
  /\ \A s \in Servers : ensure[s] = "yes" => listing
  /\ \A o \in Ops :
       /\ op[o].pc = "idle" => op[o].tries = 0
       /\ ~Ended(o) /\ ensure[At[o]] # "yes" =>
            op[o].pc \in {"begin", "ensure"} /\ op[o].tries <= 1
       /\ ~Ended(o) /\ (~listing \/ ensure[At[o]] = "create") => op[o].tries = 0
       /\ op[o].pc = "insert" => op[o].tries <= 1
       /\ entry[On[o]] = NoMeta => op[o].tries <= 1
       /\ op[o].tries <= 2

(* How `_indexes' is made: who looks for it makes it when it is not there,  *)
(* and when making it fails it is there.                                    *)
LEMMA EnsureMoves ==
  ASSUME IndexAssumption, TypeInv, NEW s \in Servers, EnsureStep(s)
  PROVE  /\ \A z \in Servers : z # s => ensure'[z] = ensure[z]
         /\ ensure[s] # "yes"
         /\ ensure'[s] = "yes" => listing'
         /\ ensure'[s] = "create" => ~listing
         /\ listing => listing'
         /\ \/ UNCHANGED op
            \/ /\ listing /\ UNCHANGED listing /\ ensure[s] = "create" /\ ensure'[s] = "no"
               /\ op' = [o \in Ops |-> IF o \in Ensurers(s) THEN Retried(op[o]) ELSE op[o]]
<1> TypeOK
  BY DEF TypeInv
<1>1. CASE EnsureStart(s)
  BY <1>1 DEF EnsureStart, Ensuring, TypeOK
<1>2. CASE EnsureLook(s)
  BY <1>2 DEF EnsureLook, Ensuring, TypeOK
<1>3. CASE EnsureCreate(s)
  BY <1>3 DEF EnsureCreate, Ensuring, TypeOK
<1>4. CASE EnsureCommit(s)
  BY <1>4 DEF EnsureCommit, Ensuring, TypeOK
<1> QED BY <1>1, <1>2, <1>3, <1>4 DEF EnsureStep

LEMMA RacesOfServerStep ==
  ASSUME IndexAssumption, TypeInv, RacesInv,
         NEW s \in Servers, BootStep(s) \/ EnsureStep(s) \/ Crash(s)
  PROVE  RacesInv'
<1> TypeOK /\ op \in OpStates
  BY DEF TypeInv, TypeOK, OpStates, Pcs
<1> USE IndexAssumption
<1>1. CASE BootStep(s)
  BY <1>1 DEF BootStep, BootRead, BootAlter, BootDeadlocks, BootCommit, database, Serving,
     RacesInv, Ended
<1>2. CASE EnsureStep(s)
  <2>1. UNCHANGED entry
    BY ServerStepOnOps
  <2>2. CASE UNCHANGED op
    <3>1. \A z \in Servers : ensure'[z] = "yes" => listing'
      BY <1>2, EnsureMoves DEF RacesInv
    <3>2. \A o \in Ops : ~Ended(o) /\ ensure'[At[o]] # "yes" => ensure[At[o]] # "yes"
      BY <1>2, EnsureMoves
    <3>3. \A o \in Ops : ~Ended(o) /\ (~listing' \/ ensure'[At[o]] = "create") =>
                           ~listing \/ ensure[At[o]] = "create"
      BY <1>2, EnsureMoves
    <3> QED BY <2>1, <2>2, <3>1, <3>2, <3>3 DEF RacesInv, Ended
  <2>3. CASE ~UNCHANGED op
    <3>1. /\ listing /\ listing' /\ ensure[s] = "create" /\ ensure'[s] = "no"
          /\ op' = [o \in Ops |-> IF o \in Ensurers(s) THEN Retried(op[o]) ELSE op[o]]
          /\ \A z \in Servers : z # s => ensure'[z] = ensure[z]
      BY <1>2, <2>3, EnsureMoves
    <3>2. ASSUME NEW o \in Ops, o \in Ensurers(s)
          PROVE  /\ op[o].tries = 0 /\ op'[o].tries = 1 /\ At[o] = s
                 /\ op'[o].pc \in {"ensure", "failed"}
      <4>1. op[o].tries = 0 /\ At[o] = s
        BY <3>1, <3>2 DEF Ensurers, Ended, RacesInv
      <4> QED BY <3>1, <3>2, <4>1 DEF Retried
    <3>3. \A o \in Ops : o \notin Ensurers(s) => op'[o] = op[o]
      BY <3>1
    <3> QED BY <2>1, <3>1, <3>2, <3>3 DEF RacesInv, Ended
  <2> QED BY <2>2, <2>3
<1>3. CASE Crash(s)
  <2>1. /\ UNCHANGED <<listing, entry>> /\ ensure' = [ensure EXCEPT ![s] = "no"]
        /\ \A o \in Ops : op'[o].tries = op[o].tries
        /\ \A o \in Ops : At[o] # s => op'[o] = op[o]
        /\ \A o \in Ops : op'[o] = op[o] \/ op'[o].pc = "failed"
        /\ \A o \in Ops : At[o] = s => op'[o].pc \in {"idle", "done", "failed"}
    BY <1>3 DEF Crash, database, OpStates, Ended
  <2>2. \A z \in Servers : z # s => ensure'[z] = ensure[z]
    BY <2>1 DEF TypeOK
  <2>3. \A z \in Servers : ensure'[z] = "yes" => listing'
    BY <2>1 DEF TypeOK, RacesInv
  <2> QED BY <2>1, <2>2, <2>3 DEF RacesInv, Ended
<1> QED BY <1>1, <1>2, <1>3

(* Where a step leads an operation to, and when it costs a try. *)
LEMMA OpMoves ==
  ASSUME IndexAssumption, TypeInv, NEW o \in Ops, OpAction(o)
  PROVE  /\ UNCHANGED <<listing, ensure>>
         /\ ~Ended(o) \/ op[o].pc = "idle"
         /\ op'[o].pc # "idle"
         /\ \/ op'[o].tries = op[o].tries
            \/ /\ Insert(o) /\ entry[On[o]] # NoMeta
               /\ op'[o].tries = op[o].tries + 1 /\ op'[o].pc \in {"ensure", "failed"}
         /\ op[o].pc \in {"idle", "begin"} => op'[o].pc \in {"begin", "ensure", "failed"}
         /\ op[o].pc = "ensure" => op'[o].pc = "failed" \/ ensure[At[o]] = "yes"
         /\ op'[o].pc = "insert" => entry[On[o]] = NoMeta
<1> op \in OpStates
  BY DEF TypeInv, TypeOK, OpStates, Pcs
<1>1. UNCHANGED <<listing, ensure>>
  BY DEF OpAction, OpStep, Start, BeginRequest, Ensured, LockName, Select, Insert, CommitName,
     LockTable, LookTable, CreateTable, CommitTable, Use, Finish, Fail, Operation, database
<1>2. ASSUME NEW pc \in Pcs, Goto(o, pc) PROVE op'[o].pc = pc /\ op'[o].tries = op[o].tries
  BY <1>2 DEF Goto, OpStates
<1>3. CASE Start(o) \/ BeginRequest(o) \/ Ensured(o) \/ LockName(o)
  BY <1>1, <1>2, <1>3 DEF Start, BeginRequest, Ensured, LockName, Pcs, Ended
<1>4. CASE Select(o)
  BY <1>1, <1>2, <1>4 DEF Select, Pcs, Ended
<1>5. CASE Insert(o)
  <2>1. CASE entry[On[o]] = NoMeta
    BY <1>1, <1>2, <1>5, <2>1 DEF Insert, Pcs, Ended
  <2>2. CASE entry[On[o]] # NoMeta
    <3>1. op'[o] = Retried(op[o])
      BY <1>5, <2>2 DEF Insert, OpStates
    <3>2. op'[o].tries = op[o].tries + 1 /\ op'[o].pc \in {"ensure", "failed"}
      BY <3>1 DEF Retried
    <3> QED BY <1>1, <1>5, <2>2, <3>2 DEF Insert, Ended
  <2> QED BY <2>1, <2>2
<1>6. CASE CommitName(o) \/ LockTable(o) \/ LookTable(o)
  BY <1>1, <1>2, <1>6 DEF CommitName, LockTable, LookTable, Pcs, Ended
<1>7. CASE CreateTable(o) \/ CommitTable(o) \/ Use(o) \/ Finish(o)
  BY <1>1, <1>2, <1>7 DEF CreateTable, CommitTable, Use, Finish, Pcs, Ended
<1>8. CASE Fail(o)
  BY <1>1, <1>2, <1>8 DEF Fail, Pcs, Ended
<1> QED BY <1>3, <1>4, <1>5, <1>6, <1>7, <1>8 DEF OpAction, OpStep

LEMMA RacesOfOpStep ==
  ASSUME IndexAssumption, TypeInv, RacesInv, NEW o \in Ops, OpAction(o)
  PROVE  RacesInv'
<1> TypeOK /\ op \in OpStates
  BY DEF TypeInv, TypeOK, OpStates, Pcs
<1> USE IndexAssumption
<1> op[o].tries \in Nat
  BY DEF OpStates
<1>1. \A x \in Ops : entry'[On[x]] = NoMeta => entry[On[x]] = NoMeta
  <2>1. CASE CommitName(o)
    BY <2>1 DEF CommitName, TypeOK
  <2>2. CASE ~CommitName(o)
    BY <2>2, OpStepFrame
  <2> QED BY <2>1, <2>2
<1>2. /\ UNCHANGED <<listing, ensure>>
      /\ \A x \in Ops : x # o => op'[x] = op[x]
  BY OpMoves, OpStepFrame
<1>3. CASE op'[o].tries = op[o].tries
  <2>1. ~Ended(o)' /\ ensure[At[o]] # "yes" => op'[o].pc \in {"begin", "ensure"} /\ op'[o].tries <= 1
    BY <1>3, OpMoves DEF RacesInv, Ended
  <2>2. ~Ended(o)' /\ (~listing \/ ensure[At[o]] = "create") => op'[o].tries = 0
    BY <1>3, OpMoves DEF RacesInv, Ended
  <2>3. /\ op'[o].pc = "insert" => op'[o].tries <= 1
        /\ entry'[On[o]] = NoMeta => op'[o].tries <= 1
        /\ op'[o].tries <= 2 /\ op'[o].pc # "idle"
    BY <1>1, <1>3, OpMoves DEF RacesInv
  <2> QED BY <1>1, <1>2, <2>1, <2>2, <2>3 DEF RacesInv, Ended
<1>4. CASE op'[o].tries # op[o].tries
  <2>1. /\ op[o].pc = "insert" /\ entry[On[o]] # NoMeta
        /\ op'[o].tries = op[o].tries + 1 /\ op'[o].pc \in {"ensure", "failed"}
    BY <1>4, OpMoves DEF Insert
  <2>2. ensure[At[o]] = "yes" /\ listing
    BY <2>1 DEF RacesInv, Ended
  <2>3. op[o].tries <= 1
    BY <2>1 DEF RacesInv
  <2> QED BY <1>1, <1>2, <2>1, <2>2, <2>3 DEF RacesInv, Ended
<1> QED BY <1>3, <1>4

(* However many operations and servers race, _get_table_name does not run   *)
(* out of its tries: three of the ten would be enough.                      *)
THEOREM TriesSufficeCorrect ==
  ASSUME MaxTries > 2
  PROVE  Spec => []TriesSuffice
<1> USE IndexAssumption
<1>1. Init => TypeInv /\ RacesInv
  BY TypeInit DEF Init, RacesInv, Ended
<1>2. TypeInv /\ RacesInv /\ [Next]_vars => (TypeInv /\ RacesInv)'
  <2>1. CASE UNCHANGED vars
    BY <2>1, TypeStep DEF RacesInv, Ended, vars
  <2> QED BY <2>1, NextSplits, TypeStep, RacesOfServerStep, RacesOfOpStep DEF ServerAction
<1>3. TypeInv /\ RacesInv => TriesSuffice
  BY DEF TypeInv, TypeOK, RacesInv, TriesSuffice
<1> QED BY <1>1, <1>2, <1>3, PTL DEF Spec
============================================================================
