---------------------------- MODULE IndexTables ----------------------------
(***************************************************************************)
(* The tables of the index storage (PgvectorIndexStorageBackend), shared   *)
(* by several servers.                                                     *)
(*                                                                         *)
(* The database lists the indexes in the table `_indexes', with the        *)
(* metadata each was made for, and has one table per index; both are made  *)
(* at the first use.  Every server migrates old tables when it starts,     *)
(* remembers the tables it knows (_EntityBase.metadata), serialises its    *)
(* own schema changes with _schema_lock, and takes connections from a pool *)
(* of its own.  An operation may run inside the transaction of a request,  *)
(* which holds another connection.                                         *)
(***************************************************************************)
EXTENDS Naturals, FiniteSets

CONSTANTS
  Servers,
  Indexes,    \* (channel, index name)
  Legacy,     \* those that may have a table of the old structure at the start
  Metas,      \* what DeepDiff compares: the kind of index and its parameters
  Ops,        \* operations: add, remove, export and relevance_search, one each
  At, On,     \* the server and the index of each operation
  Meta,       \* the metadata of the configuration it has been made with
  Nested,     \* the operations inside a request's transaction
  PoolSize,   \* connections per server (10, the default of asyncpg)
  MaxTries,   \* 10 in the code
  MaxFaults,
  Nobody, NoMeta

ASSUME IndexAssumption ==
  /\ Legacy \subseteq Indexes /\ Nested \subseteq Ops
  /\ At \in [Ops -> Servers] /\ On \in [Ops -> Indexes] /\ Meta \in [Ops -> Metas]
  /\ PoolSize \in Nat \ {0} /\ MaxTries \in Nat \ {0} /\ MaxFaults \in Nat
  /\ Ops \intersect Servers = {} /\ Nobody \notin Ops \union Servers /\ NoMeta \notin Metas

VARIABLES
  listing,   \* whether `_indexes' is there
  entry,     \* for each index the metadata of its row, or NoMeta
  tables,    \* indexes with a table
  legacy,    \* those of them that have to be migrated
  boot,      \* for each server how far its start is
  todo,      \* tables it has still to migrate
  altered,   \* tables it has migrated and not committed
  lock,      \* who has _schema_lock: an operation, or the server's ensure_table_exists
  ensure,    \* control state of ensure_table_exists, shared by its callers
  known,     \* tables in _EntityBase.metadata
  op,        \* control state of the operations, and the failed tries of _get_table_name
  faults,
  torn       \* history: tables that a server knows although making them failed

vars == <<listing, entry, tables, legacy, boot, todo, altered, lock, ensure, known, op,
          faults, torn>>

database == <<listing, entry, tables, legacy>>
starting == <<boot, todo, altered>>

Init ==
  /\ legacy \in {{}, Legacy} /\ tables = legacy
  /\ listing = (legacy # {})
  /\ entry \in [Indexes -> Metas \union {NoMeta}]
  /\ \A i \in Indexes : entry[i] # NoMeta <=> i \in legacy
  /\ boot = [s \in Servers |-> "down"]
  /\ todo = [s \in Servers |-> {}] /\ altered = [s \in Servers |-> {}]
  /\ lock = [s \in Servers |-> Nobody]
  /\ ensure = [s \in Servers |-> "no"]
  /\ known = [s \in Servers |-> {}]
  /\ op = [o \in Ops |-> [pc |-> "idle", tries |-> 0]]
  /\ faults = 0 /\ torn = {}

Fault == faults < MaxFaults /\ faults' = faults + 1
----------------------------------------------------------------------------
(* Connections.  A session takes one with its first statement and gives it  *)
(* back when the transaction ends; waiting for one has no timeout.          *)

Ended(o) == op[o].pc \in {"idle", "done", "failed"}

Outer(s) == {o \in Nested : At[o] = s /\ ~Ended(o) /\ op[o].pc # "begin"}

Inner(s) == {o \in Ops : At[o] = s /\ op[o].pc \in {"insert", "commit", "create", "close", "end"}}

Connected(s) ==
  Cardinality(Outer(s)) + Cardinality(Inner(s))
  + (IF boot[s] = "migrate" THEN 1 ELSE 0)
  + (IF ensure[s] \in {"create", "commit"} THEN 1 ELSE 0)

HasConnection(s) == Connected(s) < PoolSize

Free(s) == lock[s] = Nobody

Take(s, x) == Free(s) /\ lock' = [lock EXCEPT ![s] = x]

Release(s) == lock' = [lock EXCEPT ![s] = Nobody]

Goto(o, pc) == op' = [op EXCEPT ![o].pc = pc]
----------------------------------------------------------------------------
(* The start of a server: _initialize and _migrate_indexes, in one          *)
(* transaction.                                                             *)

Serving == UNCHANGED <<lock, ensure, known, op, faults, torn>>

(* Mutant of BootRead: tables that another server migrates are left to it. *)
BootReadOthers(s) ==
  /\ boot[s] = "down"
  /\ boot' = [boot EXCEPT ![s] = "migrate"]
  /\ todo' = [todo EXCEPT ![s] = IF listing THEN legacy \ UNION {altered[x] : x \in Servers} ELSE {}]
  /\ UNCHANGED <<altered, database>> /\ Serving

BootRead(s) ==
  /\ boot[s] = "down"
  /\ boot' = [boot EXCEPT ![s] = "migrate"]
  /\ todo' = [todo EXCEPT ![s] = IF listing THEN legacy ELSE {}]
  /\ UNCHANGED <<altered, database>> /\ Serving

NotStarted(s) ==
  /\ boot' = [boot EXCEPT ![s] = "down"]
  /\ todo' = [todo EXCEPT ![s] = {}] /\ altered' = [altered EXCEPT ![s] = {}]

HeldByOther(s, i) == \E other \in Servers \ {s} : i \in altered[other]

(* `alter table' waits for another server's transaction, and then the old  *)
(* columns are gone.                                                       *)
BootAlter(s) ==
  /\ boot[s] = "migrate"
  /\ \E i \in todo[s] :
       /\ ~HeldByOther(s, i)
       /\ IF i \in legacy
          THEN /\ todo' = [todo EXCEPT ![s] = @ \ {i}]
               /\ altered' = [altered EXCEPT ![s] = @ \union {i}]
               /\ UNCHANGED boot
          ELSE NotStarted(s)
  /\ UNCHANGED database /\ Serving

(* The database breaks a circle of waiting transactions. *)
BootDeadlocks(s) ==
  /\ boot[s] = "migrate"
  /\ \E other \in Servers \ {s} :
       todo[s] \intersect altered[other] # {} /\ todo[other] \intersect altered[s] # {}
  /\ NotStarted(s)
  /\ UNCHANGED database /\ Serving

BootCommit(s) ==
  /\ boot[s] = "migrate" /\ todo[s] = {}
  /\ legacy' = legacy \ altered[s]
  /\ boot' = [boot EXCEPT ![s] = "up"]
  /\ altered' = [altered EXCEPT ![s] = {}]
  /\ UNCHANGED <<todo, listing, entry, tables>> /\ Serving
----------------------------------------------------------------------------
(* Operations. *)

(* The transaction of the request has its connection before the operation  *)
(* starts (delete_document looks the document up).                          *)
Start(o) ==
  /\ boot[At[o]] = "up" /\ op[o].pc = "idle"
  /\ Goto(o, IF o \in Nested THEN "begin" ELSE "ensure")
  /\ UNCHANGED <<database, starting, lock, ensure, known, faults, torn>>

BeginRequest(o) ==
  /\ op[o].pc = "begin" /\ HasConnection(At[o])
  /\ Goto(o, "ensure")
  /\ UNCHANGED <<database, starting, lock, ensure, known, faults, torn>>

(* _get_table_name is tried again after an IntegrityError. *)
Retried(x) ==
  [pc |-> IF x.tries + 1 < MaxTries THEN "ensure" ELSE "failed", tries |-> x.tries + 1]

(* ensure_table_exists: one run per server, shared by the operations that   *)
(* wait for it (alru_cache).  An exception goes to all of them.             *)
Ensuring(s, from, to) ==
  /\ ensure[s] = from
  /\ ensure' = [ensure EXCEPT ![s] = to]
  /\ UNCHANGED <<entry, tables, legacy, starting, known, faults, torn>>

Ensurers(s) == {o \in Ops : At[o] = s /\ op[o].pc = "ensure"}

EnsureStart(s) ==
  /\ Ensurers(s) # {}
  /\ Take(s, s) /\ Ensuring(s, "no", "look") /\ UNCHANGED <<op, listing>>

EnsureLook(s) ==
  /\ HasConnection(s)
  /\ IF listing THEN Ensuring(s, "look", "yes") /\ Release(s)
     ELSE Ensuring(s, "look", "create") /\ UNCHANGED lock
  /\ UNCHANGED <<op, listing>>

(* `create table if not exists' waits for another transaction that makes    *)
(* the same table, and then fails with an IntegrityError; it does nothing   *)
(* when the table was there before.  The lock is released before the        *)
(* transaction ends.                                                        *)
EnsureCreate(s) ==
  /\ \A other \in Servers : ensure[other] # "commit"
  /\ \/ Ensuring(s, "create", IF listing THEN "yes" ELSE "commit") /\ UNCHANGED op
     \/ /\ listing /\ Ensuring(s, "create", "no")
        /\ op' = [o \in Ops |-> IF o \in Ensurers(s) THEN Retried(op[o]) ELSE op[o]]
  /\ Release(s) /\ UNCHANGED listing

EnsureCommit(s) ==
  /\ Ensuring(s, "commit", "yes")
  /\ listing' = TRUE
  /\ UNCHANGED <<op, lock>>

(* What an operation does not touch. *)
Operation == UNCHANGED <<listing, legacy, starting, ensure, faults>>

Ensured(o) ==
  /\ op[o].pc = "ensure" /\ ensure[At[o]] = "yes"
  /\ Goto(o, "name")
  /\ UNCHANGED <<entry, tables, lock, known, torn>> /\ Operation

(* _get_table_name.  Again the lock is released before the transaction that *)
(* inserts the row ends.                                                    *)
LockName(o) ==
  /\ op[o].pc = "name" /\ Take(At[o], o)
  /\ Goto(o, "select")
  /\ UNCHANGED <<entry, tables, known, torn>> /\ Operation

(* Mutant of Select: the metadata is compared only by who inserts it. *)
SelectAny(o) ==
  /\ op[o].pc = "select" /\ HasConnection(At[o])
  /\ IF entry[On[o]] = NoMeta THEN Goto(o, "insert") /\ UNCHANGED lock
     ELSE Goto(o, "table") /\ Release(At[o])
  /\ UNCHANGED <<entry, tables, known, torn>> /\ Operation

(* Mutant of Select: a row that another transaction has added is not seen. *)
SelectStale(o) ==
  /\ op[o].pc = "select" /\ HasConnection(At[o])
  /\ Goto(o, "insert")
  /\ UNCHANGED <<entry, tables, lock, known, torn>> /\ Operation

Select(o) ==
  /\ op[o].pc = "select" /\ HasConnection(At[o])
  /\ \/ entry[On[o]] = NoMeta /\ Goto(o, "insert") /\ UNCHANGED lock
     \/ entry[On[o]] = Meta[o] /\ Goto(o, "table") /\ Release(At[o])
     \/ entry[On[o]] \notin {NoMeta, Meta[o]} /\ Goto(o, "failed") /\ Release(At[o])
  /\ UNCHANGED <<entry, tables, known, torn>> /\ Operation

(* The key waits for another transaction that inserts it. *)
Insert(o) ==
  /\ op[o].pc = "insert"
  /\ \A other \in Ops : On[other] = On[o] => op[other].pc # "commit"
  /\ IF entry[On[o]] = NoMeta THEN Goto(o, "commit") ELSE op' = [op EXCEPT ![o] = Retried(@)]
  /\ Release(At[o])
  /\ UNCHANGED <<entry, tables, known, torn>> /\ Operation

CommitName(o) ==
  /\ op[o].pc = "commit"
  /\ entry' = [entry EXCEPT ![On[o]] = Meta[o]]
  /\ Goto(o, "table")
  /\ UNCHANGED <<tables, lock, known, torn>> /\ Operation

(* Mutant of LockTable: a table that a server knows is locked for nobody. *)
LockTableTwice(o) ==
  /\ op[o].pc = "table" /\ Free(At[o])
  /\ IF On[o] \in known[At[o]] THEN Goto(o, "use") /\ UNCHANGED known
     ELSE /\ Goto(o, "look")
          /\ known' = [known EXCEPT ![At[o]] = @ \union {On[o]}]
  /\ UNCHANGED <<entry, tables, lock, torn>> /\ Operation

(* _get_table: making the Table object enters it in the server's metadata,  *)
(* before it is known to be in the database.                                *)
LockTable(o) ==
  /\ op[o].pc = "table" /\ Free(At[o])
  /\ IF On[o] \in known[At[o]] THEN Goto(o, "use") /\ UNCHANGED <<lock, known>>
     ELSE /\ Goto(o, "look") /\ Take(At[o], o)
          /\ known' = [known EXCEPT ![At[o]] = @ \union {On[o]}]
  /\ UNCHANGED <<entry, tables, torn>> /\ Operation

(* Mutant of LookTable: the lock is not released when there is a table. *)
LookTableHolding(o) ==
  /\ op[o].pc = "look" /\ HasConnection(At[o])
  /\ Goto(o, IF On[o] \in tables THEN "use" ELSE "create")
  /\ UNCHANGED <<entry, tables, lock, known, torn>> /\ Operation

LookTable(o) ==
  /\ op[o].pc = "look" /\ HasConnection(At[o])
  /\ IF On[o] \in tables THEN Goto(o, "use") /\ Release(At[o])
     ELSE Goto(o, "create") /\ UNCHANGED lock
  /\ UNCHANGED <<entry, tables, known, torn>> /\ Operation

(* This IntegrityError is not caught. *)
CreateTable(o) ==
  /\ op[o].pc = "create"
  /\ \A other \in Ops : On[other] = On[o] => op[other].pc # "close"
  /\ \/ On[o] \notin tables /\ Goto(o, "close") /\ UNCHANGED lock
     \/ On[o] \in tables /\ Goto(o, "use") /\ Release(At[o])
     \/ On[o] \in tables /\ Goto(o, "failed") /\ Release(At[o])
  /\ UNCHANGED <<entry, tables, known, torn>> /\ Operation

(* The transaction ends before the lock is released. *)
CommitTable(o) ==
  /\ op[o].pc = "close"
  /\ tables' = tables \union {On[o]}
  /\ Goto(o, "use") /\ Release(At[o])
  /\ UNCHANGED <<entry, known, torn>> /\ Operation

(* The statement of add, remove, export or relevance_search. *)
Use(o) ==
  /\ op[o].pc = "use" /\ HasConnection(At[o])
  /\ Goto(o, IF On[o] \in tables THEN "end" ELSE "failed")
  /\ UNCHANGED <<entry, tables, lock, known, torn>> /\ Operation

Finish(o) ==
  /\ op[o].pc = "end"
  /\ Goto(o, "done")
  /\ UNCHANGED <<entry, tables, lock, known, torn>> /\ Operation
----------------------------------------------------------------------------
(* A statement fails, or the task is cancelled: the transaction is rolled   *)
(* back and the lock released, but the server keeps the Table object.       *)
Fail(o) ==
  /\ ~Ended(o) /\ Fault
  /\ Goto(o, "failed")
  /\ lock' = [s \in Servers |-> IF lock[s] = o THEN Nobody ELSE lock[s]]
  /\ torn' = IF op[o].pc \in {"look", "create", "close"}
             THEN torn \union {<<At[o], On[o]>>} ELSE torn
  /\ UNCHANGED <<database, starting, ensure, known>>

(* A server dies, with what it has not committed, and may start again. *)
Crash(s) ==
  /\ boot[s] # "down" /\ Fault
  /\ NotStarted(s) /\ Release(s)
  /\ ensure' = [ensure EXCEPT ![s] = "no"]
  /\ known' = [known EXCEPT ![s] = {}]
  /\ op' = [o \in Ops |-> IF At[o] = s /\ ~Ended(o) THEN [op[o] EXCEPT !.pc = "failed"]
                         ELSE op[o]]
  /\ torn' = {x \in torn : x[1] # s}
  /\ UNCHANGED database
----------------------------------------------------------------------------
BootStep(s) == BootRead(s) \/ BootAlter(s) \/ BootDeadlocks(s) \/ BootCommit(s)

EnsureStep(s) == EnsureStart(s) \/ EnsureLook(s) \/ EnsureCreate(s) \/ EnsureCommit(s)

OpStep(o) ==
  \/ BeginRequest(o) \/ Ensured(o) \/ LockName(o) \/ Select(o) \/ Insert(o) \/ CommitName(o)
  \/ LockTable(o) \/ LookTable(o) \/ CreateTable(o) \/ CommitTable(o) \/ Use(o) \/ Finish(o)

Next ==
  \/ \E s \in Servers : BootStep(s) \/ EnsureStep(s) \/ Crash(s)
  \/ \E o \in Ops : Start(o) \/ OpStep(o) \/ Fail(o)

Spec == Init /\ [][Next]_vars

(* Coroutines that can go on do.  Nobody has to ask for an operation. *)
FairSpec ==
  /\ Spec
  /\ \A s \in Servers : WF_vars(BootStep(s)) /\ WF_vars(EnsureStep(s))
  /\ \A o \in Ops : WF_vars(OpStep(o))
----------------------------------------------------------------------------
TypeOK ==
  /\ listing \in BOOLEAN /\ entry \in [Indexes -> Metas \union {NoMeta}]
  /\ tables \in SUBSET Indexes /\ legacy \in SUBSET Indexes
  /\ boot \in [Servers -> {"down", "migrate", "up"}]
  /\ todo \in [Servers -> SUBSET Indexes] /\ altered \in [Servers -> SUBSET Indexes]
  /\ lock \in [Servers -> Ops \union Servers \union {Nobody}]
  /\ ensure \in [Servers -> {"no", "look", "create", "commit", "yes"}]
  /\ known \in [Servers -> SUBSET Indexes]
  /\ op \in [Ops -> [pc : {"idle", "begin", "ensure", "name", "select", "insert", "commit",
                           "table", "look", "create", "close", "use", "end", "done", "failed"},
                     tries : 0..MaxTries]]
  /\ faults \in 0..MaxFaults /\ torn \in SUBSET (Servers \X Indexes)

(* Operations that use the table of an index have been configured alike     *)
(* ("metadata mismatch" otherwise), whoever made the row of the index, and  *)
(* however their transactions interleave.                                   *)
UsersAgree ==
  \A o \in Ops : op[o].pc \in {"table", "look", "create", "close", "use", "end", "done"} =>
                   entry[On[o]] = Meta[o]

(* A table that a server knows is in the database, or is being made by the *)
(* one that holds the lock, unless making it has failed.                    *)
KnownExists ==
  \A s \in Servers : \A i \in known[s] :
    \/ i \in tables \/ <<s, i>> \in torn
    \/ \E o \in Ops : /\ lock[s] = o /\ At[o] = s /\ On[o] = i
                      /\ op[o].pc \in {"look", "create", "close"}

(* No server works with tables of the old structure, whichever of those    *)
(* that start at a time migrates them.                                      *)
UpMeansMigrated ==
  \A s \in Servers : boot[s] = "up" => legacy = {}

(* The tries of _get_table_name are enough: there are two rows to race for, *)
(* that of the index and that of the table `_indexes'.                      *)
TriesSuffice ==
  \A o \in Ops : op[o].tries < MaxTries

(* An operation ends, as long as the requests that hold a connection while *)
(* they wait for another leave one in the pool.                             *)
OperationsEnd ==
  \A o \in Ops : (op[o].pc = "begin" \/ op[o].pc = "ensure") ~> Ended(o)

(* "Delete document with given id (and all related data)": the request that *)
(* is inside its transaction ends.                                          *)
DeletesEnd ==
  \A o \in Nested : (op[o].pc = "ensure") ~> Ended(o)
============================================================================
