----------------------------- MODULE SchemaOpen -----------------------------
(***************************************************************************)
(* Opening memory.db from several processes at once (_ensure_schema,       *)
(* _ensure_search_index and MemoryStore.__init__ in                        *)
(* src/urdyn/_store.py): a store of any age is created or migrated one     *)
(* step at a time, then given its derived search index, by whichever       *)
(* process holds SQLite's write lock, while others open, write and die.    *)
(*                                                                         *)
(* A read with no lock and the decision taken from it are separate steps;  *)
(* what a process does between BEGIN IMMEDIATE and COMMIT is one step,     *)
(* because no other process sees any of it before the commit and a process *)
(* that dies leaves none of it behind.                                     *)
(***************************************************************************)
EXTENDS Naturals

CONSTANTS Processes,   \* processes opening the workspace
          NoProcess,   \* nobody holds the write lock
          Ids,         \* uuids of memories
          Stores       \* the files there may be, and the builds that open them

STORE_SCHEMA_VERSION == 7

(* A version some later urdyn may stamp. *)
Versions == 0 .. STORE_SCHEMA_VERSION + 1

(* The two columns added by ALTER TABLE, and the tables; one stands for    *)
(* each group of tables that is created, and required, together.           *)
Columns == {"memories.supersedes", "memory_evidence.role"}
Objects == Columns \cup {"memories", "evidence", "memory_evidence", "events", "attempts",
                         "skills", "memory_conflicts", "sources"}

(* What the step from a version to the next one creates. *)
Migrations ==
    [v \in 1 .. 6 |->
        CASE v = 1 -> {"memories.supersedes", "evidence", "memory_evidence", "events"}
          [] v = 2 -> {"attempts"}
          [] v = 3 -> {"skills"}
          [] v = 4 -> {"memory_evidence.role"}
          [] v = 5 -> {"memory_conflicts"}
          [] v = 6 -> {"sources"}]

ObjectsAt(v) ==
    IF v = 0 THEN {}
    ELSE {"memories"} \cup {o \in Objects : \E w \in 1 .. 6 : w < v /\ o \in Migrations[w]}

RequiredTables(v) == ObjectsAt(v) \ Columns

(* A file as it is found, and the processes that open it whose SQLite has  *)
(* the FTS5 module.                                                        *)
StoreRows == [version : Versions, objects : SUBSET Objects, rows : SUBSET Ids,
              events : [Ids -> 0 .. 1], indexed : BOOLEAN, index : SUBSET Ids,
              builds : SUBSET Processes]

(* Whatever is wrong with a store, its events name rows it has, each once. *)
ASSUME OpenAssumption ==
    /\ NoProcess \notin Processes
    /\ Stores \subseteq StoreRows
    /\ \A store \in Stores, id \in Ids :
         store.events[id] # 0 => store.version >= 2 /\ id \in store.rows

VARIABLES version,   \* PRAGMA user_version
          objects,   \* the tables and added columns of the schema
          rows,      \* the memories table
          events,    \* how many memory_recorded events each memory has
          indexed,   \* whether the search_index table exists
          index,     \* the memories it holds
          lock,      \* the process inside BEGIN IMMEDIATE
          step,      \* what each process is about to do
          seen,      \* the version each process last read
          fts,       \* MemoryStore._fts_enabled of each open store
          overdue,   \* the refused opens whose error says "database is locked"
          origin     \* history: the file as it was found, and who opens it

file == << version, objects, rows, events, indexed, index >>
vars == << file, lock, step, seen, fts, overdue, origin >>

FtsBuilds == origin.builds

Init ==
    /\ origin \in Stores
    /\ version = origin.version
    /\ objects = origin.objects
    /\ rows = origin.rows
    /\ events = origin.events
    /\ indexed = origin.indexed
    /\ index = origin.index
    /\ lock = NoProcess
    /\ step = [p \in Processes |-> "closed"]
    /\ seen = [p \in Processes |-> 0]
    /\ fts = [p \in Processes |-> FALSE]
    /\ overdue = {}

Goto(p, next) == step' = [step EXCEPT ![p] = next]

(* The loop's condition: what a process does with the version it has read. *)
AfterReading(v) == IF v \in DOMAIN Migrations THEN "migrate" ELSE "validate"

----------------------------------------------------------------------------
(* _ensure_schema() *)

(* The unlocked read of the version. *)
ReadVersion(p) ==
    /\ step[p] = "closed"
    /\ seen' = [seen EXCEPT ![p] = version]
    /\ Goto(p, IF version = 0 THEN "create" ELSE AfterReading(version))
    /\ UNCHANGED << file, lock, fts, overdue, origin >>

(* BEGIN IMMEDIATE. *)
Acquire(p) ==
    /\ lock = NoProcess
    /\ \/ step[p] = "create" /\ Goto(p, "creating")
       \/ step[p] = "migrate" /\ Goto(p, "migrating")
       \/ step[p] = "create index" /\ Goto(p, "indexing")
    /\ lock' = p
    /\ UNCHANGED << file, seen, fts, overdue, origin >>

Waiting == {"create", "migrate", "create index"}

(* Whether somebody may be in a transaction: what an open store does in    *)
(* one is a single step here.                                              *)
Contended(p) == lock # NoProcess \/ \E q \in Processes \ {p} : step[q] = "open"

(* sqlite3.connect() waits for a lock five seconds.  Then BEGIN IMMEDIATE  *)
(* raises an OperationalError, which create_or_open() takes for any other  *)
(* DatabaseError: the store "is corrupted: database is locked".            *)
GiveUp(p) ==
    /\ step[p] \in Waiting
    /\ Contended(p)
    /\ Goto(p, "refused")
    /\ overdue' = overdue \cup {p}
    /\ UNCHANGED << file, lock, seen, fts, origin >>

(* The transaction is rolled back. *)
Refuse(p) ==
    /\ Goto(p, "refused")
    /\ UNCHANGED << file, seen >>

(* The version == 0 branch, under the lock. *)
CreateSchema(p) ==
    /\ step[p] = "creating"
    /\ lock' = NoProcess
    /\ IF version # 0
       THEN /\ seen' = [seen EXCEPT ![p] = version]
            /\ Goto(p, AfterReading(version))
            /\ UNCHANGED file
       ELSE IF objects \ Columns # {} THEN Refuse(p)
       ELSE /\ objects' = ObjectsAt(STORE_SCHEMA_VERSION)
            /\ version' = STORE_SCHEMA_VERSION
            /\ seen' = [seen EXCEPT ![p] = STORE_SCHEMA_VERSION]
            /\ Goto(p, "validate")
            /\ UNCHANGED << rows, events, indexed, index >>
    /\ UNCHANGED << fts, overdue, origin >>

(* A step's guard holds and none of what it creates is there already. *)
Applies(v) == RequiredTables(v) \subseteq objects /\ Migrations[v] \cap objects = {}

(* The first step records, as an event, every memory that is older than    *)
(* the events table.                                                       *)
Backfill(v) == [id \in Ids |-> IF v = 1 /\ id \in rows THEN events[id] + 1 ELSE events[id]]

(* The migration from v, if it applies, committed with the stamp it gets.  *)
Migrate(p, v, stamp) ==
    IF ~Applies(v) THEN Refuse(p)
    ELSE /\ objects' = objects \cup Migrations[v]
         /\ events' = Backfill(v)
         /\ version' = stamp
         /\ seen' = [seen EXCEPT ![p] = stamp]
         /\ Goto(p, AfterReading(stamp))
         /\ UNCHANGED << rows, indexed, index >>

(* Another process has finished the chain, or nobody can. *)
Break(p) ==
    /\ seen' = [seen EXCEPT ![p] = version]
    /\ Goto(p, "validate")
    /\ UNCHANGED file

(* Mutants of MigrateStep: the version read before the lock picks the      *)
(* step; it picks the stamp; a process that finds nothing left to do goes  *)
(* round the loop again.                                                   *)
MigrateStep_StaleVersion(p) ==
    /\ step[p] = "migrating"
    /\ lock' = NoProcess
    /\ Migrate(p, seen[p], seen[p] + 1)
    /\ UNCHANGED << fts, overdue, origin >>

MigrateStep_StaleStamp(p) ==
    /\ step[p] = "migrating"
    /\ lock' = NoProcess
    /\ IF version \notin DOMAIN Migrations THEN Break(p) ELSE Migrate(p, version, seen[p] + 1)
    /\ UNCHANGED << fts, overdue, origin >>

MigrateStep_NoBreak(p) ==
    /\ step[p] = "migrating"
    /\ lock' = NoProcess
    /\ IF version \notin DOMAIN Migrations
       THEN Goto(p, "migrate") /\ UNCHANGED << file, seen >>
       ELSE Migrate(p, version, version + 1)
    /\ UNCHANGED << fts, overdue, origin >>

(* One iteration of the loop, under the lock: the version is read again    *)
(* and picks the step and the stamp.                                       *)
MigrateStep(p) ==
    /\ step[p] = "migrating"
    /\ lock' = NoProcess
    /\ IF version \notin DOMAIN Migrations THEN Break(p) ELSE Migrate(p, version, version + 1)
    /\ UNCHANGED << fts, overdue, origin >>

(* Mutant of Validate: the stamp is believed. *)
Validate_Stamp(p) ==
    /\ step[p] = "validate"
    /\ Goto(p, IF seen[p] = STORE_SCHEMA_VERSION THEN "find index" ELSE "refused")
    /\ UNCHANGED << file, lock, seen, fts, overdue, origin >>

(* The version and the tables that must be there. *)
Validate(p) ==
    /\ step[p] = "validate"
    /\ Goto(p, IF /\ seen[p] = STORE_SCHEMA_VERSION
                  /\ RequiredTables(STORE_SCHEMA_VERSION) \subseteq objects
               THEN "find index" ELSE "refused")
    /\ UNCHANGED << file, lock, seen, fts, overdue, origin >>

----------------------------------------------------------------------------
(* _ensure_search_index() and MemoryStore.__init__() *)

(* The unlocked look for the table. *)
FindIndex(p) ==
    /\ step[p] = "find index"
    /\ Goto(p, IF indexed THEN "construct" ELSE "create index")
    /\ UNCHANGED << file, lock, seen, fts, overdue, origin >>

(* Mutant of CreateIndex: the index is created empty. *)
CreateIndex_Empty(p) ==
    /\ step[p] = "indexing"
    /\ lock' = NoProcess
    /\ indexed' = (indexed \/ p \in FtsBuilds)
    /\ Goto(p, "construct")
    /\ UNCHANGED << version, objects, rows, events, index, seen, fts, overdue, origin >>

(* Under the lock: the table is looked for again, created if this build    *)
(* can, and filled from the tables.                                        *)
CreateIndex(p) ==
    /\ step[p] = "indexing"
    /\ lock' = NoProcess
    /\ indexed' = (indexed \/ p \in FtsBuilds)
    /\ index' = IF ~indexed /\ p \in FtsBuilds THEN rows ELSE index
    /\ Goto(p, "construct")
    /\ UNCHANGED << version, objects, rows, events, seen, fts, overdue, origin >>

(* _fts_enabled is read once, here. *)
Construct(p) ==
    /\ step[p] = "construct"
    /\ fts' = [fts EXCEPT ![p] = indexed]
    /\ Goto(p, "open")
    /\ UNCHANGED << file, lock, seen, overdue, origin >>

----------------------------------------------------------------------------
(* An open store *)

(* SQLite cannot touch an FTS5 table without the module. *)
CanUseIndex(p) == fts[p] => p \in FtsBuilds

(* _index_entity(), in the transaction of the row. *)
IndexEntity(p, id) == index' = IF fts[p] THEN index \cup {id} ELSE index

(* A canonical write: add(), with its event and its index entry. *)
Write(p) ==
    /\ step[p] = "open"
    /\ lock = NoProcess
    /\ CanUseIndex(p)
    /\ \E id \in Ids \ rows :
         /\ rows' = rows \cup {id}
         /\ events' = [events EXCEPT ![id] = @ + 1]
         /\ IndexEntity(p, id)
    /\ UNCHANGED << version, objects, indexed, lock, step, seen, fts, overdue, origin >>

(* rebuild_search_index() *)
Rebuild(p) ==
    /\ step[p] = "open"
    /\ lock = NoProcess
    /\ fts[p] /\ CanUseIndex(p)
    /\ index' = rows
    /\ UNCHANGED << version, objects, rows, events, indexed, lock, step, seen, fts, overdue,
                    origin >>

(* Any write or search that touches the index: "no such module: fts5". *)
UseFails(p) ==
    /\ step[p] = "open"
    /\ ~CanUseIndex(p)
    /\ Goto(p, "cannot use index")
    /\ UNCHANGED << file, lock, seen, fts, overdue, origin >>

(* The store is closed, or the process of a call that raised moves on. *)
Close(p) ==
    /\ step[p] \in {"open", "refused", "cannot use index"}
    /\ Goto(p, "closed")
    /\ seen' = [seen EXCEPT ![p] = 0]
    /\ fts' = [fts EXCEPT ![p] = FALSE]
    /\ overdue' = overdue \ {p}
    /\ UNCHANGED << file, lock, origin >>

(* A process dies; SQLite rolls back the transaction it was in. *)
Crash(p) ==
    /\ step[p] # "closed"
    /\ lock' = IF lock = p THEN NoProcess ELSE lock
    /\ Goto(p, "closed")
    /\ seen' = [seen EXCEPT ![p] = 0]
    /\ fts' = [fts EXCEPT ![p] = FALSE]
    /\ overdue' = overdue \ {p}
    /\ UNCHANGED << file, origin >>

Open(p) ==
    \/ Acquire(p) \/ GiveUp(p)
    \/ CreateSchema(p) \/ MigrateStep(p) \/ Validate(p)
    \/ FindIndex(p) \/ CreateIndex(p) \/ Construct(p)

Use(p) == Write(p) \/ Rebuild(p) \/ UseFails(p) \/ Close(p) \/ Crash(p)

Next == \E p \in Processes : ReadVersion(p) \/ Open(p) \/ Use(p)

Spec == Init /\ [][Next]_vars

(* A process that has begun to open a store keeps running: it is stopped   *)
(* only by a crash, and waits for a lock at most the time SQLite allows.   *)
Fairness == \A p \in Processes : WF_vars(Open(p))

FairSpec == Spec /\ Fairness

----------------------------------------------------------------------------
(* Properties *)

Steps == {"closed", "create", "creating", "migrate", "migrating", "validate", "find index",
          "create index", "indexing", "construct", "open",
          "refused", "cannot use index"}

TypeOK ==
    /\ version \in Versions
    /\ objects \in SUBSET Objects
    /\ rows \in SUBSET Ids
    /\ events \in [Ids -> 0 .. 1]
    /\ indexed \in BOOLEAN
    /\ index \in SUBSET Ids
    /\ lock \in Processes \cup {NoProcess}
    /\ step \in [Processes -> Steps]
    /\ seen \in [Processes -> Versions]
    /\ fts \in [Processes -> BOOLEAN]
    /\ overdue \in SUBSET Processes
    /\ origin \in Stores

(* A store urdyn wrote: its tables are those of its version, each memory   *)
(* has its event from version 2 on, and the index holds what it should.    *)
Sound(store) ==
    /\ store.version <= STORE_SCHEMA_VERSION
    /\ store.objects = ObjectsAt(store.version)
    /\ store.version = 0 => store.rows = {}
    /\ \A id \in Ids : store.events[id] = IF store.version >= 2 /\ id \in store.rows THEN 1 ELSE 0
    /\ store.index = IF store.indexed THEN store.rows ELSE {}

(* (A20.R.2) A step and the version that records it never disagree, "not   *)
(* even across a crash", and the events of v1's memories are written once: *)
(* a sound store is sound at every instant of every open.                  *)
StampMatchesSchema ==
    Sound(origin) =>
        /\ version <= STORE_SCHEMA_VERSION
        /\ objects = ObjectsAt(version)
        /\ \A id \in Ids : events[id] = IF version >= 2 /\ id \in rows THEN 1 ELSE 0

(* (A18.1, A20.R, A20.R.2) Nothing that other processes create, migrate,   *)
(* index or leave half done makes an open of a sound store collide with it *)
(* or fail its validation.  What is refused has waited too long for them.  *)
RefusedOnlyIfLate ==
    Sound(origin) => \A p \in Processes : step[p] = "refused" => p \in overdue

(* What the steps detect: tables that are not exactly those of the stamp,  *)
(* or a column that is there before the step that adds it.                 *)
Detectable(v, present) ==
    \/ v > STORE_SCHEMA_VERSION
    \/ ~(RequiredTables(v) \subseteq present)
    \/ v = 0 /\ present \ Columns # {}
    \/ \E w \in 1 .. 6 : 0 < v /\ v <= w /\ Migrations[w] \cap present # {}

(* A corrupt store fails closed: no process ever gets past its validation, *)
(* however many migrate what can still be migrated, and nothing in it that *)
(* was there is lost.                                                      *)
FailsClosed ==
    Detectable(origin.version, origin.objects) =>
        /\ \A p \in Processes : step[p] \notin {"find index", "create index", "indexing",
                                                "construct", "open"}
        /\ origin.objects \subseteq objects
        /\ rows = origin.rows /\ indexed = origin.indexed /\ index = origin.index

(* An open store is at the current version, whoever brought it there, and  *)
(* the flag read at construction is right about the index as long as the   *)
(* index is there to be used.                                              *)
OpenIsCurrent ==
    \A p \in Processes :
        step[p] = "open" =>
            /\ version = STORE_SCHEMA_VERSION
            /\ RequiredTables(STORE_SCHEMA_VERSION) \subseteq objects
            /\ fts[p] => indexed

(* The index can never drift ahead of the canonical rows, and if every     *)
(* process can write it, it never falls behind them either, so the rows    *)
(* written before, during and after the backfill are all found.            *)
IndexMatchesRows ==
    Sound(origin) /\ indexed =>
        /\ index \subseteq rows
        /\ FtsBuilds = Processes => index = rows

(* The stored version only moves forward, one step at a time from a sound  *)
(* store's version 1 on, and only under the lock.                          *)
VersionMovesForward ==
    [][/\ version' \in {version, version + 1} \/ (version = 0 /\ version' = STORE_SCHEMA_VERSION)
       /\ lock # NoProcess /\ step[lock] \in {"creating", "migrating"}]_version

(* Every open ends: the loop never runs on a version it has no step for.   *)
(* Whoever opens a sound store gets it, dies, or has waited too long.      *)
OpenEnds ==
    \A p \in Processes :
        step[p] \in Waiting ~>
            \/ step[p] \in {"open", "closed"}
            \/ step[p] = "refused" /\ (Sound(origin) => p \in overdue)

(* What comments claim and the code does not do: see the findings.         *)

(* "The loser of the lock blocks until the winner commits, then re-reads": *)
(* no open that has "nothing wrong with it" is reported as a corrupt store *)
(* because others are creating, migrating or indexing it.                  *)
NoHealthyOpenRefused == Sound(origin) => \A p \in Processes : step[p] # "refused"
=============================================================================
