# A TLA+ model of urdyn's memory

urdyn (`src/src/urdyn/*.py`) keeps, beside a project, a store of what an agent
has learned about it: memories with the evidence they rest on, attempts, skills
promoted from lessons, declared conflicts, and observations of the project's
documents. Nothing in it is a server: every command line call, every library
call and the background watcher is a process of its own with its own SQLite
connection to one `memory.db`. What makes the system correct is therefore what
happens *between* those processes, and it is what this directory models: which
reads are made under SQLite's write lock and which are not, what may be
committed by somebody else in between, and what a process that dies leaves.

Paths below are relative to `src/urdyn/` of the repository unless they say
otherwise.

## 1. Inventory

| Component | State it keeps | Operations | Module |
|---|---|---|---|
| Canonical record, writes (`_store.py`, `_workspace.py`, `_memory.py`, `_evidence.py`, `_conflict.py`, `_event.py`, `_attempt.py`, `_skill.py`) | tables `memories`, `memory_evidence`, `evidence`, `attempts`, `skills`, `memory_conflicts`, `events` | `remember`, `learn`, `add_evidence`, `record_attempt`, `promote`, `record_conflict` | `MemoryStore`, `MemoryLedger` |
| Canonical record, reads | none | `recall`, `timeline`, `state`, `conflicts`, `open_conflicts`, and what `preflight` and `context` read (`_gather_experience`) | `MemoryReaders` |
| Opening a store (`_ensure_schema`, `_ensure_search_index`, the migrations) | `PRAGMA user_version`, the schema, the FTS5 table, `_fts_enabled` | open, create, migrate, index, rebuild | `SchemaOpen` |
| Source observations (`seed`, `observe_source`) | tables `sources`, `source_observations`, and the `evidence` they cite | `seed` | `SourceStore` |
| Discovery and ignore rules (`_source.py`, `_ignore.py`) | none | walk with a cap of 50,000 visits, gitignore subset | planned |
| Watcher loop (`_watcher.py`) | baseline and pending fingerprints, the discovery cache (in memory) | reconcile, scan, settle, seed, retry, refuse | `Observation`, `WatchLoop` |
| Watcher lifecycle (`_watcher.py`) | `watcher.json` (the switch), `watcher.lock` (`flock` and the holder's metadata) | start, supervise, spawn, stop | `WatcherLifecycle` |
| Semantic index (`_semantic.py`, `_semantic_store.py`) | a second SQLite file: a metadata row (`building` or `ready`, model artifact) and one vector per record; the local model cache | setup, classify, refresh, query | `SemanticIndex` |
| Context compiler (`_context.py`, `_chunk.py`) | none | split texts, choose passages, admit candidates under a budget | `Chunking`, `ContextCompiler`, `ContextCall` |
| Preflight, guard (`_preflight.py`, `_guard.py`, `_relevance.py`, `_retrieval.py`) | none | select what a task must know; warn of a repeated failure | `Preflight`, `ContextCall` |
| Workspace and manifest (`_manifest.py`, `_workspace.py`) | the `.urdyn` directory and its manifest | init, open, discover | planned |
| Embedding backend (`_semantic.py`) | model files | embed | not modelled: numerics |
| Command line (`_cli.py`, `_terminal.py`) | none | parse, render | not modelled: pure I/O |

**How they interact.** The workspace API opens a store for each call, so *open*
runs before everything else and races with other opens and with writes of those
already open. All writes meet at SQLite's single write lock. `add()`,
`observe_source()`, the migrations and the index backfill take it *before* they
look at anything (`BEGIN IMMEDIATE`); `add_attempt()`, `add_skill()` and
`add_conflict()` look first, in autocommit, and take it at their first `INSERT`.
Reads never take a transaction at all: each SELECT sees its own snapshot. The
watcher is one more caller of `seed()`; the semantic index is derived from the
canonical rows and is compared with them by coverage of ids; the search index is
derived too but is written in the same transaction as the row.

**What is hard about it**, with what would make each part correct:

* *Check and write in different steps* (`add_attempt`, `add_skill`,
  `add_conflict`): what was checked must still be true at the write, which is so
  only because rows are never changed or removed.
* *Two writers with one thought*: no current duplicate, no fork in the history
  of a belief, a retry recognised as one, and not because of a coincidence.
* *One operation, several INSERTs*: the event log and the tables are read by
  different operations (`state()` and `recall()`) and must tell one story.
* *Old rows*: a store migrated from before the present rules holds duplicates and
  unsupported verified memories; they must not become a way round the rules.
* *Reads without a transaction*: the order of the SELECTs alone decides whether
  an answer is coherent and whether a healthy store is reported as corrupted.
* *Opening*: stamps and schemas must agree at every instant of a chain of six
  migrations run by several processes that may die anywhere; healthy files must
  open, corrupt ones must not.
* *Files that change while they are seeded*: the text recorded, its digest, the
  time it is stamped with and the order of the history.
* *Watcher*: one holder, a stop that is not undone, no settled change lost.
* *Semantic index*: a second database that no transaction ties to the first, and
  five SQLite calls in one query: never served half built, vectors of one model
  only, "ready" true of the records the caller has read.
* *Context, preflight, guard*: nothing concurrent, but several rules about one
  answer that are each easy and hard together: four channels of admission with
  floors, margins and limits; a budget under which a smaller answer must be the
  beginning of a larger one; cuts that must lose no word.

`PROJECT.json` lists these one by one, each at its line, with the properties
that watch it.

## 2. Modules

    MemoryModel      rows, tables, and the questions asked of them
      MemoryLedger     what the record promises: every operation at one instant
      MemoryStore      what the code does, in steps       (implements MemoryLedger)
        MemoryReaders    reads, SELECT by SELECT, against every write of MemoryStore
          MemoryReadersProofs
        MemoryStoreProofs
    SchemaOpen       opens of one file by many processes
      SchemaOpenProofs
    SourceStore      seeds of files that change
      SourceStoreProofs
    WatcherLifecycle commands and watchers around a switch and a lock
      WatcherLifecycleProofs
    Observation      what the watcher promises of the files it watches
      WatchLoop        what a running watcher does       (implements Observation)
        WatchLoopProofs
    SemanticIndex    setups, refreshes and queries of the vector index
      SemanticIndexProofs
    Chunking         a document cut into spans
    Preflight        what a task is told, of one read of the store
      ContextCompiler  the same under a budget, for several budgets at once
        ContextCall      documents chunked, chosen and compiled   (with Chunking)
          ContextCallProofs
    MC*              small instances for TLC

Operators named `Definition_Variant`, placed before the definition they vary, are
wrong versions of it, each a bug somebody could write. They are used nowhere in
the specifications. Substituting one for its definition makes TLC find the
property listed with it in `PROJECT.json` violated, which shows that the property
depends on the code being the way it is.

### MemoryStore

*State.* One variable per table: a partial function from primary keys to rows.
The links and roles of `memory_evidence` are kept inside the memory's row
(`MemoryReaders` takes them apart again, because reads SELECT them separately).
`log` is the `events` table by `seq`; `lock` is the process inside
`BEGIN IMMEDIATE`; `session[p]` is what the call of process `p` carries in local
variables between two of its steps.

*Abstractions.* A content, a timestamp or an id is only ever compared, so each is
a member of a small set; ids and times are numbers because the code orders them.
Nothing relates the order of ids or of `recorded_at` to the order of commits:
the clock is read before the lock is taken, and a uuid is random. Of the memory
kinds the store distinguishes one (`lesson`), of the evidence kinds two classes
(those that can verify and those that cannot). The Skill's texts and the free
text of attempts are left out: no decision depends on them. An item of evidence
is its kind.

*Actions.* `BeginAdd`, `DecideAdd`, `InsertMemory` are `MemoryStore.add()`: its
row built, its lock taken, its checks in the order of the code (`Outcome`), its
INSERTs and COMMIT. What a transaction writes becomes visible at its COMMIT, so
the INSERTs are one step. `CheckAttempt`/`InsertAttempt`,
`DeriveSkill`/`InsertSkill`, `CheckConflict`/`InsertConflict` are two steps each,
without a lock in between, as in the code. `Abandon` is the death of a process,
an I/O error or a lock wait that timed out: SQLite rolls back.

### MemoryLedger

The same tables with no process, no lock and no intermediate step: each operation
happens at one instant at which all its preconditions hold, and a memory is
recorded only if it supersedes a *current* one and repeats no current one.
`MemoryStore` implements it under the identity mapping of the tables
(`LedgerSpec`), its locks and sessions hidden; the point is that the two-step
operations of the code are atomic all the same.

### MemoryReaders

A read is the list of SELECTs its Python function runs, in order (`SelectOrder`).
Each takes a snapshot of what it selects; then the answer is assembled from the
pieces (`Answer`), or found corrupt (`IsCorrupt`: an event or a conflict names a
memory that was not found). `moments` is a history variable: what the same answer
would have been, computed from the whole database, at each SELECT.

What is read in event-log order (`timeline`, `state`, the attempts) is a function
from places of the log to ids, not a sequence: it says which comes before which,
and its places do not move when the log is extended, so that what is told of a
fixed set of ids is the same function before and after (`Subjects`, `Told`).

The operation `experience` is what `_gather_experience()` reads of the record for
`preflight()` and `context()`: current memories, conflicts, attempts, and the
evidence that verified lessons and attempts name, ten SELECTs in all. Its memories
are those that were current at the first; its open conflicts are found among
those memories, and may be newer: a conflict declared while it reads is told,
even if one of its members has been superseded before it was declared
or since. `moments` keeps only the first SELECT of it, which is all its promises
speak of. The evidence items are read one by one in the code and at once in the
model, which is the same since items never change or go.

### SchemaOpen

*State.* `version` is `PRAGMA user_version`; `objects` the tables and added
columns present, tables created together standing for one; `rows` and `events`
the memories and how many `memory_recorded` events each has; `indexed` and
`index` the FTS5 table and its content; `step[p]`, `seen[p]` and `fts[p]` where
process `p` is in `_ensure_schema`, the version it last read and its
`_fts_enabled`. `origin` is the file as it was found, to tell sound files from
corrupt ones, and `overdue` the refused opens whose error says "database is locked".

*Actions.* `ReadVersion` (unlocked), `Acquire` (BEGIN IMMEDIATE), `GiveUp` (the
five seconds `sqlite3.connect` waits by default have passed: BEGIN IMMEDIATE raises
an `OperationalError`, and `create_or_open` reports it like every other
`DatabaseError`, as a corrupted store, so that the open is *refused*; possible while
somebody may be in a transaction, `Contended`), `CreateSchema`, `MigrateStep`
(one turn of the loop: the version re-read under the lock picks the step and the
stamp), `Validate`, `FindIndex` (unlocked), `CreateIndex`, `Construct`, and then,
from the open store, a write, an index rebuild, the failure of a build without
FTS5, `Close` and `Crash`. What a process does between BEGIN IMMEDIATE and COMMIT
is one step, but holding the lock is a state, so that others can wait, give up or
see it end in a crash.

*Abstractions.* Column checks of the migrations are the presence of the added
column; a row is its id; a write is `add()`, the only one whose event the
migration from version 1 also writes. Enough to see an event written twice or a
row missing from the index.

### SourceStore

*State.* `past` is the list of states the project's files have been in and
doubles as the clock; `sources`, `observations`, `evidence` and `indexed` are the
tables; a session holds the batch, what was read of each file, and the answers.

*Actions.* `Edit` changes a file, makes it unseedable or creates it. `ReadFile`
reads the next file of the batch (all are read before any is recorded; one that
cannot be seeded ends the call). `Stamp` reads the clock, before the lock.
`ObserveNew`, `ObserveUnchanged`, `ObserveChanged` are `observe_source()` in its
`BEGIN IMMEDIATE` transaction, one per file. `Abandon` is the death of the process
anywhere. Reading one file is one step: a read torn by a concurrent write is
outside the model, and so is the metadata re-check of the discovery walk.

### WatcherLifecycle

*State.* The three files that processes share: `config` and `tmp`
(`watcher.json` and the one temporary file it is written through), `holder` and
`metadata` (`watcher.lock`, its `flock` and its content). `command[k]` is where a
`watch start`, a `watch stop` or a `supervise()` is, `watcher[w]` where a spawned
watcher is in `_child_main`. `stopped` is a history variable.

*Actions.* A command that writes the switch opens, fills and renames the
temporary file in three steps, because another may do the same in between; a file
somebody has open keeps its identity when it is renamed or replaced. A probe
*takes* the lock (`ProbeAcquire`) before it gives it back (`ProbeFree`), so that a
watcher, or another probe, can meet it; `ProbeBusy` acts on whatever the metadata
says, the holder's or not. `Terminate` is SIGTERM and the wait for the lock, which
may time out. A watcher tries the lock once, opens the workspace, reconciles path
by path, publishes, scans, and leaves when `ShouldStop` says so or something
fails. `CommandDies` and `Die` may come at any step; the metadata of a watcher
that dies stays.

*Abstractions.* What is seeded in a reconciliation or a scan is `WatchLoop`'s
(`Observing` says when it may happen). A watcher's record of its last
observation is left out of the metadata, of which the code decides by pid and
version only. Metadata is written in more than one step, so a live
holder's may be read as nobody's. A pid is not used again while `watcher.lock`
names it: when that fails the program signals a stranger, and nothing in it could
notice. Waiting for a spawned watcher (`_wait_until_running`) changes nothing and is
left out. A temporary file left by a command that died is forgotten unless another
command is using it, since the next writer truncates it.

### Observation and WatchLoop

`Observation` is the promise, without a watcher: at any moment a file changes, or
something it has said since what is on record is recorded, if it is new. Which of
several states is recorded is left open. `WatchLoop` implements it
(`KeepsPromise`) under the mapping at its end: `disk` is the last state of `past`,
`said` the text of the state `record` names, `since` the states from that one on.

*State.* `past[path]` is every state of a file, so that a fingerprint, `(mtime,
size)`, can be the number of a state: two states never share one, which is what
the code relies on. `record` is the latest observation, `enabled` the switch,
`baseline`, `pending` and `discovered` the watcher's memory, lost with it;
`watcher` is where `_reconcile_baseline` or `_run_loop` is, and `waived` (history)
the files taken over unread as they now are.

*Actions.* `StartFresh` and `Restart` are the two ways a watcher is spawned:
`enable_and_start` after the switch was off (everything there is taken over) and
`supervise()` (tracked files are read again). `CutShort`, `Reconcile`, `Sleep` are
the baseline; `Rescan`, `Rediscover`, `ScopeFails` compute the scope of a scan;
`Look` is one path of it: quiet, seen for the first time, or settled. A seed is
`Read`, `Refuse` or `Vanished`, then `Record`, or `SeedFails` at either; the file may
change between the fingerprint, the reading and the recording (`Edit`). `Obey`,
`Die` and `Switch` end it. The rate limiter only delays and is the time between
`Look` and `Read`; the two seconds between two scans are taken to be the settle
time. A seed made by hand meanwhile is left out: two seeders are `SourceStore`'s.

### SemanticIndex

*State.* `canon` are the records the pools consist of now, `meta` and `vectors` the
index, `cached` the model cache. A vector is the artifact that made it: texts never
change. `calls[p]` is where a `semantic setup` or a query is; its `calm` and
`steady` say whether the index was cleared since it classified or began to query.
`rivals`, `races` and `due` are history: who else was writing when the present build
began, and what it is to embed.

*Actions.* One per transaction or SELECT. `Gather`, `BeginRebuild`, `AddPool`,
`FinishRebuild` are `semantic_setup()`; `Ask`, `ReadMeta`, `Classify` are
`_semantic_prepare()`, which classifies before and after a refresh; `BeginRefresh`,
`FindPending`, `AddPending`, `EndRefresh` are `_semantic_refresh()`; `Context` and
`Ranked` are the query's two connections. `Write` appends a record, and a new
observation takes its predecessor's chunks out of the pool but not out of the
index. `Leave` may end a call after any step: it returned, failed or died.

### Chunking

A text is a sequence of words and three kinds of blank; a span is a pair of
positions. `Paragraph`, `LastParagraph` and `NoParagraph` find the next paragraph
(`Separates` is the leftmost longest match of the regular expression), `Keep` and
`Cut` emit its spans, `CutsAt` where `rfind` would cut and `Resumes` after the
blanks that are skipped. Words are one character long, which makes a cut in the
middle of a run the same as one between words, and the bound is 4 characters
instead of 1,200.

### Preflight, ContextCompiler, ContextCall

`Preflight` is one answer to one task, over one read of the store (`Select`). Which
texts share words with the task, which the search index finds and how similar each
record is are given with the task: the numbers are a library's, the floors,
margins, limits and the corroboration by shared Evidence are the program's.
A list that the code filters is what stands at the wanted places of the record's
(`Those`, `Picked`): a place is found by its rank among them, so that what is in the
list, and in which order, can be proved without an induction over it.
`ContextCompiler` composes the candidates of a context in their fixed order and
offers them one by one to a budget (`Offered`), for several budgets in lock step,
because the rule is about two budgets. Texts are lengths there, and what an answer
takes to render (`Rendered`) is counted again from its characters, apart from the
sum the code keeps while it admits (`used`). `ContextCall` puts the
parts together: preflight, then each document cut by `Chunking`, its passages scored
by words and ordered across documents (`Sort`), considered one by one, each kept if it
earns its place among those kept before it (`Consider`, with `choice` for the loop's
variables), then compiled. In it words are real, one character each, so that the overlap of a passage with the
query is computed and not given. The whole-number scores of a task replace cosines,
in the order that matters, with no ties between positive ones.

## 3. Runs

All pass within the bounds below; the three that end in a `violation` of one
property are described under *Disagreements*. `CHECK_DEADLOCK FALSE` stands in
every configuration because each system really may stop: ids run out, or the bound
on edits is reached and every call has returned (a watcher that is disabled has
nothing to do, although somebody may always enable it).

| Run | What it shows | Bounds |
|---|---|---|
| `memory_legacy` | Deduplication, the single superseder, the support of verified memories, the recognition of retries, the refusal of requests that resemble legacy rows. | 2 processes, 4 memories of which 2 migrated (the same unsupported verified lesson twice), 3 drafts, 1 evidence. 215,826 states. |
| `memory_experience` | All kinds of record together: what a call checked is true when it writes, also of attempts and skills, which `memory_legacy` has none of; log against tables, links, skills, refinement of the ledger. | 2 processes, 2 memories, 1 each of evidence, attempt, skill, 2 times. 49,781 states. |
| `memory_readers` | No false corruption; answers are snapshots; what `open_conflicts()` guarantees instead. | 1 writer, 1 reader, a legacy note and 2 verified lessons (a note and a lesson can both be current, and conflict), 1 each of evidence and attempt, every kind of read. 1,503,823 states. |
| `schema_open` | Stamps match schemas, a healthy file opens unless the wait for the lock runs out, a corrupt one does not, index matches rows, every open ends. | 3 processes, all with FTS5 or one without; 10 sound files (new, each version, two already indexed) and 7 corrupt ones, 2 rows. 204,023 states. |
| `schema_timeout` | *Violation.* The open of a healthy file is reported as corruption because another is migrating it. | 2 processes, a store of version 1. |
| `source_store` | Histories are whole, have no repetitions, hold what was read before it was stamped; answers cite what was read. | 2 seeders, 2 files, 2 texts, batches of one or two files (the same one twice included), 1 edit. 213,129 states. |
| `source_order` | *Violation.* The history of a Source is not in the order its file was read. | 2 seeders, 1 file, 1 edit. |
| `watcher_lifecycle` | A stop is not undone; what is published is true; a switch that stays off is obeyed; one that stays on has a watcher again and again. | 2 commands, of two versions, 2 watchers alive at once, any number of commands, restarts and deaths one after another. 591,384 states. |
| `watcher_switch` | *Violation.* The switch can be torn. | 2 commands, 1 watcher. |
| `watch_loop` | The baseline never runs ahead of the record; no settled change is lost; a refused file is read once; the loop implements `Observation`. | 2 files, one of which discovery proposes and changes twice, 2 texts, any number of starts, stops, deaths and failures. 447,672 states. |
| `semantic_index` | One vector space; no half-built index served; "ready" is complete; an index that can be repaired is. | 2 processes with different artifacts of the model, one that reads both; 2 pools, a memory and a document that is observed twice. 751,647 states. |
| `context_call` | No word lost to a cut; redundant passages only are left out; lessons and warnings are earned; the prefix rule; nothing told twice. | 9,464 tasks: 8 memories, 3 attempts, a skill and 4 items of evidence under every ordering of 5 scores around the floors, every choice of shared words, pairs of documents, and every text of up to 7 characters (5 with a tab); budgets 12, 25, 40 and 200. 111,337 states. |

*Why the bounds are enough.* Most properties are also proved for all values
of the constants (section 5), so the runs have another task: to show that the
formulas mean what they should (each is broken by a mutant) and that the
interesting cases occur. In `WatchLoop` a file that changes twice passes through three states, the one on
record, the one that settles and the one that is read; in `SemanticIndex` two
processes are a setup and a query, or two setups, with the records that are missing
in a pool that is refreshed first and one refreshed last. The budgets of
`context_call` cut in the first section, in the middle, in VALIDATION and nowhere; texts of seven
characters make two cuts. Two processes suffice for a race between a check and a
write, since the third party in any such race is again a commit; a reader meets other
processes only through their commits, which one writer makes in every order that
several can; `SchemaOpen` has
three because a winner, a loser that waits and a late comer are three roles. Two
watchers are one that leaves and one that comes, and two commands one that stops
and one that had read the switch before; nothing in `WatcherLifecycle` is counted, so
that its runs have no bound on how long they go on. Four
memories allow a legacy pair, a supersession and its retry. Two files in an order
other than the order of the list are needed for batches, one edit for stale
reads. In `memory_legacy` one evidence is enough because only membership of the
supporting set and the kind of its members are looked at. Symmetry is over
processes, and in `SourceStore` over texts and ids, which are compared there and
never ordered; memory ids are ordered by the code and have none. No run with a liveness
property uses symmetry.

*Fairness.* `OpenEnds` (every open ends) needs `WF_vars(Open(p))` for
each process, and not for `ReadVersion`, writes, rebuilds or crashes. A process
inside `create_or_open` is straight-line code driven by the operating system's
scheduler and by a lock wait that is bounded (`GiveUp`); nothing in it waits for
another process's good will. The action that must be fair is the disjunction of
the steps of one open, of which exactly one (or a choice between waiting on and
giving up) is enabled at a time. A process that holds an open store may never
close it, and nobody is assumed to open one.

`ObeysSwitch` and `Recovers` assume `WF` of the steps of each command and each
watcher, which are processes the system schedules; none of starting or stopping,
of failing or of dying. `Recovers` needs also that people go on using urdyn while
the switch is on (`WF` of "some command begins to supervise"): the code has no
daemon that restarts a watcher, "any later urdyn command" does. It does not say that
a watcher always comes back. It names the three things that may prevent it for ever
(`Thwarted`): commands that are interrupted, watchers that die before they have
tried the lock, and watchers that try it at the instant of a probe and exit. The
last is the hazard `peek_lock_metadata` was written to avoid: it does, for the
command that spawned the watcher, and cannot for any other.

`CatchesUp` and `RefusalIsFinal` assume that a watcher that lives goes on (`WF` of its
steps), that the project is walked again and again (`SF` of `Rediscover`: the cache is
ten seconds old at most, but a scan in between may reuse it), and that while the
switch is on some command brings a dead watcher back (`WF` of `Restart`). Neither of
edits, failures or stops. Both name what may prevent them for ever (`Setback`): a
file that never settles, a document that cannot be read or recorded, a path that
drops out of the scope when the store cannot be read, a watcher that is killed or
switched off again and again. A step of a seed that fails in a way the code treats
like an absent file is not among them.

`Heals` assumes of the calls that they go on and return, and that calls are made
again and again (`SF` of `Ask`); setups need not happen. It names as setbacks a
setup that clears the index, a refresh that fails although the index was usable, and a
call that dies before it has repaired anything.

## 4. Disagreements between the code and what is said of it

* `schema_timeout`. The comments of `_ensure_schema` (`_store.py`, line 1722) and
  `_ensure_search_index` (line 1859) say that the loser of the lock blocks, reads again
  and goes on; line 1757 and the tests call an intact store that is "surfaced to the
  caller as a corrupt store" the defect that was repaired. The loser blocks for five
  seconds, the default of `sqlite3.connect` (line 362). A migration, or the filling of
  the search index, that takes longer makes BEGIN IMMEDIATE (lines 1732, 1798, 1882)
  raise an `OperationalError`, which line 365 takes for any `DatabaseError`: "... is
  corrupted: database is locked". `NoHealthyOpenRefused` is the claim; what is true is
  `RefusedOnlyIfLate`: no *collision* is left, and whoever is refused has waited too long.
* `source_order`. The docstring of `observe_source` (line 768) reads A, B, A in a
  history as three states of the file. `seed()` reads files before it asks for
  the lock, so the process that read A first may record it after another has
  recorded A and B: the file has had two states, the history says three, and
  its latest observation is the stale one until somebody seeds the file again.
* `watcher_switch`. The docstring of `write_config` (`_watcher.py`, line 178) says
  that the switch is written atomically, through a temporary file and `os.replace`.
  The temporary file's name is the same for all, so that of two commands that
  write at once one may rename what the other has just truncated. A torn switch
  reads as disabled; the other command's `os.replace` then raises.

The following were met while modelling and have no run of their own. The properties
of the runs state what the code does, and the conditions in them are these.

* *Search index.* The docstring of `fts_enabled` (`_store.py`, line 352) says it is false
  on a SQLite build without FTS5 and that everything then remains functional. It is
  whether the table exists (line 348). A build without FTS5 that opens a store
  some other build has indexed finds the flag true and fails at its first write
  (`UseFails`, which `schema_open` reaches).
* *Semantic index.* The docstring of `_semantic_refresh` (`_workspace.py`, line 1969)
  says that a refresh "cannot mix vector spaces", that of `_semantic_context` (line
  2041) that it is impossible to compare a task with vectors of another model, and
  that of `add_vectors` (`_semantic_store.py`, line 336) that two writers write the same
  vector. A setup that starts while a process with another artifact is writing
  (`rivals`) leaves vectors of both in an index that names one. The
  docstring of `semantic_setup` (`_workspace.py`, line 1758) says that a process that
  dies leaves "never one that reads a half-built index": of two setups at once
  (`races`) the first to finish marks as ready what the second has cleared and not yet
  filled. `OneSpace` and `PublishedIsWhole` hold in all other cases.
* *Watcher.* A comment of `_child_main` (`_watcher.py`, line 1100) counts a `watch start`
  after a `stop` among the starts that read tracked files again. `enable_and_start`
  spawns it `--fresh` (line 905), so a change made while it was stopped is taken
  over unread (`waived`).
* *Chunks.* The docstring of `chunk_text_spans` (`_chunk.py`, line 209) says that each
  character belongs to exactly one span. Blanks at a cut belong to none, and a
  paragraph that ends in blanks may leave an empty last span. `SpansPartition` says what
  is true: no *word* is lost.
* *Budget.* The docstring of `compile_context` (`_context.py`, line 462) says that
  selection moves on to the next candidate after one that does not fit. The code stops at it
  (line 539), as the prefix rule requires: the mutant `Offered_Skips` does what the
  docstring says and breaks `PrefixRule`. When it stops before VALIDATION, the number
  of items left out counts every check that could have been cited, an upper bound.
* *Guard.* `guard()` ranks failed attempts only, `preflight()` all of them, so that the
  margin under the best score may admit to the warning a failure that preflight
  does not show. `GuardWithinPreflight` allows that case and no other.

## 5. Proofs

All theorems are about the specifications above with every constant arbitrary,
under the assumptions named in the modules: `NoProcess` is no process, ids and
times are numbers, evidence lists are sequences of evidence ids, digests tell texts
apart (SHA-256 is taken to be injective), migrated rows have their log and their
links in order (`LegacyAssumption`), the events of a file that is opened name
rows it has (`OpenAssumption`), commands and watchers are different processes
(`LifecycleAssumption`), a text is neither of the two things a file can be
instead (`WatchAssumption`), and the absence of an artifact or of a row of
metadata is neither an artifact nor a row (`SemanticAssumption`). Of the compilation:
the record lists no id twice, memories and attempts have different ids, and floors and
margins are numbers, the margins positive as those of `_semantic.py`, lines 258-260
(`PreflightAssumption`); lines and headings have lengths, and an item of evidence is
not a memory or an attempt (`ContextAssumption`); a span holds at least one character,
and a word has no blank in it (`ChunkAssumption`); the query is finite, a document is
not one of the records above, and no positive score is given to passages of two
documents (`CallAssumption`), which is the tie that section 6 leaves out. TLC
evaluates each of them in the runs.

Each inductive invariant below was checked by TLC on the instance of its run before
it was proved.

### MemoryStoreProofs

`TypeOK` is inductive by itself (`TypeCorrect`). The rest goes through

    IInv == TypeOK /\ DistinctIds /\ ChecksStillHold /\ NoCurrentDuplicates
            /\ SupersededOnce /\ VerifiedIsSupported
            /\ SkillsMirrorLessons /\ LinksResolve

None of the safety properties is inductive alone. That a write keeps them depends
on its checks being still true, `ChecksStillHold`; *that* survives the steps of
other processes because the store only grows (what a session has seen of
evidence, lessons or memories cannot be taken back) and, for `add()`, because the
lock keeps everybody else out of the memories table between the decision and the
INSERT. `DistinctIds` is needed because a write must not take the identifier
another session is about to use, which uuids provide. Each action has a lemma,
with a step per conjunct that it can disturb. `OneHistory` adds
`LogMatchesTables`, an induction of its own that uses `IInv`: its lemmas are about
sequences (one or two events appended keep it injective and ordered).
`AppendOnly`, `Refinement` and `RetrySafe` follow from the invariant: the
refinement shows each action to be one of the ledger's or a stutter, the
two-step operations because what they checked is still so; `RetrySafe` shows that
in any state where a recorded memory is current, its request made again finds it.
`NoPrecedent` needs no invariant: it holds in every state, because `Outcome` decides
admission before it looks for the duplicate.

### MemoryReadersProofs

Readers change nothing, so the store's invariant and `AppendOnly`'s step facts hold
of the whole (`WritersAlone`, `WritersInvariant`). What is added is, for each
reader,

    CallIsSound == InOrder /\ ViewIsPast /\ LaterCovers /\ BegunWhole /\ PairsBracketed

`InOrder`: it has done exactly the first SELECTs of its operation. `ViewIsPast`:
every row it holds is still there, unchanged, because rows are only added.
`LaterCovers`: what it read later covers what it read earlier (ids before log,
log before links, roles and rows, pairs before the known memories, attempts before
their Evidence); this is where the order of the SELECTs enters, and it is what
rules out a false corruption. `BegunWhole`: the answer there would have been at the
first SELECT, told from today's tables, is still the same. When the last SELECT is
done it can be assembled from the view, which makes the answer the snapshot of the
first SELECT. `PairsBracketed` says the same of conflicts, from both sides. Two
kinds of steps are shown to keep `CallIsSound`: any extension of the tables
(`CallStaysSound`) and the reader's own next SELECT (`SelectKeepsSound`, from a
lemma per conjunct). `LogMatchesTables` is needed because the log is read apart from
the rows it names.

### SchemaOpenProofs

The invariant names where a process may be, given what the file is
(`PlaceInv`): in particular that whoever has reached validation saw the version
the file still has, since versions only move forward and 7 is the last. The
properties of sound stores need `SoundInv` (in a file without the search index,
the index is empty; if all builds have FTS5, whoever has constructed has seen the
index), and those of corrupt stores need `CorruptInv`: a store that is
*detectably* corrupt stays detectably corrupt whatever migrations apply to it, so
the last validation still sees it. `MigrationFacts` and `RequiredFacts` compute the
schemas of the versions once. `HealthyOpens` (`RefusedOnlyIfLate`) holds because the
other two ways to be refused, a step that does not apply and a validation that fails,
need a file whose stamp and tables disagree; a lock wait that runs out is refused too,
and is what it leaves out.

### SourceStoreProofs

`CallInv(p)` says what a call under way has read (the first files of its batch,
each at a moment that is past) and answered, by its step. With `HistoryIsWhole`,
`EveryObservationIsAChange`, `ObservationsWereRead` and `AnswersCiteWhatWasRead` it
is inductive; `BatchInOrder` follows. Actions that only change a session share lemmas
(`SessionStepKeeps`, `CallFrame`), and so do the two that record an observation
(`RecordKeeps`, `ReplyKeeps`).

### WatcherLifecycleProofs

    IInv == TypeOK /\ WorkerOwnsLock /\ StopStands
            /\ NothingObservedAfterStop /\ PublishedIsReady

Of two properties that look unrelated neither is inductive. A stop answers only
when it has had the lock itself, and since whoever works has the lock
(`WorkerOwnsLock`) nobody works at that instant; from then on the switch is off
(`StopStands`) and a watcher enters `Observing` only past `ShouldStop`. What commands
do is summed up in one lemma (`CommandEffect`), what a watcher does in two
predicates (`AtWork`, `Gone`) with a lemma each. `OneWatcherWorks` is a corollary:
it is the "second observation stream" the comments rule out.

### WatchLoopProofs

    IInv == TypeOK /\ RecordIsPast /\ BaselineIsPast /\ SeedReadsForward /\ BaselineIsKnown

`BaselineIsKnown` is about a file that is in the baseline as it now is. For it to
survive an edit, no fingerprint of the baseline may be one the file has yet to get
(`BaselineIsPast`); to survive a seed, the seed must have read the file no earlier
than its fingerprint was taken (`SeedReadsForward`): if the file has not changed since
the fingerprint, what was read is what it says, and if it has, the baseline has an
old fingerprint and the file is looked at again. That a record never goes back to
an older state (`RecordIsPast`, and again `SeedReadsForward`) is what the refinement
needs: `Refinement` maps every step to `Edit` or `Observe` of `Observation` or to a
stutter. It is a safety result; that a change is recorded in the end is `CatchesUp`.

### SemanticIndexProofs

    IInv == TypeOK /\ WritersHaveIndex /\ OneArtifact /\ QueryHasModel
            /\ BuildInProgress /\ PublishedIsWhole /\ ReadyCovers

`OneSpace` follows from two facts about an index that no rival writes to: all of
its vectors and all who write to it are of the artifact its row names
(`OneArtifact`), and a query that no clearing has disturbed took its model from
that row (`QueryHasModel`). `PublishedIsWhole` needs to know how far the build is
(`BuildInProgress`: whoever adds is the one whose build it is, and has added the pools
before the next), and `ReadyIsComplete` that what was classified as ready stays
covered until the index is cleared (`ReadyCovers`), although other calls refresh
it and new records supersede old ones. `WritersHaveIndex` says that the row those
facts speak of is there: nobody adds to an index no build has begun.

### ContextCallProofs

One specification, four inductions, each with an invariant of its own over the one
before.

`AnswersInv` says that the answers are those of the task. `LessonsEarn` and `GuardWithin`
then are about operators: what is in a list that was filtered, merged and limited
(`Ranks`, `PickedFacts`, `ThoseFacts`), which of the four channels put it
there, and for the warning what a margin under the best score admits.

    ChunkInv == ChunkTypeOK /\ SpansFit /\ WordsKept /\ (each piece is of one paragraph) /\ ...

`SpansPartition` speaks of a text that has been cut. On the way the words before the
cursor are in the spans *or* in what is left of the paragraph being cut (`Pieces`,
`WordsKept`), and no span reaches beyond the part not yet cut (`Frontier`). That a
separator is the leftmost one is what keeps a paragraph from holding a blank line.
`CutsInv` says that this is done for one document after another.

`ChoiceInv` (`SoundChoice`): what has been kept and what waits together say what all
relevant passages say, whoever waits comes after whoever was kept, and there are no
more passages than one, plus words covered, plus documents found by similarity and
represented. A passage that is kept uses up one of these, which is the bound of
`SufficientCoverage`; one that is passed over has nothing to add, which is its coverage.

`FillInv` has two parts. For each budget the characters rendered are the ones counted
(`Measured`): an item adds a line, and its heading if it is the first of its section.
For each *pair* of budgets (`Follows`) the two compilations are equal, or that of the
smaller is cut, has the beginning of the other, and counts as left out at least what the
other counts and may still cite. The second disjunct is what the code's stop
at the first item that does not fit makes stable; a compiler that went on would
leave it. `PrefixRule` is both parts for compilations that have ended.

`TellingInv` is about what is taken and what is still to be offered, one after the other:
no failure is told twice by both together (`TellsOnce`), each is told with its
contradictions, and until something does not fit they hold all that preflight shows
(`ToldBy`). That the composed candidates are so is `ComposedFacts`, from the first cause
that shares Evidence taking an attempt (`Absorbs`) and history leaving it out.

No induction over data is used: facts about a rank, a concatenation or a sum are proved
from a least counterexample (`LeastNumber`), and sums are the sizes of sets.

### Model-checked only

`OpenEnds`, `ObeysSwitch`, `Recovers`, `CatchesUp`, `RefusalIsFinal` and `Heals`, which
are liveness, out of reach of the temporal backend with `ENABLED`. Every invariant and
every other property that a passing run checks is also a theorem above.

## 6. What is not modelled, and why

* Opening a store that does not exist for a read (`open_if_exists` answers
  `None`): nothing is read or written.
* Lock waits of single reads and of the writes of an open store that end in an
  error: they leave the tables alone, which is `Abandon`. During an open, the reads and
  the COMMIT may also wait too long; they end in the same "database is locked" as
  `GiveUp`, and only BEGIN IMMEDIATE is modelled.
* Files torn while they are read, and files changed between the walk's `stat` and
  its `open`: the operating system's, not the program's.
* SQLite itself. That a transaction is atomic, durable at COMMIT, rolled back
  when its process dies, and that one writer runs at a time, is assumed.
* Stop words, stemming, BM25 and the numbers of similarity: numerics and data. What
  is done with them is modelled, with these left out: ties of scores
  (`argsort` decides), cosines that are negative (they admit nothing, like 0), and the
  limit of 200 candidates of the search index.
* Which files discovery proposes (`_source.py`, `_ignore.py`): a pure walk over a tree with a
  cap of 50,000 visits. `WatchLoop` takes its result as given.
* What ties the reads of `context()` and `preflight()` (`MemoryReaders`) to what is
  chosen from them (`Preflight`, `ContextCompiler`): the latter are over one
  coherent read. The reads of the search index, of skills and of
  source evidence that follow in the same call are left out.
* `list_sources` and `list_current_source_evidence`, which read one Source after another.
* The life of a workspace (`init`, `open`, `discover` and the manifest): planned, below.
* The command line and its output: parsing and rendering.
* Everything in the table of section 1 marked *planned*.

## 7. Plan

Done, in the order of importance: the canonical record and its ledger, its reads,
the opening of a store, source observations, the life of the watcher, its loop
and promise, the semantic index, and the compilation of an answer, all with their
proofs. What remains, in order:

1. `WorkspaceLife`: directory, manifest, a crash between them, two inits.
2. Discovery: ignore rules and the walk's cap against reference definitions over small
   trees.
