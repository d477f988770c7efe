-------------------------- MODULE SchemaOpenProofs --------------------------
(***************************************************************************)
(* Theorems about SchemaOpen, for any number of processes, any memories    *)
(* and any mix of SQLite builds.                                           *)
(***************************************************************************)
EXTENDS SchemaOpen, TLAPS

----------------------------------------------------------------------------
(* The chain of schemas *)

(* The migrations lead from the schema of each version to the next one's,  *)
(* and create only what it does not have.                                  *)
LEMMA MigrationFacts ==
    /\ DOMAIN Migrations = 1 .. 6
    /\ \A v \in 1 .. 6 : /\ Migrations[v] \subseteq Objects
                         /\ ObjectsAt(v + 1) = ObjectsAt(v) \cup Migrations[v]
                         /\ Migrations[v] \cap ObjectsAt(v) = {}
<1>1. DOMAIN Migrations = 1 .. 6
  BY DEF Migrations
<1>2. /\ Migrations[1] = {"memories.supersedes", "evidence", "memory_evidence", "events"}
      /\ Migrations[2] = {"attempts"}
      /\ Migrations[3] = {"skills"}
      /\ Migrations[4] = {"memory_evidence.role"}
      /\ Migrations[5] = {"memory_conflicts"}
      /\ Migrations[6] = {"sources"}
  BY DEF Migrations
<1>3. ASSUME NEW v \in 1 .. 6
      PROVE  /\ Migrations[v] \subseteq Objects
             /\ ObjectsAt(v + 1) = ObjectsAt(v) \cup Migrations[v]
  <2>1. Migrations[v] \subseteq Objects
    BY <1>2 DEF Objects, Columns
  <2>2. \A w \in 1 .. 6 : w < v + 1 <=> w < v \/ w = v
    OBVIOUS
  <2> QED
    BY <2>1, <2>2 DEF ObjectsAt
<1>4. ASSUME NEW v \in 1 .. 6, NEW w \in 1 .. 6, w < v
      PROVE  Migrations[v] \cap Migrations[w] = {} /\ "memories" \notin Migrations[v]
  BY <1>2, <1>4
<1>5. ASSUME NEW v \in 1 .. 6 PROVE "memories" \notin Migrations[v]
  BY <1>2
<1>6. ASSUME NEW v \in 1 .. 6 PROVE Migrations[v] \cap ObjectsAt(v) = {}
  BY <1>4, <1>5 DEF ObjectsAt
<1> QED
  BY <1>1, <1>3, <1>6

(* What a version requires, the schema of that version has. *)
LEMMA RequiredFacts ==
    /\ \A v \in Versions : RequiredTables(v) \subseteq ObjectsAt(v)
    /\ ObjectsAt(0) = {}
    /\ \A v \in Versions : ObjectsAt(v) \subseteq Objects
  BY DEF RequiredTables, ObjectsAt, Versions, Objects

----------------------------------------------------------------------------
(* The inductive invariant *)

Locked == {"creating", "migrating", "indexing"}
Validated == {"find index", "create index", "indexing", "construct", "open"}

(* The lock is held by the process inside a transaction. *)
LockInv == \A p \in Processes : step[p] \in Locked <=> lock = p

(* What the place a process has reached says of the version, whatever it   *)
(* has read before: versions only move forward.                            *)
PlaceInv ==
    \A p \in Processes :
        /\ step[p] \in {"migrate", "migrating"} => version # 0
        /\ step[p] = "validate" => seen[p] = version /\ version \notin 0 .. 6
        /\ step[p] \in Validated => /\ version = STORE_SCHEMA_VERSION
                                    /\ RequiredTables(STORE_SCHEMA_VERSION) \subseteq objects

(* The flag of a process is set only while it has the store open. *)
FlagInv ==
    \A p \in Processes : fts[p] => indexed /\ step[p] \in {"open", "cannot use index"}

(* No event is there before its table, or names a missing row. *)
EventsInv == \A id \in Ids : events[id] # 0 => version >= 2 /\ id \in rows

(* A store that is detectably corrupt stays so: a step that applies cannot *)
(* be the one that would reveal it.                                        *)
CorruptInv ==
    Detectable(origin.version, origin.objects) =>
        /\ Detectable(version, objects)
        /\ origin.objects \subseteq objects
        /\ rows = origin.rows /\ indexed = origin.indexed /\ index = origin.index

SoundInv ==
    Sound(origin) =>
        /\ version = 0 => rows = {}
        /\ ~indexed => index = {}
        /\ FtsBuilds = Processes => \A p \in Processes : /\ step[p] = "construct" => indexed
                                                         /\ step[p] = "open" => fts[p]

IInv ==
    /\ TypeOK
    /\ LockInv
    /\ PlaceInv
    /\ FlagInv
    /\ EventsInv
    /\ StampMatchesSchema
    /\ RefusedOnlyIfLate
    /\ CorruptInv
    /\ SoundInv
    /\ IndexMatchesRows

LEMMA InitInvariant == Init => IInv
<1> SUFFICES ASSUME Init PROVE IInv
  OBVIOUS
<1>1. /\ origin \in Stores /\ origin \in StoreRows
      /\ version = origin.version /\ objects = origin.objects /\ rows = origin.rows
      /\ events = origin.events /\ indexed = origin.indexed /\ index = origin.index
      /\ \A p \in Processes : step[p] = "closed" /\ seen[p] = 0 /\ fts[p] = FALSE
  BY OpenAssumption DEF Init
<1>2. TypeOK
  BY <1>1 DEF Init, TypeOK, StoreRows, Steps, Versions, STORE_SCHEMA_VERSION
<1>3. LockInv /\ PlaceInv /\ FlagInv
  BY <1>1, OpenAssumption DEF Init, LockInv, PlaceInv, FlagInv, Locked, Validated
<1>4. EventsInv /\ CorruptInv
  BY <1>1, OpenAssumption DEF EventsInv, CorruptInv
<1>5. StampMatchesSchema /\ RefusedOnlyIfLate /\ SoundInv /\ IndexMatchesRows
  BY <1>1 DEF StampMatchesSchema, RefusedOnlyIfLate, SoundInv, IndexMatchesRows, Sound
<1> QED
  BY <1>2, <1>3, <1>4, <1>5 DEF IInv

----------------------------------------------------------------------------
(* Steps that leave the file alone *)

LEMMA Types ==
    ASSUME IInv
    PROVE  /\ version \in 0 .. 8 /\ version \in Nat
           /\ objects \subseteq Objects /\ rows \subseteq Ids /\ index \subseteq Ids
           /\ events \in [Ids -> 0 .. 1]
           /\ lock \in Processes \cup {NoProcess}
           /\ step \in [Processes -> Steps]
           /\ seen \in [Processes -> 0 .. 8]
           /\ fts \in [Processes -> BOOLEAN]
           /\ overdue \subseteq Processes
  BY DEF IInv, TypeOK, Versions, STORE_SCHEMA_VERSION

(* Their part of the invariant is what they say of the process that moves. *)
LEMMA QuietKeepsFile ==
    ASSUME IInv, UNCHANGED << file, origin >>
    PROVE  (EventsInv /\ StampMatchesSchema /\ CorruptInv /\ IndexMatchesRows)'
  BY DEF IInv, file, EventsInv, StampMatchesSchema, CorruptInv, IndexMatchesRows, FtsBuilds

LEMMA ReadVersionKeeps ==
    ASSUME IInv, NEW p \in Processes, ReadVersion(p)
    PROVE  IInv'
<1>1. (EventsInv /\ StampMatchesSchema /\ CorruptInv /\ IndexMatchesRows)'
  BY QuietKeepsFile DEF ReadVersion
<1>2. TypeOK'
  BY DEF IInv, ReadVersion, Goto, AfterReading, TypeOK, Steps, file
<1>3. LockInv' /\ RefusedOnlyIfLate' /\ SoundInv'
  BY DEF IInv, ReadVersion, Goto, AfterReading, TypeOK, file, LockInv, Locked,
         RefusedOnlyIfLate, SoundInv, FtsBuilds
<1>4. PlaceInv'
  <2>1. /\ version \in Nat /\ version' = version /\ objects' = objects
        /\ seen' = [seen EXCEPT ![p] = version]
        /\ step \in [Processes -> Steps] /\ seen \in [Processes -> 0 .. 8]
    BY Types DEF ReadVersion, file
  <2>2. step' = [step EXCEPT ![p] = IF version = 0 THEN "create"
                                    ELSE IF version \in 1 .. 6 THEN "migrate" ELSE "validate"]
    BY MigrationFacts DEF ReadVersion, Goto, AfterReading
  <2>3. step'[p] \in {"create", "migrate", "validate"}
    BY <2>1, <2>2
  <2>4. /\ step'[p] = "migrate" => version # 0
        /\ step'[p] = "validate" => version \notin 0 .. 6
    BY <2>1, <2>2
  <2>5. \A q \in Processes : q # p => step'[q] = step[q] /\ seen'[q] = seen[q]
    BY <2>1, <2>2
  <2>6. PlaceInv /\ seen'[p] = version
    BY <2>1 DEF IInv
  <2> QED
    BY <2>1, <2>3, <2>4, <2>5, <2>6 DEF PlaceInv, Validated
<1>5. FlagInv'
  BY DEF IInv, ReadVersion, Goto, TypeOK, file, FlagInv
<1> QED
  BY <1>1, <1>2, <1>3, <1>4, <1>5 DEF IInv

LEMMA AcquireKeeps ==
    ASSUME IInv, NEW p \in Processes, Acquire(p)
    PROVE  IInv'
<1>1. (EventsInv /\ StampMatchesSchema /\ CorruptInv /\ IndexMatchesRows)'
  BY QuietKeepsFile DEF Acquire
<1>2. TypeOK'
  BY DEF IInv, Acquire, Goto, TypeOK, Steps, file
<1>3. LockInv'
  BY OpenAssumption DEF IInv, Acquire, Goto, TypeOK, LockInv, Locked
<1>4. RefusedOnlyIfLate' /\ SoundInv' /\ PlaceInv'
  BY DEF IInv, Acquire, Goto, TypeOK, file, RefusedOnlyIfLate, SoundInv, PlaceInv,
         Validated, FtsBuilds
<1>5. FlagInv'
  BY DEF IInv, Acquire, Goto, TypeOK, file, FlagInv
<1> QED
  BY <1>1, <1>2, <1>3, <1>4, <1>5 DEF IInv

LEMMA ValidateKeeps ==
    ASSUME IInv, NEW p \in Processes, Validate(p)
    PROVE  IInv'
<1>1. (EventsInv /\ StampMatchesSchema /\ CorruptInv /\ IndexMatchesRows)'
  BY QuietKeepsFile DEF Validate
<1>2. TypeOK' /\ LockInv'
  BY DEF IInv, Validate, Goto, TypeOK, Steps, file, LockInv, Locked
<1>3. RefusedOnlyIfLate'
  <2>1. Sound(origin) => version = STORE_SCHEMA_VERSION /\ objects = ObjectsAt(version)
    <3>1. version \in Nat /\ version \notin 0 .. 6
      <4>1. version \in Nat /\ PlaceInv
        BY Types DEF IInv
      <4>2. step[p] = "validate"
        BY DEF Validate
      <4> QED
        BY <4>1, <4>2 DEF PlaceInv
    <3>2. Sound(origin) => version <= STORE_SCHEMA_VERSION /\ objects = ObjectsAt(version)
      BY DEF IInv, StampMatchesSchema
    <3> QED
      BY <3>1, <3>2 DEF STORE_SCHEMA_VERSION
  <2>2. Sound(origin) => RequiredTables(STORE_SCHEMA_VERSION) \subseteq objects
    BY <2>1, RequiredFacts DEF IInv, TypeOK
  <2> QED
    BY <2>1, <2>2 DEF IInv, Validate, Goto, TypeOK, RefusedOnlyIfLate, PlaceInv
<1>4. SoundInv' /\ PlaceInv'
  BY DEF IInv, Validate, Goto, TypeOK, file, SoundInv, PlaceInv,
         Validated, FtsBuilds
<1>5. FlagInv'
  BY DEF IInv, Validate, Goto, TypeOK, file, FlagInv
<1> QED
  BY <1>1, <1>2, <1>3, <1>4, <1>5 DEF IInv

LEMMA ClosedTypes ==
    ASSUME step \in [Processes -> Steps], seen \in [Processes -> Versions], NEW p \in Processes,
           step' = [step EXCEPT ![p] = "closed"], seen' = [seen EXCEPT ![p] = 0]
    PROVE  step' \in [Processes -> Steps] /\ seen' \in [Processes -> Versions]
<1>1. "closed" \in Steps
  BY DEF Steps
<1>2. 0 \in Versions
  BY DEF Versions, STORE_SCHEMA_VERSION
<1> QED
  BY <1>1, <1>2

(* The other quiet steps. *)
LEMMA QuietKeeps ==
    ASSUME IInv, NEW p \in Processes,
           GiveUp(p) \/ FindIndex(p) \/ Construct(p) \/ UseFails(p) \/ Close(p) \/ Crash(p)
    PROVE  IInv'
<1>1. (EventsInv /\ StampMatchesSchema /\ CorruptInv /\ IndexMatchesRows)'
  BY QuietKeepsFile DEF GiveUp, FindIndex, Construct, UseFails, Close, Crash
<1>2. TypeOK'
  <2> USE DEF IInv, Goto, TypeOK, Steps, Versions, STORE_SCHEMA_VERSION, file
  <2>1. CASE GiveUp(p) \/ FindIndex(p) \/ UseFails(p)
    BY <2>1 DEF GiveUp, FindIndex, UseFails
  <2>2. CASE Construct(p)
    BY <2>2 DEF Construct
  <2>3. CASE Close(p) \/ Crash(p)
    <3>1. step' \in [Processes -> Steps] /\ seen' \in [Processes -> Versions]
      <4>1. step' = [step EXCEPT ![p] = "closed"] /\ seen' = [seen EXCEPT ![p] = 0]
        BY <2>3 DEF Close, Crash
      <4> QED
        BY <4>1, ClosedTypes
    <3>2. fts' \in [Processes -> BOOLEAN]
      BY <2>3 DEF Close, Crash
    <3>3. lock' \in Processes \cup {NoProcess}
      BY <2>3 DEF Close, Crash
    <3> QED
      BY <2>3, <3>1, <3>2, <3>3 DEF Close, Crash
  <2> QED
    BY <2>1, <2>2, <2>3
<1>3. LockInv'
  <2> USE DEF IInv, Goto, TypeOK, LockInv, Locked
  <2>1. CASE GiveUp(p) \/ FindIndex(p) \/ UseFails(p) \/ Construct(p)
    BY <2>1 DEF GiveUp, FindIndex, UseFails, Construct, Waiting
  <2>2. CASE Close(p)
    BY <2>2 DEF Close
  <2>3. CASE Crash(p)
    BY <2>3, OpenAssumption DEF Crash
  <2> QED
    BY <2>1, <2>2, <2>3
<1>4. RefusedOnlyIfLate' /\ SoundInv'
  BY DEF IInv, GiveUp, FindIndex, Construct, UseFails, Close, Crash, Goto, TypeOK, file,
         RefusedOnlyIfLate, SoundInv, FtsBuilds
<1>5. PlaceInv'
  BY DEF IInv, GiveUp, FindIndex, Construct, UseFails, Close, Crash, Goto, TypeOK, file,
         PlaceInv, Validated, Waiting
<1>6. FlagInv'
  BY DEF IInv, GiveUp, FindIndex, Construct, UseFails, Close, Crash, Goto, TypeOK, file,
         FlagInv, Waiting
<1> QED
  BY <1>1, <1>2, <1>3, <1>4, <1>5, <1>6 DEF IInv

----------------------------------------------------------------------------
(* Steps that change the file *)

(* Nobody else is validated, or about to be, while the version may move.   *)
LEMMA OthersBefore ==
    ASSUME IInv, NEW q \in Processes, version \in 0 .. 6
    PROVE  step[q] # "validate" /\ step[q] \notin Validated /\ step[q] # "construct"
<1>1. PlaceInv
  BY DEF IInv
<1>2. version # STORE_SCHEMA_VERSION
  BY DEF STORE_SCHEMA_VERSION
<1>3. step[q] \notin Validated
  BY <1>1, <1>2 DEF PlaceInv
<1>4. step[q] # "validate"
  BY <1>1 DEF PlaceInv
<1> QED
  BY <1>3, <1>4 DEF Validated

(* What a transaction that creates or migrates the schema leaves as it was *)
(* and what it must show of what it changes.                               *)
LEMMA SchemaStepKeeps ==
    ASSUME IInv, NEW p \in Processes, step[p] \in {"creating", "migrating"},
           version \in 0 .. 6, version' \in version + 1 .. 7,
           objects' \subseteq Objects, objects \subseteq objects',
           events' \in [Ids -> 0 .. 1],
           \A id \in Ids : events'[id] # 0 => version' >= 2 /\ id \in rows,
           StampMatchesSchema',
           Detectable(version, objects) => Detectable(version', objects'),
           UNCHANGED << rows, indexed, index, fts, overdue, origin >>,
           lock' = NoProcess, seen' = [seen EXCEPT ![p] = version'],
           Goto(p, AfterReading(version'))
    PROVE  IInv'
<1> DEFINE next == AfterReading(version')
<1>1. next = IF version' \in 1 .. 6 THEN "migrate" ELSE "validate"
  BY MigrationFacts DEF AfterReading
<1>2. /\ step' = [step EXCEPT ![p] = next] /\ next \in {"migrate", "validate"}
      /\ version' \in Nat /\ version' # 0 /\ version' <= 7
      /\ next = "validate" => version' \notin 0 .. 6
  BY <1>1 DEF Goto
<1> HIDE DEF next
<1>3. /\ step'[p] = next /\ seen'[p] = version'
      /\ \A q \in Processes : q # p => step'[q] = step[q] /\ seen'[q] = seen[q]
  BY <1>2, Types
<1>4. TypeOK'
  <2>1. version' \in Versions
    BY <1>2 DEF Versions, STORE_SCHEMA_VERSION
  <2>2. next \in Steps
    BY <1>2 DEF Steps
  <2>3. step' \in [Processes -> Steps]
    BY <1>2, <2>2, Types
  <2>4. seen' \in [Processes -> Versions]
    BY <2>1 DEF IInv, TypeOK
  <2>5. indexed' \in BOOLEAN /\ fts' \in [Processes -> BOOLEAN] /\ origin' \in Stores
        /\ overdue' \in SUBSET Processes
        /\ rows' \in SUBSET Ids /\ index' \in SUBSET Ids
    BY DEF IInv, TypeOK
  <2> QED
    BY <2>1, <2>3, <2>4, <2>5 DEF TypeOK
<1>5. LockInv'
  <2>1. step'[p] \notin Locked
    BY <1>2, <1>3 DEF Locked
  <2>2. lock = p /\ LockInv
    BY DEF IInv, LockInv, Locked
  <2> QED
    BY <1>3, <2>1, <2>2, OpenAssumption DEF LockInv
<1>6. PlaceInv'
  <2>1. PlaceInv
    BY DEF IInv
  <2>2. \A q \in Processes : step[q] # "validate" /\ step[q] \notin Validated
    BY OthersBefore
  <2> QED
    BY <1>2, <1>3, <2>1, <2>2 DEF PlaceInv, Validated
<1>7. FlagInv'
  <2>1. FlagInv
    BY DEF IInv
  <2>2. ~fts[p]
    BY <2>1 DEF FlagInv
  <2> QED
    BY <1>3, <2>1, <2>2 DEF FlagInv
<1>8. EventsInv'
  BY DEF EventsInv
<1>9. RefusedOnlyIfLate'
  BY <1>2, <1>3 DEF IInv, RefusedOnlyIfLate
<1>10. CorruptInv'
  BY DEF IInv, CorruptInv
<1>11. SoundInv'
  <2>1. SoundInv
    BY DEF IInv
  <2> QED
    BY <1>2, <1>3, <2>1 DEF SoundInv, FtsBuilds
<1>12. IndexMatchesRows'
  BY DEF IInv, IndexMatchesRows, FtsBuilds
<1> QED
  BY <1>4, <1>5, <1>6, <1>7, <1>8, <1>9, <1>10, <1>11, <1>12 DEF IInv

(* Refusing changes nothing but the place of the process. *)
LEMMA RefuseKeeps ==
    ASSUME IInv, NEW p \in Processes, step[p] \in {"creating", "migrating"},
           ~Sound(origin), Refuse(p), lock' = NoProcess, UNCHANGED << fts, overdue, origin >>
    PROVE  IInv'
<1>1. (EventsInv /\ StampMatchesSchema /\ CorruptInv /\ IndexMatchesRows)'
  BY QuietKeepsFile DEF Refuse
<1>2. TypeOK'
  BY DEF IInv, Refuse, Goto, TypeOK, Steps, file
<1>3. LockInv'
  <2>1. lock = p
    BY DEF IInv, LockInv, Locked
  <2> QED
    BY <2>1, OpenAssumption DEF IInv, Refuse, Goto, TypeOK, LockInv, Locked
<1>4. RefusedOnlyIfLate' /\ SoundInv'
  BY DEF RefusedOnlyIfLate, SoundInv
<1>5. PlaceInv'
  BY DEF IInv, Refuse, Goto, TypeOK, file, PlaceInv, Validated
<1>6. FlagInv'
  BY DEF IInv, Refuse, Goto, TypeOK, file, FlagInv
<1> QED
  BY <1>1, <1>2, <1>3, <1>4, <1>5, <1>6 DEF IInv

LEMMA CreateSchemaKeeps ==
    ASSUME IInv, NEW p \in Processes, CreateSchema(p)
    PROVE  IInv'
<1> USE DEF CreateSchema
<1>1. CASE version # 0
  <2>1. (EventsInv /\ StampMatchesSchema /\ CorruptInv /\ IndexMatchesRows)'
    BY <1>1, QuietKeepsFile
  <2>2. step' = [step EXCEPT ![p] = IF version \in 1 .. 6 THEN "migrate" ELSE "validate"]
    BY <1>1, MigrationFacts DEF Goto, AfterReading
  <2>3. step'[p] \in {"migrate", "validate"}
    BY <2>2, Types
  <2>4. step'[p] = "validate" => version \notin 0 .. 6
    BY <1>1, <2>2, Types
  <2>5. /\ \A q \in Processes : q # p => step'[q] = step[q] /\ seen'[q] = seen[q]
        /\ seen'[p] = version /\ version' = version
    BY <1>1, <2>2, Types DEF file
  <2>6. TypeOK'
    BY <1>1, <2>2 DEF IInv, TypeOK, Steps, file
  <2>7. LockInv'
    <3>1. lock = p
      BY DEF IInv, LockInv, Locked
    <3> QED
      BY <2>3, <2>5, <3>1, OpenAssumption DEF IInv, LockInv, Locked
  <2>8. PlaceInv'
    BY <1>1, <2>3, <2>4, <2>5 DEF IInv, PlaceInv, Validated, file
  <2>9. RefusedOnlyIfLate' /\ SoundInv'
    BY <1>1, <2>3, <2>5 DEF IInv, RefusedOnlyIfLate, SoundInv, file, FtsBuilds
  <2>10. FlagInv'
    BY <1>1, <2>3, <2>5 DEF IInv, FlagInv, file
  <2> QED
    BY <2>1, <2>6, <2>7, <2>8, <2>9, <2>10 DEF IInv
<1>2. CASE version = 0 /\ objects \ Columns # {}
  <2>1. ~Sound(origin)
    BY <1>2, RequiredFacts DEF IInv, StampMatchesSchema
  <2> QED
    BY <1>2, <2>1, RefuseKeeps
<1>3. CASE version = 0 /\ objects \ Columns = {}
  <2>1. version' = 7 /\ objects' = ObjectsAt(7) /\ seen' = [seen EXCEPT ![p] = version']
    BY <1>3 DEF STORE_SCHEMA_VERSION
  <2>2. Goto(p, AfterReading(version'))
    BY <1>3, <2>1, MigrationFacts DEF AfterReading
  <2>3. Sound(origin) => objects = {} /\ rows = {}
    BY <1>3, RequiredFacts DEF IInv, StampMatchesSchema, SoundInv
  <2>4. \A id \in Ids : events[id] = 0
    BY <1>3 DEF IInv, EventsInv
  <2>5. objects \subseteq objects' /\ objects' \subseteq Objects
    <3>1. Columns \subseteq ObjectsAt(7) /\ ObjectsAt(7) \subseteq Objects
      <4>1. /\ "memories.supersedes" \in Migrations[1]
            /\ "memory_evidence.role" \in Migrations[4]
        BY DEF Migrations
      <4> QED
        BY <4>1 DEF Columns, ObjectsAt, Objects
    <3> QED
      BY <1>3, <2>1, <3>1
  <2>6. ~Detectable(version, objects)
    BY <1>3, RequiredFacts DEF Detectable, Versions, RequiredTables, STORE_SCHEMA_VERSION
  <2>7. StampMatchesSchema'
    BY <1>3, <2>1, <2>3, <2>4 DEF StampMatchesSchema, STORE_SCHEMA_VERSION
  <2>8. events' \in [Ids -> 0 .. 1] /\ \A id \in Ids : events'[id] = 0
    BY <1>3, <2>4, Types
  <2>9. UNCHANGED << rows, indexed, index, fts, overdue, origin >> /\ lock' = NoProcess
    BY <1>3
  <2>10. version \in 0 .. 6 /\ version' \in version + 1 .. 7
    BY <1>3, <2>1
  <2>11. step[p] \in {"creating", "migrating"}
    OBVIOUS
  <2> HIDE DEF CreateSchema
  <2> QED
    BY <2>1, <2>2, <2>5, <2>6, <2>7, <2>8, <2>9, <2>10, <2>11, SchemaStepKeeps
<1> QED
  BY <1>1, <1>2, <1>3

(* A migration that applies leaves a detectable corruption detectable. *)
LEMMA MigrateKeepsCorrupt ==
    ASSUME version \in 1 .. 6, Applies(version), Detectable(version, objects)
    PROVE  Detectable(version + 1, objects \cup Migrations[version])
<1>1. PICK w \in 1 .. 6 : version <= w /\ Migrations[w] \cap objects # {}
  BY DEF Detectable, Applies, STORE_SCHEMA_VERSION
<1>2. w # version
  BY <1>1 DEF Applies
<1>3. version + 1 <= w /\ Migrations[w] \cap (objects \cup Migrations[version]) # {}
  BY <1>1, <1>2
<1> QED
  BY <1>3 DEF Detectable

LEMMA MigrateStepKeeps ==
    ASSUME IInv, NEW p \in Processes, MigrateStep(p)
    PROVE  IInv'
<1>0. /\ version # 0 /\ step[p] = "migrating" /\ lock' = NoProcess
      /\ UNCHANGED << fts, overdue, origin >>
  BY DEF IInv, MigrateStep, PlaceInv
<1>1. CASE version \notin DOMAIN Migrations
  <2>1. Break(p) /\ version \notin 0 .. 6
    BY <1>0, <1>1, MigrationFacts DEF MigrateStep
  <2>2. (EventsInv /\ StampMatchesSchema /\ CorruptInv /\ IndexMatchesRows)'
    BY <1>0, <2>1, QuietKeepsFile DEF Break
  <2>3. /\ step' = [step EXCEPT ![p] = "validate"] /\ seen' = [seen EXCEPT ![p] = version]
        /\ UNCHANGED file
    BY <2>1 DEF Break, Goto
  <2>4. TypeOK'
    BY <1>0, <2>3 DEF IInv, TypeOK, Steps, file
  <2>5. LockInv'
    <3>1. lock = p
      BY <1>0 DEF IInv, LockInv, Locked
    <3> QED
      BY <1>0, <2>3, <3>1, Types, OpenAssumption DEF IInv, LockInv, Locked
  <2>6. PlaceInv'
    BY <2>1, <2>3, Types DEF IInv, PlaceInv, Validated, file
  <2>7. RefusedOnlyIfLate' /\ SoundInv'
    BY <1>0, <2>3, Types DEF IInv, RefusedOnlyIfLate, SoundInv, file, FtsBuilds
  <2>8. FlagInv'
    BY <1>0, <2>3, Types DEF IInv, FlagInv, file
  <2> QED
    BY <2>2, <2>4, <2>5, <2>6, <2>7, <2>8 DEF IInv
<1>2. CASE version \in DOMAIN Migrations /\ ~Applies(version)
  <2>1. version \in 1 .. 6 /\ version \in Versions
    BY <1>2, MigrationFacts DEF Versions, STORE_SCHEMA_VERSION
  <2>2. ~Sound(origin)
    BY <1>2, <2>1, MigrationFacts, RequiredFacts DEF IInv, StampMatchesSchema, Applies
  <2>3. Refuse(p)
    BY <1>2 DEF MigrateStep, Migrate
  <2> QED
    BY <1>0, <2>2, <2>3, RefuseKeeps
<1>3. CASE version \in DOMAIN Migrations /\ Applies(version)
  <2>1. version \in 1 .. 6
    BY <1>3, MigrationFacts
  <2>2. /\ version' = version + 1
        /\ objects' = objects \cup Migrations[version]
        /\ events' = Backfill(version)
        /\ seen' = [seen EXCEPT ![p] = version']
        /\ Goto(p, AfterReading(version'))
        /\ UNCHANGED << rows, indexed, index >>
    BY <1>3 DEF MigrateStep, Migrate
  <2>3. objects \subseteq objects' /\ objects' \subseteq Objects
    BY <2>1, <2>2, MigrationFacts, Types
  <2>4. /\ events' \in [Ids -> 0 .. 1]
        /\ \A id \in Ids : /\ version = 1 => events'[id] = IF id \in rows THEN 1 ELSE 0
                           /\ version # 1 => events'[id] = events[id]
    <3>1. version = 1 => \A id \in Ids : events[id] = 0
      BY <2>1 DEF IInv, EventsInv
    <3> QED
      BY <2>1, <2>2, <3>1, Types DEF Backfill
  <2>5. \A id \in Ids : events'[id] # 0 => version' >= 2 /\ id \in rows
    BY <2>1, <2>2, <2>4 DEF IInv, EventsInv
  <2>6. StampMatchesSchema'
    <3>1. Sound(origin) => objects' = ObjectsAt(version')
      BY <2>1, <2>2, MigrationFacts DEF IInv, StampMatchesSchema
    <3>2. Sound(origin) => \A id \in Ids :
            events'[id] = IF version' >= 2 /\ id \in rows' THEN 1 ELSE 0
      BY <2>1, <2>2, <2>4 DEF IInv, StampMatchesSchema
    <3> QED
      BY <1>0, <2>1, <2>2, <3>1, <3>2 DEF StampMatchesSchema, STORE_SCHEMA_VERSION
  <2>7. Detectable(version, objects) => Detectable(version', objects')
    BY <1>3, <2>1, <2>2, MigrateKeepsCorrupt
  <2>8. version \in 0 .. 6 /\ version' \in version + 1 .. 7 /\ step[p] \in {"creating", "migrating"}
    BY <1>0, <2>1, <2>2
  <2> QED
    BY <1>0, <2>2, <2>3, <2>4, <2>5, <2>6, <2>7, <2>8, SchemaStepKeeps
<1> QED
  BY <1>1, <1>2, <1>3

(* Nobody gets past the validation of a store that is detectably corrupt.  *)
LEMMA ValidatedIsNotCorrupt ==
    ASSUME IInv, NEW p \in Processes, step[p] \in Validated
    PROVE  ~Detectable(origin.version, origin.objects) /\ version = STORE_SCHEMA_VERSION
<1>1. version = STORE_SCHEMA_VERSION /\ RequiredTables(STORE_SCHEMA_VERSION) \subseteq objects
  BY DEF IInv, PlaceInv
<1>2. ~Detectable(version, objects)
  BY <1>1 DEF Detectable, STORE_SCHEMA_VERSION
<1> QED
  BY <1>1, <1>2 DEF IInv, CorruptInv

LEMMA CreateIndexKeeps ==
    ASSUME IInv, NEW p \in Processes, CreateIndex(p)
    PROVE  IInv'
<1>0. /\ step[p] = "indexing" /\ lock' = NoProcess
      /\ step' = [step EXCEPT ![p] = "construct"]
      /\ indexed' = (indexed \/ p \in FtsBuilds)
      /\ index' = IF ~indexed /\ p \in FtsBuilds THEN rows ELSE index
      /\ UNCHANGED << version, objects, rows, events, seen, fts, overdue, origin >>
  BY DEF CreateIndex, Goto
<1>1. ~Detectable(origin.version, origin.objects)
  BY <1>0, ValidatedIsNotCorrupt DEF Validated
<1>2. TypeOK'
  <2>1. index' \in SUBSET Ids /\ indexed' \in BOOLEAN
    BY <1>0, Types
  <2>2. step' \in [Processes -> Steps]
    BY <1>0, Types DEF Steps
  <2> QED
    BY <1>0, <2>1, <2>2 DEF IInv, TypeOK
<1>3. LockInv'
  <2>1. lock = p
    BY <1>0 DEF IInv, LockInv, Locked
  <2> QED
    BY <1>0, <2>1, Types, OpenAssumption DEF IInv, LockInv, Locked
<1>4. PlaceInv'
  BY <1>0, Types DEF IInv, PlaceInv, Validated
<1>5. FlagInv'
  BY <1>0, Types DEF IInv, FlagInv
<1>6. (EventsInv /\ StampMatchesSchema /\ CorruptInv)'
  BY <1>0, <1>1 DEF IInv, EventsInv, StampMatchesSchema, CorruptInv
<1>7. RefusedOnlyIfLate'
  BY <1>0, Types DEF IInv, RefusedOnlyIfLate
<1>8. SoundInv'
  <2>1. SoundInv
    BY DEF IInv
  <2>2. Sound(origin) /\ ~indexed' => index' = {}
    BY <1>0, <2>1 DEF SoundInv
  <2>3. FtsBuilds = Processes => indexed'
    BY <1>0
  <2> QED
    BY <1>0, <2>1, <2>2, <2>3, Types DEF SoundInv, FtsBuilds
<1>9. IndexMatchesRows'
  BY <1>0 DEF IInv, IndexMatchesRows, SoundInv, FtsBuilds
<1> QED
  BY <1>2, <1>3, <1>4, <1>5, <1>6, <1>7, <1>8, <1>9 DEF IInv

LEMMA WriteKeeps ==
    ASSUME IInv, NEW p \in Processes, Write(p)
    PROVE  IInv'
<1>1. PICK id \in Ids \ rows : /\ rows' = rows \cup {id}
                               /\ events' = [events EXCEPT ![id] = @ + 1]
                               /\ index' = IF fts[p] THEN index \cup {id} ELSE index
  BY DEF Write, IndexEntity
<1>2. /\ step[p] = "open"
      /\ UNCHANGED << version, objects, indexed, lock, step, seen, fts, overdue, origin >>
  BY DEF Write
<1>3. ~Detectable(origin.version, origin.objects) /\ version = STORE_SCHEMA_VERSION
  BY <1>2, ValidatedIsNotCorrupt DEF Validated
<1>4. events[id] = 0
  BY Types DEF IInv, EventsInv
<1>5. /\ events' \in [Ids -> 0 .. 1]
      /\ events'[id] = 1 /\ \A other \in Ids : other # id => events'[other] = events[other]
  BY <1>1, <1>4, Types
<1>6. TypeOK'
  BY <1>1, <1>2, <1>5, Types DEF IInv, TypeOK
<1>7. (LockInv /\ PlaceInv /\ FlagInv /\ RefusedOnlyIfLate)'
  BY <1>2 DEF IInv, LockInv, PlaceInv, FlagInv, RefusedOnlyIfLate
<1>8. EventsInv'
  BY <1>1, <1>2, <1>3, <1>5 DEF IInv, EventsInv, STORE_SCHEMA_VERSION
<1>9. StampMatchesSchema'
  <2>1. version >= 2 /\ version' >= 2
    BY <1>2, <1>3 DEF STORE_SCHEMA_VERSION
  <2>2. ASSUME Sound(origin), NEW other \in Ids
        PROVE  events'[other] = IF version' >= 2 /\ other \in rows' THEN 1 ELSE 0
    <3>1. events[other] = IF version >= 2 /\ other \in rows THEN 1 ELSE 0
      BY <2>2 DEF IInv, StampMatchesSchema
    <3> QED
      BY <1>1, <1>5, <2>1, <3>1
  <2> QED
    BY <1>2, <2>2 DEF IInv, StampMatchesSchema
<1>10. CorruptInv'
  BY <1>2, <1>3 DEF CorruptInv
<1>11. SoundInv'
  <2>1. fts[p] => indexed
    BY DEF IInv, FlagInv
  <2>2. version' # 0
    BY <1>2, <1>3 DEF STORE_SCHEMA_VERSION
  <2> QED
    BY <1>1, <1>2, <2>1, <2>2 DEF IInv, SoundInv, FtsBuilds
<1>12. IndexMatchesRows'
  <2>1. Sound(origin) /\ FtsBuilds = Processes => fts[p]
    BY <1>2 DEF IInv, SoundInv
  <2> QED
    BY <1>1, <1>2, <2>1 DEF IInv, IndexMatchesRows, FtsBuilds
<1> QED
  BY <1>6, <1>7, <1>8, <1>9, <1>10, <1>11, <1>12 DEF IInv

LEMMA RebuildKeeps ==
    ASSUME IInv, NEW p \in Processes, Rebuild(p)
    PROVE  IInv'
<1>1. /\ step[p] = "open" /\ fts[p] /\ index' = rows
      /\ UNCHANGED << version, objects, rows, events, indexed, lock, step, seen, fts, overdue,
                      origin >>
  BY DEF Rebuild
<1>2. ~Detectable(origin.version, origin.objects)
  BY <1>1, ValidatedIsNotCorrupt DEF Validated
<1>3. indexed
  BY <1>1 DEF IInv, FlagInv
<1>4. TypeOK'
  BY <1>1 DEF IInv, TypeOK
<1>5. (LockInv /\ PlaceInv /\ FlagInv /\ RefusedOnlyIfLate)'
  BY <1>1 DEF IInv, LockInv, PlaceInv, FlagInv, RefusedOnlyIfLate
<1>6. (EventsInv /\ StampMatchesSchema /\ CorruptInv)'
  BY <1>1, <1>2 DEF IInv, EventsInv, StampMatchesSchema, CorruptInv
<1>7. (SoundInv /\ IndexMatchesRows)'
  BY <1>1, <1>3 DEF IInv, SoundInv, IndexMatchesRows, FtsBuilds
<1> QED
  BY <1>4, <1>5, <1>6, <1>7 DEF IInv

----------------------------------------------------------------------------
(* The theorems *)

LEMMA StepInvariant == IInv /\ [Next]_vars => IInv'
<1>1. ASSUME IInv, UNCHANGED vars PROVE IInv'
  <2>1. (EventsInv /\ StampMatchesSchema /\ CorruptInv /\ IndexMatchesRows)'
    BY <1>1, QuietKeepsFile DEF vars
  <2>2. (TypeOK /\ LockInv /\ PlaceInv /\ FlagInv /\ RefusedOnlyIfLate /\ SoundInv)'
    BY <1>1 DEF IInv, vars, file, TypeOK, LockInv, PlaceInv, FlagInv,
                RefusedOnlyIfLate, SoundInv, FtsBuilds
  <2> QED
    BY <2>1, <2>2 DEF IInv
<1>2. ASSUME IInv, NEW p \in Processes, ReadVersion(p) \/ Open(p) \/ Use(p)
      PROVE  IInv'
  BY <1>2, ReadVersionKeeps, AcquireKeeps, CreateSchemaKeeps, MigrateStepKeeps, ValidateKeeps,
     CreateIndexKeeps, WriteKeeps, RebuildKeeps, QuietKeeps
     DEF Open, Use
<1> QED
  BY <1>1, <1>2 DEF Next

(* The inductive invariant holds of every open, crash and write. *)
THEOREM Invariant == Spec => []IInv
  BY InitInvariant, StepInvariant, PTL DEF Spec

(* Type correctness of the open. *)
THEOREM TypeCorrect == Spec => []TypeOK
<1>1. IInv => TypeOK
  BY DEF IInv
<1> QED
  BY <1>1, Invariant, PTL

(* A step and its stamp never disagree, and history is backfilled once. *)
THEOREM StampedSchema == Spec => []StampMatchesSchema
<1>1. IInv => StampMatchesSchema
  BY DEF IInv
<1> QED
  BY <1>1, Invariant, PTL

(* However many processes open a sound store, whatever they leave half     *)
(* done, the only opens refused are those whose wait for the lock ran out. *)
THEOREM HealthyOpens == Spec => []RefusedOnlyIfLate
<1>1. IInv => RefusedOnlyIfLate
  BY DEF IInv
<1> QED
  BY <1>1, Invariant, PTL

(* However many processes open a corrupt store, none gets in. *)
THEOREM CorruptFailsClosed == Spec => []FailsClosed
<1>1. IInv => FailsClosed
  <2> SUFFICES ASSUME IInv, Detectable(origin.version, origin.objects) PROVE FailsClosed
    BY DEF FailsClosed
  <2>1. \A p \in Processes : step[p] \notin Validated
    BY ValidatedIsNotCorrupt
  <2> QED
    BY <2>1 DEF IInv, CorruptInv, FailsClosed, Validated
<1> QED
  BY <1>1, Invariant, PTL

(* An open store is current, and its flag is never set without an index. *)
THEOREM OpenedCurrent == Spec => []OpenIsCurrent
<1>1. IInv => OpenIsCurrent
  <2>1. IInv => PlaceInv /\ FlagInv
    BY DEF IInv
  <2> QED
    BY <2>1 DEF PlaceInv, FlagInv, OpenIsCurrent, Validated
<1> QED
  BY <1>1, Invariant, PTL

(* The derived index never drifts from the rows. *)
THEOREM IndexFaithful == Spec => []IndexMatchesRows
<1>1. IInv => IndexMatchesRows
  BY DEF IInv
<1> QED
  BY <1>1, Invariant, PTL

(* The version moves forward, one step at a time, and only under the lock. *)
THEOREM ForwardOnly == Spec => VersionMovesForward
<1> DEFINE Forward == /\ \/ version' \in {version, version + 1}
                         \/ version = 0 /\ version' = STORE_SCHEMA_VERSION
                      /\ lock # NoProcess /\ step[lock] \in {"creating", "migrating"}
<1>1. ASSUME IInv, NEW p \in Processes, ReadVersion(p) \/ Open(p) \/ Use(p)
      PROVE  Forward \/ version' = version
  <2>1. CASE CreateSchema(p)
    <3>1. version' = version \/ (version = 0 /\ version' = STORE_SCHEMA_VERSION)
      BY <2>1 DEF CreateSchema, Refuse, file
    <3>2. step[p] = "creating" /\ lock = p
      BY <1>1, <2>1 DEF CreateSchema, IInv, LockInv, Locked
    <3> QED
      BY <3>1, <3>2, OpenAssumption
  <2>2. CASE MigrateStep(p)
    <3>1. version' = version \/ version' = version + 1
      BY <2>2 DEF MigrateStep, Migrate, Break, Refuse, file
    <3>2. step[p] = "migrating" /\ lock = p
      BY <1>1, <2>2 DEF MigrateStep, IInv, LockInv, Locked
    <3> QED
      BY <3>1, <3>2, OpenAssumption
  <2>3. CASE version' = version
    BY <2>3
  <2> QED
    BY <1>1, <2>1, <2>2, <2>3
       DEF ReadVersion, Open, Use, Acquire, GiveUp, Validate, FindIndex, CreateIndex, Construct,
           Write, Rebuild, UseFails, Close, Crash, file
<1>2. IInv /\ [Next]_vars => [Forward]_version
  BY <1>1 DEF Next, vars, file
<1> QED
  BY <1>2, Invariant, PTL DEF Spec, VersionMovesForward
=============================================================================
