------------------------- MODULE MemoryStoreProofs -------------------------
(***************************************************************************)
(* Theorems about MemoryStore, for any number of processes, memories,      *)
(* drafts and migrated rows.                                               *)
(***************************************************************************)
EXTENDS MemoryStore, TLAPS, WellFoundedInduction

----------------------------------------------------------------------------
(* Tables *)

(* Inserting a row adds its key and changes no other row. *)
LEMMA InsertFacts ==
    ASSUME NEW table, NEW key, NEW row
    PROVE  /\ DOMAIN Insert(table, key, row) = DOMAIN table \cup {key}
           /\ Insert(table, key, row)[key] = row
           /\ \A k \in DOMAIN table \ {key} : Insert(table, key, row)[k] = table[k]
  BY DEF Insert

(* Inserting a row of the right shape under a key of the right set keeps   *)
(* the table one. *)
LEMMA InsertIsTable ==
    ASSUME NEW Keys, NEW Rows, NEW table, IsTable(table, Keys, Rows),
           NEW key \in Keys, NEW row \in Rows
    PROVE  IsTable(Insert(table, key, row), Keys, Rows)
  BY DEF IsTable, Insert

(* A new key inserted leaves the table a restriction of the result. *)
LEMMA InsertRestricts ==
    ASSUME NEW table, NEW key, key \notin DOMAIN table, NEW row
    PROVE  IsRestriction(table, Insert(table, key, row))
  BY DEF IsRestriction, Insert

----------------------------------------------------------------------------
(* What add() records: its three early exits were not taken. *)
LEMMA OutcomeRecorded ==
    ASSUME NEW fact
    PROVE  Outcome(fact) = Recorded <=>
             /\ Admissible(memories, evidence, fact)
             /\ CurrentEquivalents(memories, fact) = {}
             /\ ~(fact.supersedes # NoMemory /\ HasSuperseder(memories, fact.supersedes))
<1>1. Rejected # Recorded /\ AlreadySuperseded # Recorded
  BY DEF Rejected, AlreadySuperseded, Recorded
<1>2. \A id : Existing(id) # Recorded
  <2>1. \A id : Existing(id).answer = "existing"
    BY DEF Existing
  <2>2. Recorded.answer = "recorded"
    BY DEF Recorded
  <2> QED
    BY <2>1, <2>2
<1> QED
  BY <1>1, <1>2 DEF Outcome

----------------------------------------------------------------------------
(* Type correctness *)

(* A draft with the memory it supersedes is a fact. *)
LEMMA FactType ==
    ASSUME NEW draft \in Drafts, NEW s \in MemoryIds \cup {NoMemory}
    PROVE  Fact(draft, s) \in Facts
<1>1. draft \in DraftRows
  BY DraftAssumption
<1> QED
  BY <1>1 DEF Fact, DraftRows, Facts

LEMMA EventType ==
    /\ \A id \in MemoryIds : Event("memory_recorded", id) \in Events
    /\ \A id \in MemoryIds : Event("memory_superseded", id) \in Events
    /\ \A id \in AttemptIds : Event("attempt_recorded", id) \in Events
    /\ \A id \in SkillIds : Event("skill_promoted", id) \in Events
  BY DEF Event, Events, EventsOn

LEMMA SkillType ==
    ASSUME IsTable(memories, MemoryIds, MemoryRows), NEW lesson, IsLesson(memories, lesson)
    PROVE  SkillFrom(memories, lesson) \in SkillRows
<1>1. lesson \in MemoryIds /\ memories[lesson] \in MemoryRows
  BY DEF IsTable, IsLesson
<1>2. memories[lesson].fact.evidence_ids \in EvidenceLists
  BY <1>1 DEF MemoryRows, Facts
<1> QED
  BY <1>1, <1>2 DEF SkillFrom, SkillRows

LEMMA SessionTypes ==
    ASSUME TypeOK, NEW p \in Processes
    PROVE  /\ session[p] \in Sessions
           /\ session[p].step \in {"deciding", "inserting"} =>
                session[p] \in [step : {"deciding", "inserting"}, id : MemoryIds, row : MemoryRows]
           /\ session[p].step = "attempt" =>
                session[p] \in [step : {"attempt"}, id : AttemptIds, evidence_ids : EvidenceLists]
           /\ session[p].step = "skill" =>
                session[p] \in [step : {"skill"}, id : SkillIds, skill : SkillRows]
           /\ session[p].step = "conflict" =>
                session[p] \in [step : {"conflict"}, pair : Pairs, recorded_at : Times]
  BY DEF TypeOK, Sessions, Idle

(* The initial tables are well formed. *)
LEMMA InitType == Init => TypeOK
  BY LegacyAssumption, IdsAssumption DEF Init, TypeOK, IsTable, Sessions

(* Handing a session a state of the right shape keeps all sessions so. *)
LEMMA GotoType ==
    ASSUME TypeOK, NEW p \in Processes, NEW state \in Sessions, Goto(p, state)
    PROVE  session' \in [Processes -> Sessions]
  BY DEF TypeOK, Goto

LEMMA IdleType == Idle \in Sessions
  BY DEF Sessions

LEMMA RecordingEventsType ==
    ASSUME NEW id \in MemoryIds, NEW fact \in Facts
    PROVE  RecordingEvents(id, fact) \in Seq(Events)
  BY EventType DEF RecordingEvents, Facts

LEMMA StepType ==
    ASSUME TypeOK, NEW p \in Processes, Step(p)
    PROVE  TypeOK'
<1> USE IdleType
<1>1. CASE BeginAdd(p)
  <2>1. PICK id \in MemoryIds, draft \in Drafts, s \in MemoryIds \cup {NoMemory}, t \in Times :
          Goto(p, [step |-> "deciding", id |-> id,
                   row |-> [fact |-> Fact(draft, s), recorded_at |-> t]])
    BY <1>1 DEF BeginAdd
  <2>2. [fact |-> Fact(draft, s), recorded_at |-> t] \in MemoryRows
    BY FactType DEF MemoryRows
  <2>3. [step |-> "deciding", id |-> id, row |-> [fact |-> Fact(draft, s), recorded_at |-> t]]
          \in Sessions
    BY <2>2 DEF Sessions
  <2>4. session' \in [Processes -> Sessions]
    BY <2>1, <2>3, GotoType
  <2> QED
    BY <1>1, <2>4 DEF BeginAdd, TypeOK, tables
<1>2. CASE DecideAdd(p)
  <2>1. [session[p] EXCEPT !.step = "inserting"] \in Sessions
    BY <1>2, SessionTypes DEF DecideAdd, Sessions
  <2>2. session' \in [Processes -> Sessions]
    BY <1>2, <2>1, GotoType DEF DecideAdd, Release
  <2> QED
    BY <1>2, <2>2 DEF DecideAdd, Release, TypeOK, tables
<1>3. CASE InsertMemory(p)
  <2>1. session[p].id \in MemoryIds /\ session[p].row \in MemoryRows
    BY <1>3, SessionTypes DEF InsertMemory
  <2>2. IsTable(memories', MemoryIds, MemoryRows)
    BY <1>3, <2>1, InsertIsTable DEF InsertMemory, TypeOK
  <2>3. RecordingEvents(session[p].id, session[p].row.fact) \in Seq(Events)
    BY <2>1, RecordingEventsType DEF MemoryRows
  <2>4. log' \in Seq(Events)
    BY <1>3, <2>3 DEF InsertMemory, TypeOK
  <2>5. session' \in [Processes -> Sessions] /\ lock' \in Processes \cup {NoProcess}
    BY <1>3, GotoType DEF InsertMemory, Release
  <2> QED
    BY <1>3, <2>2, <2>4, <2>5 DEF InsertMemory, TypeOK
<1>4. CASE AddEvidence(p)
  <2>1. IsTable(evidence', EvidenceIds, EvidenceKinds)
    BY <1>4, InsertIsTable DEF AddEvidence, TypeOK
  <2> QED
    BY <1>4, <2>1 DEF AddEvidence, TypeOK
<1>5. CASE CheckAttempt(p)
  <2>1. PICK id \in AttemptIds, evidence_ids \in EvidenceLists :
          Goto(p, [step |-> "attempt", id |-> id, evidence_ids |-> evidence_ids])
    BY <1>5 DEF CheckAttempt
  <2>2. [step |-> "attempt", id |-> id, evidence_ids |-> evidence_ids] \in Sessions
    BY DEF Sessions
  <2>3. session' \in [Processes -> Sessions]
    BY <2>1, <2>2, GotoType
  <2> QED
    BY <1>5, <2>3 DEF CheckAttempt, TypeOK, tables
<1>6. CASE InsertAttempt(p)
  <2>1. session[p].id \in AttemptIds /\ session[p].evidence_ids \in EvidenceLists
    BY <1>6, SessionTypes DEF InsertAttempt
  <2>2. IsTable(attempts', AttemptIds, EvidenceLists)
    BY <1>6, <2>1, InsertIsTable DEF InsertAttempt, TypeOK
  <2>3. log' \in Seq(Events)
    BY <1>6, <2>1, EventType DEF InsertAttempt, TypeOK
  <2>4. session' \in [Processes -> Sessions]
    BY <1>6, GotoType DEF InsertAttempt
  <2> QED
    BY <1>6, <2>2, <2>3, <2>4 DEF InsertAttempt, TypeOK
<1>7. CASE DeriveSkill(p)
  <2>1. PICK id \in SkillIds, lesson \in MemoryIds :
          /\ IsLesson(memories, lesson)
          /\ Goto(p, [step |-> "skill", id |-> id, skill |-> SkillFrom(memories, lesson)])
    BY <1>7 DEF DeriveSkill
  <2>2. SkillFrom(memories, lesson) \in SkillRows
    BY <2>1, SkillType DEF TypeOK
  <2>3. [step |-> "skill", id |-> id, skill |-> SkillFrom(memories, lesson)] \in Sessions
    BY <2>2 DEF Sessions
  <2>4. session' \in [Processes -> Sessions]
    BY <2>1, <2>3, GotoType
  <2> QED
    BY <1>7, <2>4 DEF DeriveSkill, TypeOK, tables
<1>8. CASE InsertSkill(p)
  <2>1. session[p].id \in SkillIds /\ session[p].skill \in SkillRows
    BY <1>8, SessionTypes DEF InsertSkill
  <2>2. IsTable(skills', SkillIds, SkillRows)
    BY <1>8, <2>1, InsertIsTable DEF InsertSkill, TypeOK
  <2>3. log' \in Seq(Events)
    BY <1>8, <2>1, EventType DEF InsertSkill, TypeOK
  <2>4. session' \in [Processes -> Sessions]
    BY <1>8, GotoType DEF InsertSkill
  <2> QED
    BY <1>8, <2>2, <2>3, <2>4 DEF InsertSkill, TypeOK
<1>9. CASE CheckConflict(p)
  <2>1. PICK a \in MemoryIds, b \in MemoryIds, t \in Times :
          /\ a # b
          /\ Goto(p, [step |-> "conflict", pair |-> CanonicalPair(a, b), recorded_at |-> t])
    BY <1>9 DEF CheckConflict
  <2>2. CanonicalPair(a, b) \in Pairs
    BY <2>1, IdsAssumption DEF CanonicalPair, Pairs
  <2>3. [step |-> "conflict", pair |-> CanonicalPair(a, b), recorded_at |-> t] \in Sessions
    BY <2>2 DEF Sessions
  <2>4. session' \in [Processes -> Sessions]
    BY <2>1, <2>3, GotoType
  <2> QED
    BY <1>9, <2>4 DEF CheckConflict, TypeOK, tables
<1>10. CASE InsertConflict(p)
  <2>1. session[p].pair \in Pairs /\ session[p].recorded_at \in Times
    BY <1>10, SessionTypes DEF InsertConflict
  <2>2. IsTable(conflicts', Pairs, Times)
    BY <1>10, <2>1, InsertIsTable DEF InsertConflict, TypeOK
  <2>3. session' \in [Processes -> Sessions]
    BY <1>10, GotoType DEF InsertConflict
  <2> QED
    BY <1>10, <2>2, <2>3 DEF InsertConflict, TypeOK
<1>11. CASE Abandon(p)
  <2>1. session' \in [Processes -> Sessions]
    BY <1>11, GotoType DEF Abandon
  <2> QED
    BY <1>11, <2>1 DEF Abandon, TypeOK, tables
<1> QED
  BY <1>1, <1>2, <1>3, <1>4, <1>5, <1>6, <1>7, <1>8, <1>9, <1>10, <1>11 DEF Step

(* Type correctness of the store. *)
THEOREM TypeCorrect == Spec => []TypeOK
<1>1. TypeOK /\ [Next]_vars => TypeOK'
  <2>1. ASSUME TypeOK, Next PROVE TypeOK'
    BY <2>1, StepType DEF Next
  <2>2. ASSUME TypeOK, UNCHANGED vars PROVE TypeOK'
    BY <2>2 DEF vars, TypeOK
  <2> QED
    BY <2>1, <2>2
<1> QED
  BY InitType, <1>1, PTL DEF Spec

----------------------------------------------------------------------------
(* The inductive invariant.  Two sessions about to write the same table    *)
(* must not carry the same identifier, or the first write would take the   *)
(* second one's; the rest is the properties the runs check.                *)

DistinctIds ==
    \A p, q \in Processes :
        p # q => \A step \in {"attempt", "skill"} :
            ~(session[p].step = step /\ session[q].step = step /\ session[p].id = session[q].id)

IInv ==
    /\ TypeOK
    /\ DistinctIds
    /\ ChecksStillHold
    /\ NoCurrentDuplicates
    /\ SupersededOnce
    /\ VerifiedIsSupported
    /\ SkillsMirrorLessons
    /\ LinksResolve

LEMMA InitInvariant == Init => IInv
<1> SUFFICES ASSUME Init PROVE IInv
  OBVIOUS
<1>1. \A p \in Processes : session[p].step = "idle" /\ lock # p
  BY ProcessAssumption DEF Init, Idle
<1>2. DistinctIds /\ ChecksStillHold
  BY <1>1 DEF DistinctIds, ChecksStillHold, HoldsLockIfAdding, AddStillDecided,
              AttemptStillLinked, SkillStillDerived, ConflictStillBetweenMemories
<1>3. NoCurrentDuplicates
  BY DEF Init, NoCurrentDuplicates, CurrentIds
<1>4. SupersededOnce /\ VerifiedIsSupported
  BY LegacyAssumption DEF Init, SupersededOnce, VerifiedIsSupported
<1>5. SkillsMirrorLessons
  BY DEF Init, SkillsMirrorLessons
<1>6. LinksResolve
  BY LegacyAssumption DEF Init, LinksResolve
<1> QED
  BY InitType, <1>2, <1>3, <1>4, <1>5, <1>6 DEF IInv

(* Each table has one writer. *)
LEMMA OneWriterPerTable ==
    ASSUME NEW p \in Processes, Step(p)
    PROVE  /\ InsertMemory(p) \/ memories' = memories
           /\ AddEvidence(p) \/ evidence' = evidence
           /\ InsertAttempt(p) \/ attempts' = attempts
           /\ InsertSkill(p) \/ skills' = skills
           /\ InsertConflict(p) \/ conflicts' = conflicts
  BY DEF Step, tables, BeginAdd, DecideAdd, InsertMemory, AddEvidence, CheckAttempt,
         InsertAttempt, DeriveSkill, InsertSkill, CheckConflict, InsertConflict, Abandon

(* Every table only grows. *)
LEMMA StepGrows ==
    ASSUME IInv, NEW p \in Processes, Step(p)
    PROVE  /\ IsRestriction(memories, memories')
           /\ IsRestriction(evidence, evidence')
           /\ IsRestriction(attempts, attempts')
           /\ IsRestriction(skills, skills')
           /\ IsRestriction(conflicts, conflicts')
<1> USE DEF IInv
<1>1. \A table : IsRestriction(table, table)
  BY DEF IsRestriction
<1>2. ASSUME InsertMemory(p) PROVE IsRestriction(memories, memories')
  BY <1>2, InsertRestricts DEF InsertMemory, ChecksStillHold, AddStillDecided
<1>3. ASSUME AddEvidence(p) PROVE IsRestriction(evidence, evidence')
  BY <1>3, InsertRestricts DEF AddEvidence
<1>4. ASSUME InsertAttempt(p) PROVE IsRestriction(attempts, attempts')
  BY <1>4, InsertRestricts DEF InsertAttempt, ChecksStillHold, AttemptStillLinked
<1>5. ASSUME InsertSkill(p) PROVE IsRestriction(skills, skills')
  BY <1>5, InsertRestricts DEF InsertSkill, ChecksStillHold, SkillStillDerived
<1>6. ASSUME InsertConflict(p) PROVE IsRestriction(conflicts, conflicts')
  BY <1>6, <1>1, InsertRestricts DEF InsertConflict
<1> QED
  BY <1>1, <1>2, <1>3, <1>4, <1>5, <1>6, OneWriterPerTable

(* What was asked of a table and answered yes stays so as tables grow.     *)
LEMMA GrowthKeeps ==
    ASSUME IsRestriction(memories, memories'), IsRestriction(evidence, evidence')
    PROVE  /\ \A id : IsLesson(memories, id) =>
                /\ IsLesson(memories', id)
                /\ SkillFrom(memories', id) = SkillFrom(memories, id)
           /\ \A fact : Range(fact.evidence_ids) \subseteq DOMAIN evidence
                        /\ Supported(evidence, fact) => Supported(evidence', fact)
           /\ \A id \in DOMAIN memories : id \in DOMAIN memories' /\ memories'[id] = memories[id]
           /\ DOMAIN evidence \subseteq DOMAIN evidence'
<1>1. /\ \A id \in DOMAIN memories : id \in DOMAIN memories' /\ memories'[id] = memories[id]
      /\ \A e \in DOMAIN evidence : e \in DOMAIN evidence' /\ evidence'[e] = evidence[e]
  BY DEF IsRestriction
<1>2. ASSUME NEW fact, Range(fact.evidence_ids) \subseteq DOMAIN evidence, Supported(evidence, fact)
      PROVE  Supported(evidence', fact)
  BY <1>1, <1>2 DEF Supported
<1> QED
  BY <1>1, <1>2 DEF IsLesson, SkillFrom

(* A current memory is one that no row supersedes. *)
LEMMA CurrentFacts ==
    ASSUME NEW table, NEW m
    PROVE  m \in CurrentIds(table) <=>
              m \in DOMAIN table /\ \A n \in DOMAIN table : table[n].fact.supersedes # m
  BY DEF CurrentIds

(* What InsertMemory writes, and what it knows about it. *)
LEMMA InsertMemoryFacts ==
    ASSUME IInv, NEW p \in Processes, InsertMemory(p)
    PROVE  LET id == session[p].id
               row == session[p].row
           IN  /\ id \notin DOMAIN memories
               /\ DOMAIN memories' = DOMAIN memories \cup {id}
               /\ memories'[id] = row
               /\ \A m \in DOMAIN memories : memories'[m] = memories[m]
               /\ Admissible(memories, evidence, row.fact)
               /\ CurrentEquivalents(memories, row.fact) = {}
               /\ row.fact.supersedes # NoMemory => ~HasSuperseder(memories, row.fact.supersedes)
               /\ evidence' = evidence
<1>1. session[p].id \notin DOMAIN memories /\ Outcome(session[p].row.fact) = Recorded
  BY DEF InsertMemory, IInv, ChecksStillHold, AddStillDecided
<1>2. /\ DOMAIN memories' = DOMAIN memories \cup {session[p].id}
      /\ memories'[session[p].id] = session[p].row
      /\ \A m \in DOMAIN memories : memories'[m] = memories[m]
  BY <1>1 DEF InsertMemory, Insert
<1> QED
  BY <1>1, <1>2, OutcomeRecorded DEF InsertMemory

(* The duplicate check under the lock keeps current memories distinct: an  *)
(* old memory current after the insertion was current, and different in    *)
(* meaning, when the insertion was decided.                                *)
LEMMA StepNoDuplicates ==
    ASSUME IInv, NEW p \in Processes, Step(p)
    PROVE  NoCurrentDuplicates'
<1>1. CASE memories' = memories
  BY <1>1 DEF IInv, NoCurrentDuplicates
<1>2. CASE InsertMemory(p)
  <2> DEFINE id == session[p].id
             row == session[p].row
  <2>1. \A m \in CurrentIds(memories') : m # id => m \in CurrentIds(memories)
    <3>1. /\ DOMAIN memories' = DOMAIN memories \cup {id}
          /\ \A m \in DOMAIN memories : memories'[m] = memories[m]
      BY <1>2, InsertMemoryFacts
    <3> QED
      BY <3>1, CurrentFacts
  <2>2. \A m \in CurrentIds(memories) : ~SameMeaning(memories[m].fact, row.fact)
    <3>1. CurrentEquivalents(memories, row.fact) = {}
      BY <1>2, InsertMemoryFacts
    <3>2. \A m \in CurrentIds(memories) : m \in DOMAIN memories /\ ~HasSuperseder(memories, m)
      BY CurrentFacts DEF HasSuperseder
    <3> QED
      BY <3>1, <3>2 DEF CurrentEquivalents
  <2>3. ASSUME NEW m \in CurrentIds(memories'), NEW n \in CurrentIds(memories'),
               SameMeaning(memories'[m].fact, memories'[n].fact), m # n
        PROVE  {m, n} \subseteq DOMAIN LegacyRows
    <3>1. CASE m = id
      <4>1. n \in CurrentIds(memories) /\ memories'[n] = memories[n] /\ memories'[m] = row
        BY <1>2, <2>1, <2>3, <3>1, InsertMemoryFacts, CurrentFacts
      <4> QED
        BY <2>2, <2>3, <4>1 DEF SameMeaning
    <3>2. CASE n = id
      <4>1. m \in CurrentIds(memories) /\ memories'[m] = memories[m] /\ memories'[n] = row
        BY <1>2, <2>1, <2>3, <3>2, InsertMemoryFacts, CurrentFacts
      <4> QED
        BY <2>2, <2>3, <4>1
    <3>3. CASE m # id /\ n # id
      <4>1. /\ m \in CurrentIds(memories) /\ memories'[m] = memories[m]
            /\ n \in CurrentIds(memories) /\ memories'[n] = memories[n]
        BY <1>2, <2>1, <3>3, InsertMemoryFacts, CurrentFacts
      <4> QED
        BY <2>3, <4>1 DEF IInv, NoCurrentDuplicates
    <3> QED
      BY <3>1, <3>2, <3>3
  <2> QED
    BY <2>3 DEF NoCurrentDuplicates
<1> QED
  BY <1>1, <1>2, OneWriterPerTable

LEMMA StepNeverForks ==
    ASSUME IInv, NEW p \in Processes, Step(p)
    PROVE  SupersededOnce'
<1>1. CASE memories' = memories
  BY <1>1 DEF IInv, SupersededOnce, NeverForks
<1>2. CASE InsertMemory(p)
  <2> DEFINE id == session[p].id
             row == session[p].row
  <2> SUFFICES ASSUME NEW m \in DOMAIN memories', NEW n \in DOMAIN memories',
                      memories'[m].fact.supersedes = memories'[n].fact.supersedes,
                      memories'[m].fact.supersedes # NoMemory
               PROVE  m = n
    BY DEF SupersededOnce, NeverForks
  <2>1. \A k \in DOMAIN memories :
          row.fact.supersedes # NoMemory => memories[k].fact.supersedes # row.fact.supersedes
    BY <1>2, InsertMemoryFacts DEF HasSuperseder
  <2>2. CASE m = id /\ n = id
    BY <2>2
  <2>3. CASE m = id /\ n # id
    BY <1>2, <2>1, <2>3, InsertMemoryFacts
  <2>4. CASE m # id /\ n = id
    BY <1>2, <2>1, <2>4, InsertMemoryFacts
  <2>5. CASE m # id /\ n # id
    <3>1. /\ m \in DOMAIN memories /\ memories'[m] = memories[m]
          /\ n \in DOMAIN memories /\ memories'[n] = memories[n]
      BY <1>2, <2>5, InsertMemoryFacts
    <3> QED
      BY <3>1 DEF IInv, SupersededOnce, NeverForks
  <2> QED
    BY <2>2, <2>3, <2>4, <2>5
<1> QED
  BY <1>1, <1>2, OneWriterPerTable

LEMMA StepVerified ==
    ASSUME IInv, NEW p \in Processes, Step(p)
    PROVE  VerifiedIsSupported'
<1>1. ASSUME NEW m \in DOMAIN memories \ DOMAIN LegacyRows
      PROVE  Supported(evidence', memories[m].fact)
  BY StepGrows, GrowthKeeps DEF IInv, VerifiedIsSupported, LinksResolve
<1>2. CASE memories' = memories
  BY <1>1, <1>2 DEF VerifiedIsSupported
<1>3. CASE InsertMemory(p)
  BY <1>1, <1>3, InsertMemoryFacts DEF Admissible, VerifiedIsSupported
<1> QED
  BY <1>2, <1>3, OneWriterPerTable

LEMMA StepSkills ==
    ASSUME IInv, NEW p \in Processes, Step(p)
    PROVE  SkillsMirrorLessons'
<1>1. /\ \A id : IsLesson(memories, id) =>
           /\ IsLesson(memories', id)
           /\ SkillFrom(memories', id) = SkillFrom(memories, id)
  BY StepGrows, GrowthKeeps
<1>2. CASE skills' = skills
  BY <1>1, <1>2 DEF IInv, SkillsMirrorLessons
<1>3. CASE InsertSkill(p)
  <2>1. /\ IsLesson(memories, session[p].skill.source_lesson_id)
        /\ session[p].skill = SkillFrom(memories, session[p].skill.source_lesson_id)
    BY <1>3 DEF IInv, ChecksStillHold, SkillStillDerived, InsertSkill
  <2>2. /\ DOMAIN skills' = DOMAIN skills \cup {session[p].id}
        /\ \A k \in DOMAIN skills' :
             skills'[k] = session[p].skill \/ (k \in DOMAIN skills /\ skills'[k] = skills[k])
    BY <1>3 DEF InsertSkill, Insert
  <2> QED
    BY <1>1, <2>1, <2>2 DEF IInv, SkillsMirrorLessons
<1> QED
  BY <1>2, <1>3, OneWriterPerTable

LEMMA StepLinks ==
    ASSUME IInv, NEW p \in Processes, Step(p)
    PROVE  LinksResolve'
<1>1. /\ \A id \in DOMAIN memories : id \in DOMAIN memories' /\ memories'[id] = memories[id]
      /\ DOMAIN evidence \subseteq DOMAIN evidence'
  BY StepGrows, GrowthKeeps
<1>2. ASSUME NEW m \in DOMAIN memories'
      PROVE  Range(memories'[m].fact.evidence_ids) \subseteq DOMAIN evidence'
  <2>1. CASE m \in DOMAIN memories
    BY <1>1, <2>1 DEF IInv, LinksResolve
  <2>2. CASE m \notin DOMAIN memories
    <3>1. InsertMemory(p)
      BY <2>2, OneWriterPerTable
    <3>2. memories'[m] = session[p].row /\ Admissible(memories, evidence, session[p].row.fact)
      BY <2>2, <3>1, InsertMemoryFacts
    <3> QED
      BY <1>1, <3>2 DEF Admissible
  <2> QED
    BY <2>1, <2>2
<1>3. ASSUME NEW pair \in DOMAIN conflicts'
      PROVE  {pair[1], pair[2]} \subseteq DOMAIN memories'
  <2>1. pair \in DOMAIN conflicts \/ (InsertConflict(p) /\ pair = session[p].pair)
    BY OneWriterPerTable DEF InsertConflict, Insert
  <2>2. {pair[1], pair[2]} \subseteq DOMAIN memories
    BY <2>1 DEF IInv, LinksResolve, ChecksStillHold, ConflictStillBetweenMemories, InsertConflict
  <2> QED
    BY <1>1, <2>2
<1>4. ASSUME NEW a \in DOMAIN attempts'
      PROVE  Range(attempts'[a]) \subseteq DOMAIN evidence'
  <2>1. \/ a \in DOMAIN attempts /\ attempts'[a] = attempts[a]
        \/ InsertAttempt(p) /\ attempts'[a] = session[p].evidence_ids
    BY OneWriterPerTable DEF InsertAttempt, Insert
  <2>2. Range(attempts'[a]) \subseteq DOMAIN evidence
    BY <2>1 DEF IInv, LinksResolve, ChecksStillHold, AttemptStillLinked, InsertAttempt
  <2> QED
    BY <1>1, <2>2
<1>5. ASSUME NEW k \in DOMAIN skills'
      PROVE  Range(skills'[k].evidence_ids) \subseteq DOMAIN evidence'
  <2>1. /\ IsLesson(memories', skills'[k].source_lesson_id)
        /\ skills'[k] = SkillFrom(memories', skills'[k].source_lesson_id)
    BY StepSkills DEF SkillsMirrorLessons
  <2>2. /\ skills'[k].source_lesson_id \in DOMAIN memories'
        /\ skills'[k].evidence_ids = memories'[skills'[k].source_lesson_id].fact.evidence_ids
    BY <2>1 DEF IsLesson, SkillFrom
  <2> QED
    BY <1>2, <2>2
<1> QED
  BY <1>2, <1>3, <1>4, <1>5 DEF LinksResolve

(* A step of p leaves every other session as it was. *)
LEMMA OthersKeepTheirSession ==
    ASSUME TypeOK, NEW p \in Processes, Step(p), NEW q \in Processes, q # p
    PROVE  session'[q] = session[q]
  BY DEF Step, BeginAdd, DecideAdd, InsertMemory, AddEvidence, CheckAttempt, InsertAttempt,
         DeriveSkill, InsertSkill, CheckConflict, InsertConflict, Abandon, Release, Goto, TypeOK

(* The lock follows the add() calls in progress. *)
LEMMA StepLock ==
    ASSUME IInv, NEW p \in Processes, Step(p), NEW q \in Processes
    PROVE  HoldsLockIfAdding(q)'
<1> USE ProcessAssumption DEF IInv, TypeOK, ChecksStillHold, HoldsLockIfAdding, Goto, Release, IsIdle, Idle
<1>1. CASE BeginAdd(p)
  <2>1. PICK state : state.step = "deciding" /\ session' = [session EXCEPT ![p] = state]
    BY <1>1 DEF BeginAdd
  <2>2. session'[p].step = "deciding" /\ lock' = p /\ lock = NoProcess
    BY <1>1, <2>1 DEF BeginAdd
  <2> QED
    BY <2>1, <2>2
<1>2. CASE DecideAdd(p)
  <2>1. lock = p
    BY <1>2 DEF DecideAdd
  <2>2. CASE session' = [session EXCEPT ![p] = [session[p] EXCEPT !.step = "inserting"]] /\ lock' = lock
    <3>1. session[p] \in [step : {"deciding", "inserting"}, id : MemoryIds, row : MemoryRows]
      BY <1>2, SessionTypes DEF DecideAdd
    <3>2. session'[p].step = "inserting"
      BY <2>2, <3>1
    <3> QED
      BY <2>1, <2>2, <3>2
  <2>3. CASE session' = [session EXCEPT ![p] = Idle] /\ lock' = NoProcess
    BY <2>1, <2>3
  <2> QED
    BY <1>2, <2>2, <2>3 DEF DecideAdd
<1>3. CASE InsertMemory(p)
  BY <1>3 DEF InsertMemory
<1>4. CASE AddEvidence(p)
  BY <1>4 DEF AddEvidence
<1>5. CASE CheckAttempt(p) \/ InsertAttempt(p)
  BY <1>5 DEF CheckAttempt, InsertAttempt
<1>6. CASE DeriveSkill(p) \/ InsertSkill(p)
  BY <1>6 DEF DeriveSkill, InsertSkill
<1>7. CASE CheckConflict(p) \/ InsertConflict(p)
  BY <1>7 DEF CheckConflict, InsertConflict
<1>8. CASE Abandon(p)
  BY <1>8 DEF Abandon
<1> QED
  BY <1>1, <1>2, <1>3, <1>4, <1>5, <1>6, <1>7, <1>8 DEF Step

(* What a session holds after a step is what it held, or what its own step *)
(* has just checked.                                                       *)

LEMMA StepAdd ==
    ASSUME IInv, NEW p \in Processes, Step(p), NEW q \in Processes
    PROVE  AddStillDecided(q)'
<1>1. CASE q # p
  <2>1. session'[q] = session[q]
    BY <1>1, OthersKeepTheirSession DEF IInv
  <2>2. CASE session[q].step \in {"deciding", "inserting"}
    <3>1. lock = q
      BY <2>2 DEF IInv, ChecksStillHold, HoldsLockIfAdding
    <3>2. ~InsertMemory(p) /\ ~AddEvidence(p)
      BY <1>1, <3>1, ProcessAssumption DEF IInv, ChecksStillHold, HoldsLockIfAdding, InsertMemory, AddEvidence
    <3>3. memories' = memories /\ evidence' = evidence
      BY <3>2, OneWriterPerTable
    <3>4. AddStillDecided(q)
      BY DEF IInv, ChecksStillHold
    <3> QED
      BY <2>1, <3>3, <3>4 DEF AddStillDecided, Outcome, Oldest
  <2> QED
    BY <2>1, <2>2 DEF AddStillDecided
<1>2. CASE q = p
  <2>1. CASE BeginAdd(p)
    <3>1. PICK id, row : id \notin DOMAIN memories /\ Goto(p, [step |-> "deciding", id |-> id, row |-> row])
      BY <2>1 DEF BeginAdd, Fresh
    <3>2. session'[p] = [step |-> "deciding", id |-> id, row |-> row]
      BY <3>1 DEF Goto, IInv, TypeOK
    <3> QED
      BY <1>2, <2>1, <3>1, <3>2 DEF BeginAdd, AddStillDecided, tables
  <2>2. CASE DecideAdd(p)
    <3>1. session[p] \in [step : {"deciding", "inserting"}, id : MemoryIds, row : MemoryRows]
      BY <2>2, SessionTypes DEF DecideAdd, IInv
    <3>2. session[p].id \notin DOMAIN memories
      BY <2>2 DEF DecideAdd, IInv, ChecksStillHold, AddStillDecided
    <3>3. memories' = memories /\ evidence' = evidence
      BY <2>2 DEF DecideAdd, tables
    <3>4. CASE Outcome(session[p].row.fact) = Recorded
      <4>1. session'[p] = [session[p] EXCEPT !.step = "inserting"]
        BY <2>2, <3>4 DEF DecideAdd, Goto, IInv, TypeOK
      <4>2. session'[p].id = session[p].id /\ session'[p].row = session[p].row
        BY <3>1, <4>1
      <4> QED
        BY <1>2, <3>2, <3>3, <3>4, <4>2 DEF AddStillDecided, Outcome, Oldest
    <3>5. CASE Outcome(session[p].row.fact) # Recorded
      <4>1. session'[p] = Idle
        BY <2>2, <3>5 DEF DecideAdd, Release, Goto, IInv, TypeOK
      <4> QED
        BY <1>2, <4>1 DEF AddStillDecided, Idle
    <3> QED
      BY <3>4, <3>5
  <2>3. CASE ~BeginAdd(p) /\ ~DecideAdd(p)
    <3>1. session'[p].step \notin {"deciding", "inserting"}
      BY <2>3 DEF Step, InsertMemory, AddEvidence, CheckAttempt, InsertAttempt, DeriveSkill, InsertSkill,
                  CheckConflict, InsertConflict, Abandon, Release, Goto, IsIdle, Idle, IInv, TypeOK
    <3> QED
      BY <1>2, <3>1 DEF AddStillDecided
  <2> QED
    BY <2>1, <2>2, <2>3
<1> QED
  BY <1>1, <1>2

(* CheckAttempt and DeriveSkill take an identifier nobody carries. *)
LEMMA CheckAttemptFacts ==
    ASSUME TypeOK, NEW p \in Processes, CheckAttempt(p)
    PROVE  /\ session'[p].step = "attempt"
           /\ session'[p].id \notin DOMAIN attempts
           /\ Range(session'[p].evidence_ids) \subseteq DOMAIN evidence
           /\ \A q \in Processes : session[q].step = "attempt" => session[q].id # session'[p].id
<1>1. PICK id \in AttemptIds, evidence_ids \in EvidenceLists :
        /\ Fresh(id, attempts, {"attempt"})
        /\ Range(evidence_ids) \subseteq DOMAIN evidence
        /\ Goto(p, [step |-> "attempt", id |-> id, evidence_ids |-> evidence_ids])
  BY DEF CheckAttempt
<1>2. session'[p] = [step |-> "attempt", id |-> id, evidence_ids |-> evidence_ids]
  BY <1>1 DEF Goto, TypeOK
<1> QED
  BY <1>1, <1>2 DEF Fresh

LEMMA DeriveSkillFacts ==
    ASSUME TypeOK, NEW p \in Processes, DeriveSkill(p)
    PROVE  /\ session'[p].step = "skill"
           /\ session'[p].id \notin DOMAIN skills
           /\ IsLesson(memories, session'[p].skill.source_lesson_id)
           /\ session'[p].skill = SkillFrom(memories, session'[p].skill.source_lesson_id)
           /\ \A q \in Processes : session[q].step = "skill" => session[q].id # session'[p].id
<1>1. PICK id \in SkillIds, lesson \in MemoryIds :
        /\ Fresh(id, skills, {"skill"})
        /\ IsLesson(memories, lesson)
        /\ Goto(p, [step |-> "skill", id |-> id, skill |-> SkillFrom(memories, lesson)])
  BY DEF DeriveSkill
<1>2. session'[p] = [step |-> "skill", id |-> id, skill |-> SkillFrom(memories, lesson)]
  BY <1>1 DEF Goto, TypeOK
<1>3. SkillFrom(memories, lesson).source_lesson_id = lesson
  BY DEF SkillFrom
<1> QED
  BY <1>1, <1>2, <1>3 DEF Fresh

LEMMA CheckConflictFacts ==
    ASSUME TypeOK, NEW p \in Processes, CheckConflict(p)
    PROVE  /\ session'[p].step = "conflict"
           /\ {session'[p].pair[1], session'[p].pair[2]} \subseteq DOMAIN memories
<1>1. PICK a \in MemoryIds, b \in MemoryIds, t \in Times :
        /\ {a, b} \subseteq DOMAIN memories
        /\ Goto(p, [step |-> "conflict", pair |-> CanonicalPair(a, b), recorded_at |-> t])
  BY DEF CheckConflict
<1>2. session'[p] = [step |-> "conflict", pair |-> CanonicalPair(a, b), recorded_at |-> t]
  BY <1>1 DEF Goto, TypeOK
<1>3. {CanonicalPair(a, b)[1], CanonicalPair(a, b)[2]} = {a, b}
  BY DEF CanonicalPair
<1> QED
  BY <1>1, <1>2, <1>3

(* The steps after which a session carries something other than before.    *)
LEMMA SessionSteps ==
    ASSUME TypeOK, NEW p \in Processes, Step(p)
    PROVE  /\ session'[p].step = "attempt" => CheckAttempt(p) \/ session'[p] = session[p]
           /\ session'[p].step = "skill" => DeriveSkill(p) \/ session'[p] = session[p]
           /\ session'[p].step = "conflict" => CheckConflict(p) \/ session'[p] = session[p]
<1> USE DEF TypeOK, Goto, Release, IsIdle, Idle
<1>1. CASE BeginAdd(p)
  BY <1>1 DEF BeginAdd
<1>2. CASE DecideAdd(p)
  <2>1. session[p] \in [step : {"deciding", "inserting"}, id : MemoryIds, row : MemoryRows]
    BY <1>2, SessionTypes DEF DecideAdd
  <2> QED
    BY <1>2, <2>1 DEF DecideAdd
<1>3. CASE InsertMemory(p) \/ AddEvidence(p) \/ InsertAttempt(p) \/ InsertSkill(p) \/ InsertConflict(p)
  BY <1>3 DEF InsertMemory, AddEvidence, InsertAttempt, InsertSkill, InsertConflict
<1>4. CASE CheckAttempt(p)
  BY <1>4, CheckAttemptFacts
<1>5. CASE DeriveSkill(p)
  BY <1>5, DeriveSkillFacts
<1>6. CASE CheckConflict(p)
  BY <1>6, CheckConflictFacts
<1>7. CASE Abandon(p)
  BY <1>7 DEF Abandon
<1> QED
  BY <1>1, <1>2, <1>3, <1>4, <1>5, <1>6, <1>7 DEF Step

LEMMA StepDistinct ==
    ASSUME IInv, NEW p \in Processes, Step(p)
    PROVE  DistinctIds'
<1> SUFFICES ASSUME NEW q \in Processes, NEW r \in Processes, q # r,
                    NEW step \in {"attempt", "skill"},
                    session'[q].step = step, session'[r].step = step
             PROVE  session'[q].id # session'[r].id
  BY DEF DistinctIds
<1>1. \A o \in Processes : o # p => session'[o] = session[o]
  BY OthersKeepTheirSession DEF IInv
<1>2. CASE session'[p] = session[p]
  BY <1>1, <1>2 DEF IInv, DistinctIds
<1>3. CASE CheckAttempt(p)
  <2>1. /\ session'[p].step = "attempt"
        /\ \A o \in Processes : session[o].step = "attempt" => session[o].id # session'[p].id
    BY <1>3, CheckAttemptFacts DEF IInv
  <2> QED
    BY <1>1, <2>1 DEF IInv, DistinctIds
<1>4. CASE DeriveSkill(p)
  <2>1. /\ session'[p].step = "skill"
        /\ \A o \in Processes : session[o].step = "skill" => session[o].id # session'[p].id
    BY <1>4, DeriveSkillFacts DEF IInv
  <2> QED
    BY <1>1, <2>1 DEF IInv, DistinctIds
<1>5. CASE session'[p].step \notin {"attempt", "skill"}
  BY <1>1, <1>5 DEF IInv, DistinctIds
<1> QED
  BY <1>2, <1>3, <1>4, <1>5, SessionSteps DEF IInv

LEMMA StepAttempt ==
    ASSUME IInv, NEW p \in Processes, Step(p), NEW q \in Processes
    PROVE  AttemptStillLinked(q)'
<1> SUFFICES ASSUME session'[q].step = "attempt"
             PROVE  /\ session'[q].id \notin DOMAIN attempts'
                    /\ Range(session'[q].evidence_ids) \subseteq DOMAIN evidence'
  BY DEF AttemptStillLinked
<1>1. DOMAIN evidence \subseteq DOMAIN evidence'
  BY StepGrows, GrowthKeeps
<1>2. CASE session'[q] = session[q]
  <2>1. session[q].id \notin DOMAIN attempts /\ Range(session[q].evidence_ids) \subseteq DOMAIN evidence
    BY <1>2 DEF IInv, ChecksStillHold, AttemptStillLinked
  <2>2. CASE attempts' = attempts
    BY <1>1, <1>2, <2>1, <2>2
  <2>3. CASE InsertAttempt(p)
    <3>1. session[p].step = "attempt" /\ session'[p] = Idle
      BY <2>3 DEF InsertAttempt, Goto, IInv, TypeOK
    <3>2. q # p
      BY <3>1 DEF Idle
    <3>3. session[q].id # session[p].id
      BY <1>2, <3>1, <3>2 DEF IInv, DistinctIds
    <3> QED
      BY <1>1, <1>2, <2>1, <2>3, <3>3 DEF InsertAttempt, Insert
  <2> QED
    BY <2>2, <2>3, OneWriterPerTable
<1>3. CASE q = p /\ CheckAttempt(p)
  BY <1>3, CheckAttemptFacts DEF IInv, CheckAttempt, tables
<1> QED
  BY <1>2, <1>3, SessionSteps, OthersKeepTheirSession DEF IInv

LEMMA StepSkill ==
    ASSUME IInv, NEW p \in Processes, Step(p), NEW q \in Processes
    PROVE  SkillStillDerived(q)'
<1> SUFFICES ASSUME session'[q].step = "skill"
             PROVE  /\ session'[q].id \notin DOMAIN skills'
                    /\ IsLesson(memories', session'[q].skill.source_lesson_id)
                    /\ session'[q].skill = SkillFrom(memories', session'[q].skill.source_lesson_id)
  BY DEF SkillStillDerived
<1>1. \A id : IsLesson(memories, id) =>
          /\ IsLesson(memories', id)
          /\ SkillFrom(memories', id) = SkillFrom(memories, id)
  BY StepGrows, GrowthKeeps
<1>2. CASE session'[q] = session[q]
  <2>1. /\ session[q].id \notin DOMAIN skills
        /\ IsLesson(memories, session[q].skill.source_lesson_id)
        /\ session[q].skill = SkillFrom(memories, session[q].skill.source_lesson_id)
    BY <1>2 DEF IInv, ChecksStillHold, SkillStillDerived
  <2>2. CASE skills' = skills
    BY <1>1, <1>2, <2>1, <2>2
  <2>3. CASE InsertSkill(p)
    <3>1. session[p].step = "skill" /\ session'[p] = Idle
      BY <2>3 DEF InsertSkill, Goto, IInv, TypeOK
    <3>2. q # p
      BY <3>1 DEF Idle
    <3>3. session[q].id # session[p].id
      BY <1>2, <3>1, <3>2 DEF IInv, DistinctIds
    <3> QED
      BY <1>1, <1>2, <2>1, <2>3, <3>3 DEF InsertSkill, Insert
  <2> QED
    BY <2>2, <2>3, OneWriterPerTable
<1>3. CASE q = p /\ DeriveSkill(p)
  <2>1. skills' = skills
    BY <1>3 DEF DeriveSkill, tables
  <2> QED
    BY <1>1, <1>3, <2>1, DeriveSkillFacts DEF IInv
<1> QED
  BY <1>2, <1>3, SessionSteps, OthersKeepTheirSession DEF IInv

LEMMA StepConflict ==
    ASSUME IInv, NEW p \in Processes, Step(p), NEW q \in Processes
    PROVE  ConflictStillBetweenMemories(q)'
<1> SUFFICES ASSUME session'[q].step = "conflict"
             PROVE  {session'[q].pair[1], session'[q].pair[2]} \subseteq DOMAIN memories'
  BY DEF ConflictStillBetweenMemories
<1>1. DOMAIN memories \subseteq DOMAIN memories'
  BY StepGrows, GrowthKeeps
<1>2. CASE session'[q] = session[q]
  BY <1>1, <1>2 DEF IInv, ChecksStillHold, ConflictStillBetweenMemories
<1>3. CASE q = p /\ CheckConflict(p)
  BY <1>1, <1>3, CheckConflictFacts DEF IInv
<1> QED
  BY <1>2, <1>3, SessionSteps, OthersKeepTheirSession DEF IInv

----------------------------------------------------------------------------
(* IInv is inductive: each conjunct is kept by each step. *)
LEMMA StepInvariant ==
    ASSUME IInv, [Next]_vars
    PROVE  IInv'
<1>1. CASE UNCHANGED vars
  <2>1. memories' = memories /\ evidence' = evidence /\ attempts' = attempts /\ skills' = skills
        /\ conflicts' = conflicts /\ log' = log /\ lock' = lock /\ session' = session
    BY <1>1 DEF vars
  <2>2. (TypeOK /\ DistinctIds)'
    BY <2>1 DEF IInv, TypeOK, DistinctIds
  <2>3. ChecksStillHold'
    <3> SUFFICES ASSUME NEW p \in Processes
                 PROVE  /\ HoldsLockIfAdding(p)' /\ AddStillDecided(p)' /\ AttemptStillLinked(p)'
                        /\ SkillStillDerived(p)' /\ ConflictStillBetweenMemories(p)'
      BY DEF ChecksStillHold
    <3> USE <2>1 DEF IInv, ChecksStillHold
    <3>1. HoldsLockIfAdding(p)' /\ AttemptStillLinked(p)'
      BY DEF HoldsLockIfAdding, AttemptStillLinked
    <3>2. SkillStillDerived(p)' /\ ConflictStillBetweenMemories(p)'
      BY DEF SkillStillDerived, ConflictStillBetweenMemories
    <3>3. AddStillDecided(p)'
      BY DEF AddStillDecided, Outcome, Oldest
    <3> QED
      BY <3>1, <3>2, <3>3
  <2>4. (NoCurrentDuplicates /\ SupersededOnce /\ VerifiedIsSupported)'
    BY <2>1 DEF IInv, NoCurrentDuplicates, SupersededOnce, VerifiedIsSupported
  <2>5. (SkillsMirrorLessons /\ LinksResolve)'
    BY <2>1 DEF IInv, SkillsMirrorLessons, LinksResolve
  <2> QED
    BY <2>2, <2>3, <2>4, <2>5 DEF IInv
<1>2. ASSUME NEW p \in Processes, Step(p)
      PROVE  IInv'
  <2>1. (TypeOK /\ DistinctIds)'
    BY <1>2, StepType, StepDistinct DEF IInv
  <2>2. ChecksStillHold'
    BY <1>2, StepLock, StepAdd, StepAttempt, StepSkill, StepConflict DEF ChecksStillHold
  <2>3. (NoCurrentDuplicates /\ SupersededOnce /\ VerifiedIsSupported)'
    BY <1>2, StepNoDuplicates, StepNeverForks, StepVerified
  <2>4. (SkillsMirrorLessons /\ LinksResolve)'
    BY <1>2, StepSkills, StepLinks
  <2> QED
    BY <2>1, <2>2, <2>3, <2>4 DEF IInv
<1> QED
  BY <1>1, <1>2 DEF Next

(* Every reachable state satisfies the inductive invariant. *)
THEOREM Invariant == Spec => []IInv
  BY InitInvariant, StepInvariant, PTL DEF Spec

----------------------------------------------------------------------------
(* The history: the event log and the tables it is written with. *)

(* One event more, that the log does not hold yet. *)
LEMMA AppendEvent ==
    ASSUME NEW s \in Seq(Events), IsInjective(s), NEW e \in Events, e \notin Range(s)
    PROVE  /\ Append(s, e) \in Seq(Events)
           /\ DOMAIN s = 1 .. Len(s)
           /\ Len(s) \in Nat
           /\ DOMAIN Append(s, e) = DOMAIN s \cup {Len(s) + 1}
           /\ \A i \in DOMAIN s : Append(s, e)[i] = s[i]
           /\ Append(s, e)[Len(s) + 1] = e
           /\ IsInjective(Append(s, e))
           /\ Range(Append(s, e)) = Range(s) \cup {e}
<1>1. /\ Append(s, e) \in Seq(Events)
      /\ DOMAIN s = 1 .. Len(s)
      /\ Len(s) \in Nat
      /\ DOMAIN Append(s, e) = DOMAIN s \cup {Len(s) + 1}
      /\ \A i \in DOMAIN s : Append(s, e)[i] = s[i]
      /\ Append(s, e)[Len(s) + 1] = e
  OBVIOUS
<1>2. Range(Append(s, e)) = Range(s) \cup {e}
  BY <1>1 DEF Range
<1>3. ASSUME NEW i \in DOMAIN Append(s, e), NEW j \in DOMAIN Append(s, e),
             Append(s, e)[i] = Append(s, e)[j]
      PROVE  i = j
  <2>1. \A k \in DOMAIN s : s[k] # e
    BY DEF Range
  <2> QED
    BY <1>1, <1>3, <2>1 DEF IsInjective
<1> QED
  BY <1>1, <1>2, <1>3 DEF IsInjective

LEMMA EventFacts ==
    ASSUME NEW kind, NEW id
    PROVE  Event(kind, id).kind = kind /\ Event(kind, id).subject = id
  BY DEF Event

(* The events of a new memory, appended one by one. *)
LEMMA RecordingAppends ==
    ASSUME NEW s \in Seq(Events), NEW id \in MemoryIds, NEW fact \in Facts
    PROVE  /\ fact.supersedes = NoMemory =>
                s \o RecordingEvents(id, fact) = Append(s, Event("memory_recorded", id))
           /\ fact.supersedes # NoMemory =>
                s \o RecordingEvents(id, fact) =
                    Append(Append(s, Event("memory_recorded", id)),
                           Event("memory_superseded", fact.supersedes))
<1>1. Event("memory_recorded", id) \in Events
  BY EventType
<1>2. CASE fact.supersedes = NoMemory
  BY <1>1, <1>2 DEF RecordingEvents
<1>3. CASE fact.supersedes # NoMemory
  <2>1. Event("memory_superseded", fact.supersedes) \in Events
    BY <1>3, EventType DEF Facts
  <2> QED
    BY <1>1, <1>3, <2>1 DEF RecordingEvents
<1> QED
  BY <1>2, <1>3

(* An attempt's or a skill's event, appended with its row. *)
LEMMA AppendKeepsLog ==
    ASSUME TypeOK, LogMatchesTables, NEW e \in Events, e \notin Range(log),
           NEW table1, DOMAIN attempts \subseteq DOMAIN table1,
           NEW table2, DOMAIN skills \subseteq DOMAIN table2,
           \/ e.kind = "attempt_recorded" /\ e.subject \in DOMAIN table1
           \/ e.kind = "skill_promoted" /\ e.subject \in DOMAIN table2
    PROVE  LogMatches(Append(log, e), memories, table1, table2)
<1> USE DEF TypeOK, LogMatchesTables
<1> DEFINE s == Append(log, e)
<1>1. /\ DOMAIN s = DOMAIN log \cup {Len(log) + 1}
      /\ \A i \in DOMAIN log : s[i] = log[i]
      /\ s[Len(log) + 1] = e
      /\ IsInjective(s)
      /\ Range(s) = Range(log) \cup {e}
  BY AppendEvent DEF LogMatches
<1> HIDE DEF s
<1>2. ASSUME NEW m \in DOMAIN memories
      PROVE  LET ended == memories[m].fact.supersedes IN
             /\ Event("memory_recorded", m) \in Range(s)
             /\ ended # NoMemory =>
                  \E i, j, k \in DOMAIN s :
                     /\ i < j /\ j < k
                     /\ s[i] = Event("memory_recorded", ended)
                     /\ s[j] = Event("memory_recorded", m)
                     /\ s[k] = Event("memory_superseded", ended)
  <2>1. Event("memory_recorded", m) \in Range(s)
    BY <1>1 DEF LogMatches
  <2>2. ASSUME memories[m].fact.supersedes # NoMemory
        PROVE  \E i, j, k \in DOMAIN s :
                     /\ i < j /\ j < k
                     /\ s[i] = Event("memory_recorded", memories[m].fact.supersedes)
                     /\ s[j] = Event("memory_recorded", m)
                     /\ s[k] = Event("memory_superseded", memories[m].fact.supersedes)
    <3>1. PICK i \in DOMAIN log, j \in DOMAIN log, k \in DOMAIN log :
                     /\ i < j /\ j < k
                     /\ log[i] = Event("memory_recorded", memories[m].fact.supersedes)
                     /\ log[j] = Event("memory_recorded", m)
                     /\ log[k] = Event("memory_superseded", memories[m].fact.supersedes)
      BY <2>2 DEF LogMatches
    <3> QED
      BY <1>1, <3>1
  <2> QED
    BY <2>1, <2>2
<1>3. ASSUME NEW i \in DOMAIN s
      PROVE  /\ s[i].kind = "memory_recorded" => s[i].subject \in DOMAIN memories
             /\ s[i].kind = "memory_superseded" => HasSuperseder(memories, s[i].subject)
             /\ s[i].kind = "attempt_recorded" => s[i].subject \in DOMAIN table1
             /\ s[i].kind = "skill_promoted" => s[i].subject \in DOMAIN table2
  <2>1. CASE i \in DOMAIN log
    BY <1>1, <2>1 DEF LogMatches
  <2>2. CASE s[i] = e
    BY <2>2
  <2> QED
    BY <1>1, <2>1, <2>2
<1> QED
  BY <1>1, <1>2, <1>3 DEF LogMatches, s

(* A memory's events, appended with its row. *)
LEMMA RecordingKeepsLog ==
    ASSUME IInv, LogMatchesTables, NEW p \in Processes, InsertMemory(p)
    PROVE  LogMatches(log', memories', attempts, skills)
<1> DEFINE id == session[p].id
           fact == session[p].row.fact
           ended == fact.supersedes
           new == Event("memory_recorded", id)
           end == Event("memory_superseded", ended)
           s == log'
<1>1. /\ id \in MemoryIds /\ fact \in Facts
      /\ log \in Seq(Events)
  BY SessionTypes DEF IInv, TypeOK, InsertMemory, MemoryRows
<1>2. /\ id \notin DOMAIN memories
      /\ DOMAIN memories' = DOMAIN memories \cup {id}
      /\ memories'[id].fact = fact
      /\ \A m \in DOMAIN memories : memories'[m] = memories[m]
      /\ ended # NoMemory => ended \in DOMAIN memories /\ ~HasSuperseder(memories, ended)
  BY InsertMemoryFacts DEF Admissible
<1>3. new \in Events /\ new \notin Range(log)
  <2>1. \A i \in DOMAIN log : log[i].kind = "memory_recorded" => log[i].subject # id
    BY <1>2 DEF LogMatchesTables, LogMatches
  <2> QED
    BY <1>1, <2>1, EventType, EventFacts DEF Range
<1>4. ended # NoMemory => end \in Events /\ end \notin Range(log) /\ end # new
  <2>1. \A i \in DOMAIN log : log[i].kind = "memory_superseded" => HasSuperseder(memories, log[i].subject)
    BY DEF LogMatchesTables, LogMatches
  <2>2. ASSUME ended # NoMemory PROVE end \in Events /\ end \notin Range(log)
    BY <1>1, <1>2, <2>1, <2>2, EventType, EventFacts DEF Range, Facts
  <2>3. end # new
    BY EventFacts
  <2> QED
    BY <2>2, <2>3
<1>5. /\ IsInjective(s)
      /\ Range(log) \cup {new} \subseteq Range(s)
      /\ \A i \in DOMAIN log : i \in DOMAIN s /\ s[i] = log[i] /\ i \in Nat /\ i < Len(log) + 1
      /\ \A i \in DOMAIN s : i \in DOMAIN log \/ s[i] = new \/ (ended # NoMemory /\ s[i] = end)
      /\ ended # NoMemory =>
           \E j, k \in DOMAIN s : /\ j \in Nat /\ k \in Nat /\ Len(log) < j /\ j < k
                                 /\ s[j] = new /\ s[k] = end
  <2> DEFINE one == Append(log, new)
  <2>1. /\ one \in Seq(Events) /\ IsInjective(one)
        /\ DOMAIN log = 1 .. Len(log) /\ Len(log) \in Nat
        /\ DOMAIN one = DOMAIN log \cup {Len(log) + 1}
        /\ Len(one) = Len(log) + 1
        /\ \A i \in DOMAIN log : one[i] = log[i]
        /\ one[Len(log) + 1] = new
        /\ Range(one) = Range(log) \cup {new}
    BY <1>1, <1>3, AppendEvent DEF LogMatchesTables, LogMatches
  <2>2. CASE ended = NoMemory
    <3>1. s = one
      BY <1>1, <2>2, RecordingAppends DEF InsertMemory
    <3> HIDE DEF one, s, new, end
    <3> QED
      BY <2>1, <2>2, <3>1
  <2>3. CASE ended # NoMemory
    <3>1. s = Append(one, end)
      BY <1>1, <2>3, RecordingAppends DEF InsertMemory
    <3>2. end \notin Range(one) /\ end \in Events
      BY <1>4, <2>1, <2>3
    <3>3. /\ IsInjective(Append(one, end))
          /\ DOMAIN Append(one, end) = DOMAIN one \cup {Len(one) + 1}
          /\ \A i \in DOMAIN one : Append(one, end)[i] = one[i]
          /\ Append(one, end)[Len(one) + 1] = end
          /\ Range(Append(one, end)) = Range(one) \cup {end}
      BY <2>1, <3>2, AppendEvent
    <3> HIDE DEF one, s, new, end
    <3> QED
      BY <2>1, <2>3, <3>1, <3>3
  <2> QED
    BY <2>2, <2>3
<1> HIDE DEF s
<1>6. ASSUME NEW m \in DOMAIN memories'
      PROVE  LET over == memories'[m].fact.supersedes IN
             /\ Event("memory_recorded", m) \in Range(s)
             /\ over # NoMemory =>
                  \E i, j, k \in DOMAIN s :
                     /\ i < j /\ j < k
                     /\ s[i] = Event("memory_recorded", over)
                     /\ s[j] = Event("memory_recorded", m)
                     /\ s[k] = Event("memory_superseded", over)
  <2>1. CASE m \in DOMAIN memories
    <3>1. memories'[m] = memories[m] /\ Event("memory_recorded", m) \in Range(s)
      BY <1>2, <1>5, <2>1 DEF LogMatchesTables, LogMatches
    <3>2. ASSUME memories[m].fact.supersedes # NoMemory
          PROVE  \E i, j, k \in DOMAIN s :
                     /\ i < j /\ j < k
                     /\ s[i] = Event("memory_recorded", memories[m].fact.supersedes)
                     /\ s[j] = Event("memory_recorded", m)
                     /\ s[k] = Event("memory_superseded", memories[m].fact.supersedes)
      <4>1. PICK i \in DOMAIN log, j \in DOMAIN log, k \in DOMAIN log :
                     /\ i < j /\ j < k
                     /\ log[i] = Event("memory_recorded", memories[m].fact.supersedes)
                     /\ log[j] = Event("memory_recorded", m)
                     /\ log[k] = Event("memory_superseded", memories[m].fact.supersedes)
        BY <2>1, <3>2 DEF LogMatchesTables, LogMatches
      <4> QED
        BY <1>5, <4>1
    <3> QED
      BY <3>1, <3>2
  <2>2. CASE m = id
    <3>1. new \in Range(s)
      BY <1>5
    <3>2. ASSUME ended # NoMemory
          PROVE  \E i, j, k \in DOMAIN s :
                     /\ i < j /\ j < k
                     /\ s[i] = Event("memory_recorded", ended) /\ s[j] = new /\ s[k] = end
      <4>1. PICK i \in DOMAIN log : log[i] = Event("memory_recorded", ended)
        BY <1>2, <3>2 DEF LogMatchesTables, LogMatches, Range
      <4>2. PICK j \in DOMAIN s, k \in DOMAIN s :
              j \in Nat /\ k \in Nat /\ Len(log) < j /\ j < k /\ s[j] = new /\ s[k] = end
        BY <1>5, <3>2
      <4>3. i \in DOMAIN s /\ s[i] = log[i] /\ i \in Nat /\ i < Len(log) + 1 /\ Len(log) \in Nat
        BY <1>1, <1>5
      <4> QED
        BY <4>1, <4>2, <4>3
    <3> QED
      BY <1>2, <2>2, <3>1, <3>2
  <2> QED
    BY <1>2, <2>1, <2>2
<1>7. ASSUME NEW i \in DOMAIN s
      PROVE  /\ s[i].kind = "memory_recorded" => s[i].subject \in DOMAIN memories'
             /\ s[i].kind = "memory_superseded" => HasSuperseder(memories', s[i].subject)
             /\ s[i].kind = "attempt_recorded" => s[i].subject \in DOMAIN attempts
             /\ s[i].kind = "skill_promoted" => s[i].subject \in DOMAIN skills
  <2>1. CASE i \in DOMAIN log
    BY <1>2, <1>5, <2>1 DEF LogMatchesTables, LogMatches, HasSuperseder
  <2>2. CASE s[i] = new
    BY <1>2, <2>2, EventFacts
  <2>3. CASE ended # NoMemory /\ s[i] = end
    BY <1>2, <2>3, EventFacts DEF HasSuperseder
  <2> QED
    BY <1>5, <2>1, <2>2, <2>3
<1> QED
  BY <1>5, <1>6, <1>7 DEF LogMatches, s

LEMMA StepLog ==
    ASSUME IInv, LogMatchesTables, NEW p \in Processes, Step(p)
    PROVE  LogMatchesTables'
<1>1. CASE InsertMemory(p)
  BY <1>1, RecordingKeepsLog DEF LogMatchesTables, InsertMemory
<1>2. CASE InsertAttempt(p)
  <2> DEFINE e == Event("attempt_recorded", session[p].id)
  <2>1. e \in Events /\ e.kind = "attempt_recorded" /\ e.subject = session[p].id
    BY <1>2, SessionTypes, EventType, EventFacts DEF IInv, InsertAttempt
  <2>2. session[p].id \notin DOMAIN attempts
    BY <1>2 DEF IInv, ChecksStillHold, AttemptStillLinked, InsertAttempt
  <2>3. e \notin Range(log)
    BY <2>1, <2>2 DEF LogMatchesTables, LogMatches, Range
  <2>4. DOMAIN attempts' = DOMAIN attempts \cup {session[p].id} /\ log' = Append(log, e)
        /\ memories' = memories /\ skills' = skills
    BY <1>2 DEF InsertAttempt, Insert
  <2> HIDE DEF e
  <2> QED
    BY <2>1, <2>3, <2>4, AppendKeepsLog DEF IInv, LogMatchesTables
<1>3. CASE InsertSkill(p)
  <2> DEFINE e == Event("skill_promoted", session[p].id)
  <2>1. e \in Events /\ e.kind = "skill_promoted" /\ e.subject = session[p].id
    BY <1>3, SessionTypes, EventType, EventFacts DEF IInv, InsertSkill
  <2>2. session[p].id \notin DOMAIN skills
    BY <1>3 DEF IInv, ChecksStillHold, SkillStillDerived, InsertSkill
  <2>3. e \notin Range(log)
    BY <2>1, <2>2 DEF LogMatchesTables, LogMatches, Range
  <2>4. DOMAIN skills' = DOMAIN skills \cup {session[p].id} /\ log' = Append(log, e)
        /\ memories' = memories /\ attempts' = attempts
    BY <1>3 DEF InsertSkill, Insert
  <2> HIDE DEF e
  <2> QED
    BY <2>1, <2>3, <2>4, AppendKeepsLog DEF IInv, LogMatchesTables
<1>4. CASE UNCHANGED << memories, attempts, skills, log >>
  BY <1>4 DEF LogMatchesTables
<1> QED
  BY <1>1, <1>2, <1>3, <1>4 DEF Step, tables, BeginAdd, DecideAdd, AddEvidence, CheckAttempt,
     DeriveSkill, CheckConflict, InsertConflict, Abandon

LEMMA NextKeepsLog ==
    ASSUME IInv, LogMatchesTables, [Next]_vars
    PROVE  LogMatchesTables'
<1>1. CASE UNCHANGED vars
  BY <1>1 DEF vars, LogMatchesTables
<1> QED
  BY <1>1, StepLog DEF Next

(* The event log and the tables tell one history, in every reachable state.*)
THEOREM OneHistory == Spec => []LogMatchesTables
<1>1. Init => LogMatchesTables
  BY LegacyAssumption DEF Init, LogMatchesTables
<1>2. IInv /\ LogMatchesTables /\ [Next]_vars => LogMatchesTables'
  BY NextKeepsLog
<1> QED
  BY <1>1, <1>2, Invariant, PTL DEF Spec

----------------------------------------------------------------------------
(* The properties the runs check, one by one. *)

(* What a session checked is still true when it writes, with any number of *)
(* processes committing in between.                                        *)
THEOREM NoStaleDecision == Spec => []ChecksStillHold
<1>1. IInv => ChecksStillHold
  BY DEF IInv
<1> QED
  BY <1>1, Invariant, PTL

(* No two processes ever leave two current memories that say one thing.    *)
THEOREM Deduplicated == Spec => []NoCurrentDuplicates
<1>1. IInv => NoCurrentDuplicates
  BY DEF IInv
<1> QED
  BY <1>1, Invariant, PTL

(* The history of a belief never forks. *)
THEOREM Unforked == Spec => []SupersededOnce
<1>1. IInv => SupersededOnce
  BY DEF IInv
<1> QED
  BY <1>1, Invariant, PTL

(* Whatever is recorded as verified has verifying evidence on record. *)
THEOREM VerificationSupported == Spec => []VerifiedIsSupported
<1>1. IInv => VerifiedIsSupported
  BY DEF IInv
<1> QED
  BY <1>1, Invariant, PTL

(* A Skill is what its Lesson makes it. *)
THEOREM SkillsDerived == Spec => []SkillsMirrorLessons
<1>1. IInv => SkillsMirrorLessons
  BY DEF IInv
<1> QED
  BY <1>1, Invariant, PTL

(* Every link names a row. *)
THEOREM ReferentialIntegrity == Spec => []LinksResolve
<1>1. IInv => LinksResolve
  BY DEF IInv
<1> QED
  BY <1>1, Invariant, PTL

(* The log is only extended. *)
LEMMA StepExtendsLog ==
    ASSUME IInv, NEW p \in Processes, Step(p)
    PROVE  IsRestriction(log, log')
<1>1. TypeOK /\ log \in Seq(Events)
  BY DEF IInv, TypeOK
<1>2. \A suffix \in Seq(Events) : IsRestriction(log, log \o suffix)
  BY <1>1 DEF IsRestriction
<1>3. \A e \in Events : IsRestriction(log, Append(log, e))
  BY <1>1 DEF IsRestriction
<1>4. CASE InsertMemory(p)
  <2>1. session[p].id \in MemoryIds /\ session[p].row.fact \in Facts
    BY <1>1, <1>4, SessionTypes DEF InsertMemory, MemoryRows
  <2> QED
    BY <1>2, <1>4, <2>1, RecordingEventsType DEF InsertMemory
<1>5. CASE InsertAttempt(p)
  <2>1. session[p].id \in AttemptIds
    BY <1>1, <1>5, SessionTypes DEF InsertAttempt
  <2> QED
    BY <1>3, <1>5, <2>1, EventType DEF InsertAttempt
<1>6. CASE InsertSkill(p)
  <2>1. session[p].id \in SkillIds
    BY <1>1, <1>6, SessionTypes DEF InsertSkill
  <2> QED
    BY <1>3, <1>6, <2>1, EventType DEF InsertSkill
<1>7. CASE UNCHANGED log
  BY <1>7 DEF IsRestriction
<1> QED
  BY <1>4, <1>5, <1>6, <1>7
     DEF Step, tables, BeginAdd, DecideAdd, AddEvidence, CheckAttempt,
         DeriveSkill, CheckConflict, InsertConflict, Abandon

(* No step changes or removes a row or rewrites history. *)
THEOREM AppendOnly == Spec => OnlyGrows
<1> DEFINE Grows == /\ IsRestriction(memories, memories')
                    /\ IsRestriction(evidence, evidence')
                    /\ IsRestriction(attempts, attempts')
                    /\ IsRestriction(skills, skills')
                    /\ IsRestriction(conflicts, conflicts')
                    /\ IsRestriction(log, log')
<1>1. IInv /\ [Next]_vars => [Grows]_tables
  <2>1. ASSUME IInv, Next PROVE Grows
    BY <2>1, StepExtendsLog, StepGrows DEF Next
  <2>2. ASSUME UNCHANGED vars PROVE UNCHANGED tables
    BY <2>2 DEF vars, tables
  <2> QED
    BY <2>1, <2>2
<1> QED
  BY <1>1, Invariant, PTL DEF Spec, OnlyGrows

(* A verified request that names no support is refused in every state,     *)
(* whatever migrated row it resembles: admission is decided before the     *)
(* duplicate is looked for.                                                *)
THEOREM NoPrecedent == Spec => []LegacyAdmitsNothing
<1>1. ASSUME NEW fact, fact.epistemic_state = EPISTEMIC_VERIFIED, fact.supporting_evidence_ids = {}
      PROVE  Outcome(fact) = Rejected
  <2>1. ~Supported(evidence, fact)
    BY <1>1 DEF Supported
  <2> QED
    BY <2>1 DEF Admissible, Outcome
<1>2. LegacyAdmitsNothing
  BY <1>1 DEF LegacyAdmitsNothing
<1> QED
  BY <1>2, PTL

----------------------------------------------------------------------------
(* The store implements the ledger. *)

(* The ledger's words mean what the store's do. *)
LEMMA LedgerWords ==
    /\ \A table, key, row : Ledger!Insert(table, key, row) = Insert(table, key, row)
    /\ \A table, source, fact : Ledger!Admissible(table, source, fact) <=> Admissible(table, source, fact)
    /\ \A table, fact : Ledger!CurrentEquivalents(table, fact) = CurrentEquivalents(table, fact)
    /\ \A table : Ledger!CurrentIds(table) = CurrentIds(table)
    /\ \A id, fact : Ledger!RecordingEvents(id, fact) = RecordingEvents(id, fact)
    /\ \A kind, id : Ledger!Event(kind, id) = Event(kind, id)
    /\ \A table, id : Ledger!IsLesson(table, id) <=> IsLesson(table, id)
    /\ \A table, id : Ledger!SkillFrom(table, id) = SkillFrom(table, id)
    /\ Ledger!Facts = Facts /\ Ledger!Pairs = Pairs /\ Ledger!EvidenceKinds = EvidenceKinds
<1>1. \A table, key, row : Ledger!Insert(table, key, row) = Insert(table, key, row)
  BY DEF Insert, Ledger!Insert
<1>2. \A table, source, fact : Ledger!Admissible(table, source, fact) <=> Admissible(table, source, fact)
  BY DEF Admissible, Ledger!Admissible, Supported, Ledger!Supported, Range, Ledger!Range,
         EPISTEMIC_VERIFIED, Ledger!EPISTEMIC_VERIFIED,
         VERIFICATION_EVIDENCE_KINDS, Ledger!VERIFICATION_EVIDENCE_KINDS
<1>3. \A table, fact : Ledger!CurrentEquivalents(table, fact) = CurrentEquivalents(table, fact)
  BY DEF CurrentEquivalents, Ledger!CurrentEquivalents, HasSuperseder, Ledger!HasSuperseder,
         SameMeaning, Ledger!SameMeaning
<1>4. \A table : Ledger!CurrentIds(table) = CurrentIds(table)
  BY DEF CurrentIds, Ledger!CurrentIds
<1>5. \A kind, id : Ledger!Event(kind, id) = Event(kind, id)
  BY DEF Event, Ledger!Event
<1>6. \A id, fact : Ledger!RecordingEvents(id, fact) = RecordingEvents(id, fact)
  BY <1>5 DEF RecordingEvents, Ledger!RecordingEvents
<1>7. \A table, id : Ledger!IsLesson(table, id) <=> IsLesson(table, id)
  BY DEF IsLesson, Ledger!IsLesson, KIND_LESSON, Ledger!KIND_LESSON
<1>8. \A table, id : Ledger!SkillFrom(table, id) = SkillFrom(table, id)
  BY DEF SkillFrom, Ledger!SkillFrom, EPISTEMIC_VERIFIED, Ledger!EPISTEMIC_VERIFIED,
         SKILL_VERIFIED, Ledger!SKILL_VERIFIED, SKILL_CANDIDATE, Ledger!SKILL_CANDIDATE
<1>9. Ledger!Facts = Facts /\ Ledger!Pairs = Pairs /\ Ledger!EvidenceKinds = EvidenceKinds
  BY DEF Facts, Ledger!Facts, Pairs, Ledger!Pairs, EvidenceKinds, Ledger!EvidenceKinds,
         MemoryKinds, Ledger!MemoryKinds, KIND_LESSON, Ledger!KIND_LESSON,
         EpistemicStates, Ledger!EpistemicStates, EPISTEMIC_VERIFIED, Ledger!EPISTEMIC_VERIFIED,
         VERIFICATION_EVIDENCE_KINDS, Ledger!VERIFICATION_EVIDENCE_KINDS
<1> QED
  BY <1>1, <1>2, <1>3, <1>4, <1>5, <1>6, <1>7, <1>8, <1>9

(* Every step of a process is an operation of the ledger or no step of it. *)
LEMMA StepOfLedger ==
    ASSUME IInv, NEW p \in Processes, Step(p)
    PROVE  Ledger!Next \/ UNCHANGED Ledger!ledger
<1>0. TypeOK
  BY DEF IInv
<1>1. CASE InsertMemory(p)
  <2> DEFINE id == session[p].id
             fact == session[p].row.fact
             t == session[p].row.recorded_at
  <2>1. id \in MemoryIds /\ fact \in Facts /\ t \in Times
        /\ session[p].row = [fact |-> fact, recorded_at |-> t]
    BY <1>0, <1>1, SessionTypes DEF InsertMemory, MemoryRows
  <2>2. /\ id \notin DOMAIN memories
        /\ Admissible(memories, evidence, fact)
        /\ CurrentEquivalents(memories, fact) = {}
        /\ fact.supersedes # NoMemory => ~HasSuperseder(memories, fact.supersedes)
    BY <1>1, InsertMemoryFacts
  <2>3. fact.supersedes # NoMemory => fact.supersedes \in CurrentIds(memories)
    BY <2>2 DEF Admissible, CurrentIds, HasSuperseder
  <2>4. /\ memories' = Insert(memories, id, [fact |-> fact, recorded_at |-> t])
        /\ log' = log \o RecordingEvents(id, fact)
        /\ UNCHANGED << evidence, attempts, skills, conflicts >>
    BY <1>1, <2>1 DEF InsertMemory
  <2> HIDE DEF id, fact, t
  <2>5. Ledger!RecordMemory(id, fact, t)
    BY <2>2, <2>3, <2>4, LedgerWords DEF Ledger!RecordMemory
  <2> QED
    BY <2>1, <2>5, LedgerWords DEF Ledger!Next
<1>2. CASE AddEvidence(p)
  <2>1. PICK id \in EvidenceIds, kind \in EvidenceKinds :
          id \notin DOMAIN evidence /\ evidence' = Insert(evidence, id, kind)
    BY <1>2 DEF AddEvidence
  <2>2. Ledger!RecordEvidence(id, kind)
    BY <1>2, <2>1, LedgerWords DEF AddEvidence, Ledger!RecordEvidence
  <2> QED
    BY <2>2, LedgerWords DEF Ledger!Next
<1>3. CASE InsertAttempt(p)
  <2> DEFINE id == session[p].id
             evidence_ids == session[p].evidence_ids
  <2>1. id \in AttemptIds /\ evidence_ids \in EvidenceLists
    BY <1>0, <1>3, SessionTypes DEF InsertAttempt
  <2>2. id \notin DOMAIN attempts /\ Range(evidence_ids) \subseteq DOMAIN evidence
    BY <1>3 DEF IInv, ChecksStillHold, AttemptStillLinked, InsertAttempt
  <2>3. Ledger!RecordAttempt(id, evidence_ids)
    BY <1>3, <2>2, LedgerWords
       DEF InsertAttempt, Ledger!RecordAttempt, Range, Ledger!Range
  <2> QED
    BY <2>1, <2>3, LedgerWords DEF Ledger!Next
<1>4. CASE InsertSkill(p)
  <2> DEFINE id == session[p].id
             lesson == session[p].skill.source_lesson_id
  <2>1. id \in SkillIds /\ lesson \in MemoryIds
    BY <1>0, <1>4, SessionTypes DEF InsertSkill, SkillRows
  <2>2. /\ id \notin DOMAIN skills
        /\ IsLesson(memories, lesson)
        /\ session[p].skill = SkillFrom(memories, lesson)
    BY <1>4 DEF IInv, ChecksStillHold, SkillStillDerived, InsertSkill
  <2>3. Ledger!PromoteLesson(id, lesson)
    BY <1>4, <2>2, LedgerWords DEF InsertSkill, Ledger!PromoteLesson
  <2> QED
    BY <2>1, <2>3, LedgerWords DEF Ledger!Next
<1>5. CASE InsertConflict(p)
  <2> DEFINE pair == session[p].pair
             t == session[p].recorded_at
  <2>1. pair \in Pairs /\ t \in Times
    BY <1>0, <1>5, SessionTypes DEF InsertConflict
  <2>2. {pair[1], pair[2]} \subseteq DOMAIN memories
    BY <1>5 DEF IInv, ChecksStillHold, ConflictStillBetweenMemories, InsertConflict
  <2>3. CASE pair \in DOMAIN conflicts
    BY <1>5, <2>3 DEF InsertConflict, Ledger!ledger
  <2>4. CASE pair \notin DOMAIN conflicts
    <3>1. Ledger!DeclareConflict(pair, t)
      BY <1>5, <2>2, <2>4, LedgerWords DEF InsertConflict, Ledger!DeclareConflict
    <3> QED
      BY <2>1, <3>1, LedgerWords DEF Ledger!Next
  <2> QED
    BY <2>3, <2>4
<1>6. CASE UNCHANGED tables
  BY <1>6 DEF tables, Ledger!ledger
<1> QED
  BY <1>1, <1>2, <1>3, <1>4, <1>5, <1>6
     DEF Step, BeginAdd, DecideAdd, CheckAttempt, DeriveSkill, CheckConflict, Abandon

(* Every behaviour of the processes is one of the append-only ledger: the  *)
(* calls that check in one step and write in another are atomic.           *)
THEOREM Refinement == Spec => LedgerSpec
<1>1. Init => Ledger!Init
  BY DEF Init, Ledger!Init
<1>2. IInv /\ [Next]_vars => [Ledger!Next]_(Ledger!ledger)
  <2>1. ASSUME IInv, Next PROVE Ledger!Next \/ UNCHANGED Ledger!ledger
    BY <2>1, StepOfLedger DEF Next
  <2>2. ASSUME UNCHANGED vars PROVE UNCHANGED Ledger!ledger
    BY <2>2 DEF vars, Ledger!ledger
  <2> QED
    BY <2>1, <2>2
<1> QED
  BY <1>1, <1>2, Invariant, PTL DEF Spec, LedgerSpec, Ledger!Spec

----------------------------------------------------------------------------
(* Retries *)

(* A set of natural numbers that is not empty has a least element. *)
LEMMA LeastNumber ==
    ASSUME NEW S, S \subseteq Nat, S # {}
    PROVE  \E x \in S : \A y \in S : x <= y
<1>1. PICK x \in S : \A y \in S : ~(<< y, x >> \in OpToRel(<, Nat))
  BY NatLessThanWellFounded, WFMin
<1>2. \A y \in S : ~(y < x)
  BY <1>1 DEF OpToRel
<1> QED
  BY <1>2

(* The oldest of a set of memories exists, and is one of them. *)
LEMMA OldestIsOne ==
    ASSUME TypeOK, NEW ids, ids \subseteq DOMAIN memories, ids # {}
    PROVE  Oldest(ids) \in ids
<1>1. \A m \in ids : m \in Nat /\ memories[m].recorded_at \in Nat
  BY IdsAssumption DEF TypeOK, IsTable, MemoryRows
<1> DEFINE times == {memories[m].recorded_at : m \in ids}
<1>2. PICK t \in times : \A u \in times : t <= u
  BY <1>1, LeastNumber
<1> DEFINE first == {m \in ids : memories[m].recorded_at = t}
<1>3. PICK m \in first : \A n \in first : m <= n
  <2>1. first # {} /\ first \subseteq Nat
    BY <1>1
  <2> HIDE DEF first
  <2> QED
    BY <2>1, LeastNumber
<1>4. ASSUME NEW n \in ids
      PROVE  \/ memories[m].recorded_at < memories[n].recorded_at
             \/ memories[m].recorded_at = memories[n].recorded_at /\ m <= n
  <2>1. t <= memories[n].recorded_at /\ memories[m].recorded_at = t
    BY <1>2, <1>3
  <2> QED
    BY <1>1, <1>3, <2>1
<1> QED
  BY <1>3, <1>4 DEF Oldest

LEMMA RetryFacts ==
    ASSUME IInv, NEW m \in CurrentIds(memories), Admissible(memories, evidence, memories[m].fact)
    PROVE  LET reply == Outcome(memories[m].fact) IN
           /\ reply.answer = "existing"
           /\ reply.id \in CurrentIds(memories)
           /\ memories[reply.id].fact = memories[m].fact
           /\ m \notin DOMAIN LegacyRows => reply.id = m
<1> DEFINE fact == memories[m].fact
           same == CurrentEquivalents(memories, fact)
           oldest == Oldest(same)
<1>1. \A n : n \in CurrentIds(memories) <=> n \in DOMAIN memories /\ ~HasSuperseder(memories, n)
  BY CurrentFacts DEF HasSuperseder
<1>2. m \in same
  BY <1>1 DEF CurrentEquivalents, SameMeaning
<1>3. Outcome(fact) = Existing(oldest)
  BY <1>2 DEF Outcome
<1>4. oldest \in same
  BY <1>2, OldestIsOne DEF IInv, CurrentEquivalents
<1>5. oldest \in CurrentIds(memories) /\ SameMeaning(memories[oldest].fact, fact)
  BY <1>1, <1>4 DEF CurrentEquivalents
<1>6. memories[oldest].fact = fact
  <2>1. memories[oldest].fact \in Facts /\ fact \in Facts
    BY <1>1, <1>5 DEF IInv, TypeOK, IsTable, MemoryRows
  <2> HIDE DEF fact, oldest
  <2> QED
    BY <1>5, <2>1 DEF SameMeaning, Facts
<1>7. m \notin DOMAIN LegacyRows => oldest = m
  BY <1>5 DEF IInv, NoCurrentDuplicates
<1>8. Existing(oldest).answer = "existing" /\ Existing(oldest).id = oldest
  BY DEF Existing
<1> QED
  BY <1>3, <1>5, <1>6, <1>7, <1>8

(* A retried call is answered with what the first one recorded. *)
THEOREM RetrySafe == Spec => []RetryIsRecognised
<1>1. IInv => RetryIsRecognised
  BY RetryFacts DEF RetryIsRecognised
<1> QED
  BY <1>1, Invariant, PTL
=============================================================================
