----------------------------- MODULE MemoryStore -----------------------------
(***************************************************************************)
(* The canonical store of a urdyn workspace (src/urdyn/_store.py), written *)
(* by several processes at once: every CLI command or library call opens   *)
(* its own SQLite connection to the same memory.db.                        *)
(*                                                                         *)
(* add() takes the write lock with BEGIN IMMEDIATE, decides under it, and  *)
(* writes.  add_attempt(), add_skill() and add_conflict() only enter       *)
(* "with self._connection": their SELECTs run before sqlite3 opens a       *)
(* transaction, at their first INSERT, so what they checked and what they  *)
(* write are two steps, with other processes' commits between them.        *)
(*                                                                         *)
(* A transaction's writes become visible together, at its COMMIT, which is *)
(* SQLite's promise and is modelled as one step; a process that dies or    *)
(* gives up before it leaves nothing behind.  A rejected call changes      *)
(* nothing but the session that made it.                                   *)
(***************************************************************************)
EXTENDS MemoryModel

CONSTANTS Processes,    \* processes with the workspace open
          NoProcess,    \* nobody holds the write lock
          Drafts,       \* what remember() and learn() are asked to record
          LegacyRows,   \* memories migrated from an earlier schema
          LegacyEvidence,  \* the evidence they came with
          LegacyLog     \* the events recorded for them

VARIABLES memories,     \* the memories and memory_evidence tables
          evidence,     \* the evidence table: the kind of each item
          attempts,     \* the attempts table: the evidence of each attempt
          skills,       \* the skills tables
          conflicts,    \* the memory_conflicts table: when each pair was declared
          log,          \* the events table, by sequence
          lock,         \* the process inside BEGIN IMMEDIATE
          session       \* what each process carries between two of its steps

tables == << memories, evidence, attempts, skills, conflicts, log >>
vars == << memories, evidence, attempts, skills, conflicts, log, lock, session >>

ASSUME ProcessAssumption == NoProcess \notin Processes

(* A draft is a fact without the memory it supersedes. *)
DraftRows == [content : Contents, kind : MemoryKinds, epistemic_state : EpistemicStates,
              evidence_ids : EvidenceLists, supporting_evidence_ids : SUBSET EvidenceIds]

ASSUME DraftAssumption == Drafts \subseteq DraftRows

(* A migrated store may hold current duplicates, from before A17, and      *)
(* verified memories with no support, from before A12.1.  Its log, its     *)
(* supersessions and its evidence links are in order.                      *)
ASSUME LegacyAssumption ==
    /\ IsTable(LegacyRows, MemoryIds, MemoryRows)
    /\ IsTable(LegacyEvidence, EvidenceIds, EvidenceKinds)
    /\ LegacyLog \in Seq(Events)
    /\ LogMatches(LegacyLog, LegacyRows, << >>, << >>)
    /\ NeverForks(LegacyRows)
    /\ \A m \in DOMAIN LegacyRows :
         Range(LegacyRows[m].fact.evidence_ids) \subseteq DOMAIN LegacyEvidence

Idle == [step |-> "idle"]

Fact(draft, supersedes) ==
    [content |-> draft.content, kind |-> draft.kind,
     epistemic_state |-> draft.epistemic_state, supersedes |-> supersedes,
     evidence_ids |-> draft.evidence_ids,
     supporting_evidence_ids |-> draft.supporting_evidence_ids]

Init ==
    /\ memories = LegacyRows
    /\ log = LegacyLog
    /\ evidence = LegacyEvidence
    /\ attempts = << >>
    /\ skills = << >>
    /\ conflicts = << >>
    /\ lock = NoProcess
    /\ session = [p \in Processes |-> Idle]

(* uuid4: an identifier nobody else has. *)
Fresh(id, table, steps) ==
    /\ id \notin DOMAIN table
    /\ \A p \in Processes : session[p].step \in steps => session[p].id # id

IsIdle(p) == session[p] = Idle

Goto(p, state) == session' = [session EXCEPT ![p] = state]

Release(p) == lock' = NoProcess /\ Goto(p, Idle)

----------------------------------------------------------------------------
(* remember(), learn() and, beneath them, MemoryStore.add(). *)

(* Mutant of BeginAdd: a deferred transaction, which takes no lock. *)
BeginAdd_Deferred(p) ==
    /\ IsIdle(p)
    /\ \E id \in MemoryIds, draft \in Drafts, s \in MemoryIds \cup {NoMemory}, t \in Times :
         /\ Fresh(id, memories, {"deciding", "inserting"})
         /\ s # id
         /\ Goto(p, [step |-> "deciding", id |-> id,
                     row |-> [fact |-> Fact(draft, s), recorded_at |-> t]])
    /\ UNCHANGED << tables, lock >>

(* The row is built by the caller, its timestamp read included, and then   *)
(* BEGIN IMMEDIATE waits for the lock.                                     *)
BeginAdd(p) ==
    /\ IsIdle(p)
    /\ lock = NoProcess
    /\ \E id \in MemoryIds, draft \in Drafts, s \in MemoryIds \cup {NoMemory}, t \in Times :
         /\ Fresh(id, memories, {"deciding", "inserting"})
         /\ s # id
         /\ Goto(p, [step |-> "deciding", id |-> id,
                     row |-> [fact |-> Fact(draft, s), recorded_at |-> t]])
    /\ lock' = p
    /\ UNCHANGED tables

(* Oldest first, ties broken by identifier. *)
Oldest(ids) ==
    CHOOSE m \in ids : \A n \in ids :
        \/ memories[m].recorded_at < memories[n].recorded_at
        \/ memories[m].recorded_at = memories[n].recorded_at /\ m <= n

Rejected == [answer |-> "rejected"]
AlreadySuperseded == [answer |-> "already superseded"]
Recorded == [answer |-> "recorded"]
Existing(id) == [answer |-> "existing", id |-> id]

(* Mutants of Outcome: the duplicate lookup runs before the write-boundary *)
(* checks; the superseder is counted before the duplicate is recognised;   *)
(* nothing stops a second superseder.                                      *)
Outcome_LookupFirst(fact) ==
    IF CurrentEquivalents(memories, fact) # {}
    THEN Existing(Oldest(CurrentEquivalents(memories, fact)))
    ELSE IF ~Admissible(memories, evidence, fact) THEN Rejected
    ELSE IF fact.supersedes # NoMemory /\ HasSuperseder(memories, fact.supersedes)
         THEN AlreadySuperseded
    ELSE Recorded

Outcome_SupersederFirst(fact) ==
    IF ~Admissible(memories, evidence, fact) THEN Rejected
    ELSE IF fact.supersedes # NoMemory /\ HasSuperseder(memories, fact.supersedes)
         THEN AlreadySuperseded
    ELSE IF CurrentEquivalents(memories, fact) # {}
         THEN Existing(Oldest(CurrentEquivalents(memories, fact)))
    ELSE Recorded

Outcome_Forking(fact) ==
    IF ~Admissible(memories, evidence, fact) THEN Rejected
    ELSE IF CurrentEquivalents(memories, fact) # {}
         THEN Existing(Oldest(CurrentEquivalents(memories, fact)))
    ELSE Recorded

(* add()'s checks in their order: a request that is not admissible is      *)
(* refused even if an equivalent is on record (A17.1), and a duplicate is  *)
(* recognised before the superseder of its target is counted against it.   *)
Outcome(fact) ==
    IF ~Admissible(memories, evidence, fact) THEN Rejected
    ELSE IF CurrentEquivalents(memories, fact) # {}
         THEN Existing(Oldest(CurrentEquivalents(memories, fact)))
    ELSE IF fact.supersedes # NoMemory /\ HasSuperseder(memories, fact.supersedes)
         THEN AlreadySuperseded
    ELSE Recorded

(* The decision under the lock: the call returns or raises here, ending    *)
(* its transaction, unless there is something to write.                    *)
DecideAdd(p) ==
    /\ session[p].step = "deciding"
    /\ IF Outcome(session[p].row.fact) = Recorded
       THEN Goto(p, [session[p] EXCEPT !.step = "inserting"]) /\ UNCHANGED lock
       ELSE Release(p)
    /\ UNCHANGED tables

(* The memory, its links and its events, in one transaction. *)
InsertMemory(p) ==
    /\ session[p].step = "inserting"
    /\ memories' = Insert(memories, session[p].id, session[p].row)
    /\ log' = log \o RecordingEvents(session[p].id, session[p].row.fact)
    /\ Release(p)
    /\ UNCHANGED << evidence, attempts, skills, conflicts >>

----------------------------------------------------------------------------
(* add_evidence(): one INSERT, no check. *)

AddEvidence(p) ==
    /\ IsIdle(p)
    /\ lock = NoProcess
    /\ \E id \in EvidenceIds, kind \in EvidenceKinds :
         /\ id \notin DOMAIN evidence
         /\ evidence' = Insert(evidence, id, kind)
    /\ UNCHANGED << memories, attempts, skills, conflicts, log, lock, session >>

(* add_attempt(): evidence looked up in autocommit, then the INSERTs. *)

(* Mutant of CheckAttempt: the evidence is not looked up. *)
CheckAttempt_Unchecked(p) ==
    /\ IsIdle(p)
    /\ \E id \in AttemptIds, evidence_ids \in EvidenceLists :
         /\ Fresh(id, attempts, {"attempt"})
         /\ Goto(p, [step |-> "attempt", id |-> id, evidence_ids |-> evidence_ids])
    /\ UNCHANGED << tables, lock >>

CheckAttempt(p) ==
    /\ IsIdle(p)
    /\ \E id \in AttemptIds, evidence_ids \in EvidenceLists :
         /\ Fresh(id, attempts, {"attempt"})
         /\ Range(evidence_ids) \subseteq DOMAIN evidence
         /\ Goto(p, [step |-> "attempt", id |-> id, evidence_ids |-> evidence_ids])
    /\ UNCHANGED << tables, lock >>

(* Mutant of InsertAttempt: the event is forgotten. *)
InsertAttempt_Unlogged(p) ==
    /\ session[p].step = "attempt"
    /\ lock = NoProcess
    /\ attempts' = Insert(attempts, session[p].id, session[p].evidence_ids)
    /\ Goto(p, Idle)
    /\ UNCHANGED << memories, evidence, skills, conflicts, log, lock >>

InsertAttempt(p) ==
    /\ session[p].step = "attempt"
    /\ lock = NoProcess
    /\ attempts' = Insert(attempts, session[p].id, session[p].evidence_ids)
    /\ log' = Append(log, Event("attempt_recorded", session[p].id))
    /\ Goto(p, Idle)
    /\ UNCHANGED << memories, evidence, skills, conflicts, lock >>

(* promote() and add_skill(): the Lesson read in autocommit, the Skill     *)
(* derived from what was read, then the INSERTs.  The caller's Memory      *)
(* object supplies only the identifier.                                    *)

(* Mutant of DeriveSkill: the caller's Memory object says how far it is    *)
(* verified.                                                               *)
DeriveSkill_Trusting(p) ==
    /\ IsIdle(p)
    /\ \E id \in SkillIds, lesson \in MemoryIds, claimed \in {SKILL_VERIFIED, SKILL_CANDIDATE} :
         /\ Fresh(id, skills, {"skill"})
         /\ IsLesson(memories, lesson)
         /\ Goto(p, [step |-> "skill", id |-> id,
                     skill |-> [SkillFrom(memories, lesson) EXCEPT !.verification_state = claimed]])
    /\ UNCHANGED << tables, lock >>

DeriveSkill(p) ==
    /\ IsIdle(p)
    /\ \E id \in SkillIds, lesson \in MemoryIds :
         /\ Fresh(id, skills, {"skill"})
         /\ IsLesson(memories, lesson)
         /\ Goto(p, [step |-> "skill", id |-> id, skill |-> SkillFrom(memories, lesson)])
    /\ UNCHANGED << tables, lock >>

InsertSkill(p) ==
    /\ session[p].step = "skill"
    /\ lock = NoProcess
    /\ skills' = Insert(skills, session[p].id, session[p].skill)
    /\ log' = Append(log, Event("skill_promoted", session[p].id))
    /\ Goto(p, Idle)
    /\ UNCHANGED << memories, evidence, attempts, conflicts, lock >>

(* record_conflict() and add_conflict(): both memories looked up in        *)
(* autocommit, then INSERT ... ON CONFLICT(pair) DO NOTHING.               *)

CanonicalPair(a, b) == IF a < b THEN << a, b >> ELSE << b, a >>

CheckConflict(p) ==
    /\ IsIdle(p)
    /\ \E a, b \in MemoryIds, t \in Times :
         /\ a # b
         /\ {a, b} \subseteq DOMAIN memories
         /\ Goto(p, [step |-> "conflict", pair |-> CanonicalPair(a, b), recorded_at |-> t])
    /\ UNCHANGED << tables, lock >>

InsertConflict(p) ==
    /\ session[p].step = "conflict"
    /\ lock = NoProcess
    /\ conflicts' = IF session[p].pair \in DOMAIN conflicts THEN conflicts
                    ELSE Insert(conflicts, session[p].pair, session[p].recorded_at)
    /\ Goto(p, Idle)
    /\ UNCHANGED << memories, evidence, attempts, skills, log, lock >>

----------------------------------------------------------------------------
(* A process dies, or its call fails on I/O or on a lock it waited for too *)
(* long: SQLite rolls its transaction back.                                *)
Abandon(p) ==
    /\ ~IsIdle(p)
    /\ lock' = IF lock = p THEN NoProcess ELSE lock
    /\ Goto(p, Idle)
    /\ UNCHANGED tables

Step(p) ==
    \/ BeginAdd(p) \/ DecideAdd(p) \/ InsertMemory(p)
    \/ AddEvidence(p)
    \/ CheckAttempt(p) \/ InsertAttempt(p)
    \/ DeriveSkill(p) \/ InsertSkill(p)
    \/ CheckConflict(p) \/ InsertConflict(p)
    \/ Abandon(p)

Next == \E p \in Processes : Step(p)

Spec == Init /\ [][Next]_vars

----------------------------------------------------------------------------
(* Properties *)

Sessions ==
    {Idle}
    \cup [step : {"deciding", "inserting"}, id : MemoryIds, row : MemoryRows]
    \cup [step : {"attempt"}, id : AttemptIds, evidence_ids : EvidenceLists]
    \cup [step : {"skill"}, id : SkillIds, skill : SkillRows]
    \cup [step : {"conflict"}, pair : Pairs, recorded_at : Times]

(* Every table holds rows of its own shape, and so does every session.     *)
TypeOK ==
    /\ IsTable(memories, MemoryIds, MemoryRows)
    /\ IsTable(evidence, EvidenceIds, EvidenceKinds)
    /\ IsTable(attempts, AttemptIds, EvidenceLists)
    /\ IsTable(skills, SkillIds, SkillRows)
    /\ IsTable(conflicts, Pairs, Times)
    /\ log \in Seq(Events)
    /\ lock \in Processes \cup {NoProcess}
    /\ session \in [Processes -> Sessions]

(* The write lock is held exactly by the add() calls between their BEGIN   *)
(* IMMEDIATE and their end.                                                *)
HoldsLockIfAdding(p) == session[p].step \in {"deciding", "inserting"} <=> lock = p

AddStillDecided(p) ==
    /\ session[p].step \in {"deciding", "inserting"} => session[p].id \notin DOMAIN memories
    /\ session[p].step = "inserting" => Outcome(session[p].row.fact) = Recorded

AttemptStillLinked(p) ==
    session[p].step = "attempt" =>
        /\ session[p].id \notin DOMAIN attempts
        /\ Range(session[p].evidence_ids) \subseteq DOMAIN evidence

SkillStillDerived(p) ==
    session[p].step = "skill" =>
        LET skill == session[p].skill IN
        /\ session[p].id \notin DOMAIN skills
        /\ IsLesson(memories, skill.source_lesson_id)
        /\ skill = SkillFrom(memories, skill.source_lesson_id)

ConflictStillBetweenMemories(p) ==
    session[p].step = "conflict" =>
        {session[p].pair[1], session[p].pair[2]} \subseteq DOMAIN memories

(* What a session found when it checked is still true when it writes, be   *)
(* it one step or many commits of others later: the add() that decided to  *)
(* record would decide so again, the identifier is still free, the         *)
(* evidence and the memories are still there, the Skill is still what its  *)
(* Lesson makes it.                                                        *)
ChecksStillHold ==
    \A p \in Processes :
        /\ HoldsLockIfAdding(p)
        /\ AddStillDecided(p)
        /\ AttemptStillLinked(p)
        /\ SkillStillDerived(p)
        /\ ConflictStillBetweenMemories(p)

(* (A17) No two current memories say the same thing, unless both were      *)
(* recorded before duplicates were refused: two processes remembering one  *)
(* thing at the same time, or one that supersedes and one that retries,    *)
(* leave a single current record.                                          *)
NoCurrentDuplicates ==
    \A m, n \in CurrentIds(memories) :
        SameMeaning(memories[m].fact, memories[n].fact) /\ m # n
            => {m, n} \subseteq DOMAIN LegacyRows

(* "A memory can only be superseded once": the history of a belief is a    *)
(* chain and never forks, whoever races to supersede it.                   *)
SupersededOnce == NeverForks(memories)

(* (A12.1.1) A memory recorded as verified links a supporting item of a    *)
(* verifying kind that is on record, whatever kind the caller's Evidence   *)
(* object claimed; only migrated memories may lack one.                    *)
VerifiedIsSupported ==
    \A m \in DOMAIN memories \ DOMAIN LegacyRows : Supported(evidence, memories[m].fact)

(* The event log and the tables tell one history (A18.1): each memory is   *)
(* recorded by exactly one event, no event is written twice or names a     *)
(* missing row, and a memory ends only one logged before it, so timeline() *)
(* and state() never disagree with recall() and supersession has no cycle. *)
LogMatchesTables == LogMatches(log, memories, attempts, skills)

(* A Skill is verified exactly when the Lesson it came from is, and cites  *)
(* that Lesson's evidence, although the Lesson was read with no lock held  *)
(* before the Skill was written.                                           *)
SkillsMirrorLessons ==
    \A k \in DOMAIN skills :
        LET skill == skills[k] IN
        /\ IsLesson(memories, skill.source_lesson_id)
        /\ skill = SkillFrom(memories, skill.source_lesson_id)

(* Every link names a row: conflicts name recorded memories, and memories, *)
(* attempts and skills name recorded evidence.  All but the memories' were *)
(* checked before the write, outside its transaction.                      *)
LinksResolve ==
    /\ \A m \in DOMAIN memories : Range(memories[m].fact.evidence_ids) \subseteq DOMAIN evidence
    /\ \A pair \in DOMAIN conflicts : {pair[1], pair[2]} \subseteq DOMAIN memories
    /\ \A a \in DOMAIN attempts : Range(attempts[a]) \subseteq DOMAIN evidence
    /\ \A k \in DOMAIN skills : Range(skills[k].evidence_ids) \subseteq DOMAIN evidence

(* A call whose reply was lost can be retried.  As long as what it         *)
(* recorded is current, the same request is answered with a record of the  *)
(* same meaning, and never with "already superseded" on account of the     *)
(* very memory it recorded.                                                *)
RetryIsRecognised ==
    \A m \in CurrentIds(memories) :
        LET fact == memories[m].fact
            reply == Outcome(fact)
        IN  Admissible(memories, evidence, fact) =>
              /\ reply.answer = "existing"
              /\ reply.id \in CurrentIds(memories)
              /\ memories[reply.id].fact = fact
              /\ m \notin DOMAIN LegacyRows => reply.id = m

(* (A17.1) That an old row was valid when it was written admits no new     *)
(* request that resembles it: a verified request with no verifying support *)
(* is refused in every state of the store.                                 *)
LegacyAdmitsNothing ==
    \A m \in DOMAIN memories :
        LET fact == memories[m].fact IN
        fact.epistemic_state = EPISTEMIC_VERIFIED /\ fact.supporting_evidence_ids = {}
            => Outcome(fact) = Rejected

(* The store only grows: no row is ever changed or removed, a conflict     *)
(* keeps the time of its first declaration, and history is only extended.  *)
OnlyGrows ==
    [][/\ IsRestriction(memories, memories')
       /\ IsRestriction(evidence, evidence')
       /\ IsRestriction(attempts, attempts')
       /\ IsRestriction(skills, skills')
       /\ IsRestriction(conflicts, conflicts')
       /\ IsRestriction(log, log')]_tables

(* Each call, the ones that check in one step and write in a later one     *)
(* included, is one atomic operation of the ledger.                        *)
Ledger == INSTANCE MemoryLedger
LedgerSpec == Ledger!Spec
=============================================================================
