---------------------------- MODULE MemoryLedger ----------------------------
(***************************************************************************)
(* What the canonical store promises its callers, with no process, lock or *)
(* intermediate step in sight: an append-only ledger on which every        *)
(* operation happens at one instant, with all its preconditions true at    *)
(* that instant.                                                           *)
(*                                                                         *)
(* MemoryStore, where add() holds the write lock over two steps and        *)
(* add_attempt, add_skill and add_conflict check first and write later     *)
(* with no lock in between, implements this module.                        *)
(***************************************************************************)
EXTENDS MemoryModel

CONSTANTS LegacyRows,   \* memories migrated from an earlier schema
          LegacyEvidence,  \* the evidence they came with
          LegacyLog     \* the events recorded for them

VARIABLES memories, evidence, attempts, skills, conflicts, log

ledger == << memories, evidence, attempts, skills, conflicts, log >>

Init ==
    /\ memories = LegacyRows
    /\ log = LegacyLog
    /\ evidence = LegacyEvidence
    /\ attempts = << >>
    /\ skills = << >>
    /\ conflicts = << >>

(* A memory enters the ledger once, justified, superseding only something  *)
(* that is current and repeating nothing that is current.                  *)
RecordMemory(id, fact, t) ==
    /\ id \notin DOMAIN memories
    /\ Admissible(memories, evidence, fact)
    /\ fact.supersedes # NoMemory => fact.supersedes \in CurrentIds(memories)
    /\ CurrentEquivalents(memories, fact) = {}
    /\ memories' = Insert(memories, id, [fact |-> fact, recorded_at |-> t])
    /\ log' = log \o RecordingEvents(id, fact)
    /\ UNCHANGED << evidence, attempts, skills, conflicts >>

RecordEvidence(id, kind) ==
    /\ id \notin DOMAIN evidence
    /\ evidence' = Insert(evidence, id, kind)
    /\ UNCHANGED << memories, attempts, skills, conflicts, log >>

RecordAttempt(id, evidence_ids) ==
    /\ id \notin DOMAIN attempts
    /\ Range(evidence_ids) \subseteq DOMAIN evidence
    /\ attempts' = Insert(attempts, id, evidence_ids)
    /\ log' = Append(log, Event("attempt_recorded", id))
    /\ UNCHANGED << memories, evidence, skills, conflicts >>

(* The Skill says what its Lesson says at the instant it is promoted. *)
PromoteLesson(id, lesson) ==
    /\ id \notin DOMAIN skills
    /\ IsLesson(memories, lesson)
    /\ skills' = Insert(skills, id, SkillFrom(memories, lesson))
    /\ log' = Append(log, Event("skill_promoted", id))
    /\ UNCHANGED << memories, evidence, attempts, conflicts >>

(* A pair is declared at most once, and its first time stands. *)
DeclareConflict(pair, t) ==
    /\ {pair[1], pair[2]} \subseteq DOMAIN memories
    /\ pair \notin DOMAIN conflicts
    /\ conflicts' = Insert(conflicts, pair, t)
    /\ UNCHANGED << memories, evidence, attempts, skills, log >>

Next ==
    \/ \E id \in MemoryIds, fact \in Facts, t \in Times : RecordMemory(id, fact, t)
    \/ \E id \in EvidenceIds, kind \in EvidenceKinds : RecordEvidence(id, kind)
    \/ \E id \in AttemptIds, evidence_ids \in EvidenceLists : RecordAttempt(id, evidence_ids)
    \/ \E id \in SkillIds, lesson \in MemoryIds : PromoteLesson(id, lesson)
    \/ \E pair \in Pairs, t \in Times : DeclareConflict(pair, t)

Spec == Init /\ [][Next]_ledger
=============================================================================
