---------------------------- MODULE MemoryModel ----------------------------
(***************************************************************************)
(* The rows of a urdyn memory store and the questions the store asks about *)
(* them, shared by the ledger it promises (MemoryLedger) and by the store  *)
(* itself (MemoryStore).                                                   *)
(*                                                                         *)
(* A content, a kind, an identifier or a timestamp is only ever compared,  *)
(* so it is a value of a small set.  Identifiers are natural numbers       *)
(* because the code orders them (canonical_pair, the oldest-first tie      *)
(* break); a uuid is random, so nothing relates that order to the order in *)
(* which the rows were written, and nothing relates recorded_at, read from *)
(* the wall clock before the write lock is taken, to it either.            *)
(***************************************************************************)
EXTENDS Naturals, Sequences, Functions

CONSTANTS MemoryIds,    \* uuids of memories
          EvidenceIds,  \* uuids of evidence
          EvidenceLists,  \* the ordered, duplicate-free lists of them a call may name
          AttemptIds,   \* uuids of attempts
          SkillIds,     \* uuids of skills
          Contents,     \* texts of memories
          Times,        \* wall clock readings
          NoMemory      \* a NULL supersedes

ASSUME IdsAssumption ==
    /\ MemoryIds \subseteq Nat
    /\ Times \subseteq Nat
    /\ NoMemory \notin MemoryIds
    /\ EvidenceLists \subseteq Seq(EvidenceIds)

----------------------------------------------------------------------------
(* Tables: a partial function from primary keys to rows. *)

IsTable(table, Keys, Rows) ==
    DOMAIN table \subseteq Keys /\ table \in [DOMAIN table -> Rows]

Insert(table, key, row) ==
    [k \in DOMAIN table \cup {key} |-> IF k = key THEN row ELSE table[k]]

----------------------------------------------------------------------------
(* VALID_KINDS has many members and the store distinguishes one of them. *)
KIND_LESSON == "lesson"
MemoryKinds == {KIND_LESSON, "note"}

EPISTEMIC_VERIFIED == "verified"
EpistemicStates == {EPISTEMIC_VERIFIED, "user_asserted"}

(* One evidence kind of each class the code tells apart. *)
VERIFICATION_EVIDENCE_KINDS == {"test_result"}
EvidenceKinds == VERIFICATION_EVIDENCE_KINDS \cup {"user_statement"}

SKILL_VERIFIED == "verified"
SKILL_CANDIDATE == "candidate"

(* What a memory says, without the two fields that only describe the call  *)
(* that recorded it.  supporting_evidence_ids is kept by the store as a    *)
(* role on each link, hence a set.                                         *)
Facts == [content : Contents, kind : MemoryKinds, epistemic_state : EpistemicStates,
          supersedes : MemoryIds \cup {NoMemory},
          evidence_ids : EvidenceLists, supporting_evidence_ids : SUBSET EvidenceIds]

MemoryRows == [fact : Facts, recorded_at : Times]

SkillRows == [source_lesson_id : MemoryIds, evidence_ids : EvidenceLists,
              verification_state : {SKILL_VERIFIED, SKILL_CANDIDATE}]

Pairs == {pair \in MemoryIds \X MemoryIds : pair[1] < pair[2]}

EventsOn(kind, Ids) == [kind : {kind}, subject : Ids]

Events == EventsOn("memory_recorded", MemoryIds) \cup EventsOn("memory_superseded", MemoryIds)
          \cup EventsOn("attempt_recorded", AttemptIds) \cup EventsOn("skill_promoted", SkillIds)

Event(kind, id) == [kind |-> kind, subject |-> id]

----------------------------------------------------------------------------
(* Questions about a memories table. *)

HasSuperseder(memories, id) == \E m \in DOMAIN memories : memories[m].fact.supersedes = id

CurrentIds(memories) ==
    DOMAIN memories \ {memories[m].fact.supersedes : m \in DOMAIN memories}

(* (A17) Two memories are the same one recorded twice when every field     *)
(* that carries meaning is equal; the SQL compares supersedes with IS, so  *)
(* two NULLs are equal.                                                    *)
SameMeaning(f, g) ==
    /\ f.content = g.content
    /\ f.kind = g.kind
    /\ f.epistemic_state = g.epistemic_state
    /\ f.supersedes = g.supersedes
    /\ f.evidence_ids = g.evidence_ids
    /\ f.supporting_evidence_ids = g.supporting_evidence_ids

CurrentEquivalents(memories, fact) ==
    {m \in DOMAIN memories : ~HasSuperseder(memories, m) /\ SameMeaning(memories[m].fact, fact)}

(* (A12.1.1) A verified memory names, among the evidence it links, a       *)
(* supporting item whose kind on record can verify something.              *)
Supported(evidence, fact) ==
    /\ fact.supporting_evidence_ids \subseteq Range(fact.evidence_ids)
    /\ fact.epistemic_state = EPISTEMIC_VERIFIED =>
         \E e \in fact.supporting_evidence_ids : evidence[e] \in VERIFICATION_EVIDENCE_KINDS

(* Mutant of Admissible: the kind of the support is never looked up. *)
Admissible_AnyKind(memories, evidence, fact) ==
    /\ Range(fact.evidence_ids) \subseteq DOMAIN evidence
    /\ fact.supporting_evidence_ids \subseteq Range(fact.evidence_ids)
    /\ fact.epistemic_state = EPISTEMIC_VERIFIED => fact.supporting_evidence_ids # {}
    /\ fact.supersedes # NoMemory => fact.supersedes \in DOMAIN memories

(* Every check MemoryStore.add makes before it looks for a duplicate. *)
Admissible(memories, evidence, fact) ==
    /\ Range(fact.evidence_ids) \subseteq DOMAIN evidence
    /\ Supported(evidence, fact)
    /\ fact.supersedes # NoMemory => fact.supersedes \in DOMAIN memories

(* A Skill takes its verification and its provenance from the Lesson.      *)
SkillFrom(memories, lesson) ==
    [source_lesson_id |-> lesson,
     evidence_ids |-> memories[lesson].fact.evidence_ids,
     verification_state |-> IF memories[lesson].fact.epistemic_state = EPISTEMIC_VERIFIED
                            THEN SKILL_VERIFIED ELSE SKILL_CANDIDATE]

IsLesson(memories, id) == id \in DOMAIN memories /\ memories[id].fact.kind = KIND_LESSON

(* Mutant of RecordingEvents: a superseding memory logs only what it ends. *)
RecordingEvents_OnlyEnd(id, fact) ==
    << IF fact.supersedes = NoMemory
       THEN Event("memory_recorded", id) ELSE Event("memory_superseded", fact.supersedes) >>

(* The events one recorded memory is written with. *)
RecordingEvents(id, fact) ==
    IF fact.supersedes = NoMemory
    THEN << Event("memory_recorded", id) >>
    ELSE << Event("memory_recorded", id), Event("memory_superseded", fact.supersedes) >>

----------------------------------------------------------------------------
(* Questions about a whole store. *)

(* No two memories of a table supersede the same one. *)
NeverForks(memories) ==
    \A m, n \in DOMAIN memories :
        memories[m].fact.supersedes = memories[n].fact.supersedes
            /\ memories[m].fact.supersedes # NoMemory => m = n

(* Every event is written once, after the row it names; a memory is        *)
(* recorded by an event, and one that supersedes another adds the event    *)
(* that ends it, the ended memory having been recorded before.             *)
LogMatches(log, memories, attempts, skills) ==
    /\ IsInjective(log)
    /\ \A m \in DOMAIN memories :
         LET ended == memories[m].fact.supersedes IN
         /\ Event("memory_recorded", m) \in Range(log)
         /\ ended # NoMemory =>
              \E i, j, k \in DOMAIN log :
                 /\ i < j /\ j < k
                 /\ log[i] = Event("memory_recorded", ended)
                 /\ log[j] = Event("memory_recorded", m)
                 /\ log[k] = Event("memory_superseded", ended)
    /\ \A i \in DOMAIN log :
         /\ log[i].kind = "memory_recorded" => log[i].subject \in DOMAIN memories
         /\ log[i].kind = "memory_superseded" => HasSuperseder(memories, log[i].subject)
         /\ log[i].kind = "attempt_recorded" => log[i].subject \in DOMAIN attempts
         /\ log[i].kind = "skill_promoted" => log[i].subject \in DOMAIN skills
=============================================================================
