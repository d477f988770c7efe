--------------------------- MODULE MCMemoryStore ---------------------------
(* Small instances of MemoryStore for TLC. *)
EXTENDS MemoryStore, TLC

CONSTANTS p1, p2, text

OneEvidence == {<< >>, << 1 >>}
TwoEvidence == {<< >>, << 1 >>, << 1, 2 >>}

Draft(kind, epistemic_state, evidence_ids, supporting) ==
    [content |-> text, kind |-> kind, epistemic_state |-> epistemic_state,
     evidence_ids |-> evidence_ids, supporting_evidence_ids |-> supporting]

(* A candidate lesson, the lesson verified with evidence supporting it,    *)
(* and verified without.                                                   *)
LessonDrafts ==
    {Draft("lesson", "user_asserted", << >>, {}),
     Draft("lesson", "verified", << 1 >>, {1}),
     Draft("lesson", "verified", << >>, {})}

(* A lesson verified by evidence 1, and a lesson that only cites it. *)
CitingDrafts ==
    {Draft("lesson", "verified", << 1 >>, {1}), Draft("lesson", "user_asserted", << 1 >>, {})}

NoRows == << >>
NoLog == << >>

(* A store migrated from before A12.1 and A17: the same verified lesson    *)
(* twice, with nothing supporting it.                                      *)
LegacyRow == [fact |-> Fact(Draft("lesson", "verified", << >>, {}), NoMemory), recorded_at |-> 0]
TwoLegacyRows == 1 :> LegacyRow @@ 2 :> LegacyRow
TwoLegacyEvents == << Event("memory_recorded", 2), Event("memory_recorded", 1) >>

ProcessSymmetry == Permutations(Processes)
=============================================================================
