-------------------------- MODULE MCMemoryReaders --------------------------
(* Small instances of MemoryReaders for TLC. *)
EXTENDS MemoryReaders, TLC

CONSTANTS p1, r1, text

OneEvidence == {<< >>, << 1 >>}

(* A verified lesson, with the evidence that supports it. *)
SupportedLesson ==
    {[content |-> text, kind |-> KIND_LESSON, epistemic_state |-> EPISTEMIC_VERIFIED,
      evidence_ids |-> << 1 >>, supporting_evidence_ids |-> {1}]}

NoRows == << >>

(* A note that was there before: it and a lesson can both be current, and *)
(* conflict.                                                               *)
OneNote ==
    1 :> [fact |-> [content |-> text, kind |-> "note", epistemic_state |-> "user_asserted",
                    supersedes |-> NoMemory, evidence_ids |-> << >>, supporting_evidence_ids |-> {}],
          recorded_at |-> 0]

OneEvent == << Event("memory_recorded", 1) >>
=============================================================================
