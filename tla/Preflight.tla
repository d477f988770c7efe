------------------------------ MODULE Preflight ------------------------------
(***************************************************************************)
(* What preflight(), guard() and context() find relevant to a task, of     *)
(* what one read of the store gave them (_preflight.py, _guard.py, the     *)
(* admission policies of _semantic.py and their callers in _workspace.py). *)
(*                                                                         *)
(* Four channels admit: the words a text shares with the task, the search  *)
(* index, similarity, and Evidence shared with an attempt admitted by the  *)
(* others.  Which texts the first two admit is given; similarity is a      *)
(* score in an arbitrary unit, 0 for what the index does not hold.  Scores *)
(* that are positive differ, as cosines do: ties are argsort()'s business. *)
(***************************************************************************)
EXTENDS Integers, Sequences, FiniteSets, SequencesExt

CONSTANTS Memories,       \* the current memories, in event-log order
          Attempts,       \* in the order they were recorded
          Skills,
          Failed,         \* attempts; the others succeeded
          KindOf,         \* a kind for each memory
          Verified,       \* memories whose epistemic state is "verified"
          Cites,          \* the evidence_ids of each memory, attempt and skill
          Validating,     \* Evidence of a kind recommended for validation
          Floor, Margin,  \* SEMANTIC_POLICY, for "attempt", "memory" and "skill"
          Band,           \* how far under its floor a memory may be corroborated
          LessonFloor, LessonLimit,
          InvariantFloor, InvariantLimit

VARIABLES task,      \* what each channel says of this task, and the open conflicts
          answers    \* of preflight() and guard(), once they have been computed

IdsIn(ids) == {ids[n] : n \in DOMAIN ids}

Recorded == IdsIn(Memories) \cup IdsIn(Attempts) \cup IdsIn(Skills)

ASSUME PreflightAssumption ==
    /\ \A list \in {Memories, Attempts, Skills} : list \in Seq(IdsIn(list)) /\ IsInjective(list)
    /\ IdsIn(Memories) \cap IdsIn(Attempts) = {}
    /\ \A id \in Recorded : Cites[id] \in Seq(IdsIn(Cites[id]))
    /\ Failed \subseteq IdsIn(Attempts)
    /\ Verified \subseteq IdsIn(Memories)
    /\ DOMAIN KindOf = IdsIn(Memories) /\ DOMAIN Cites = Recorded
    /\ DOMAIN Floor = {"attempt", "memory", "skill"} /\ DOMAIN Margin = DOMAIN Floor
    /\ \A pool \in DOMAIN Floor : Floor[pool] \in Nat /\ Margin[pool] \in Nat \ {0}
    /\ {Band, LessonFloor, LessonLimit, InvariantFloor, InvariantLimit} \subseteq Nat
    /\ Floor["memory"] < LessonFloor

Evidence(id) == IdsIn(Cites[id])

(* A list without what is at other places, or is not wanted, in its order. *)
Nth(places, n) == CHOOSE k \in places : Cardinality({j \in places : j <= k}) = n

Picked(list, places) == [n \in 1..Cardinality(places) |-> list[Nth(places, n)]]

Those(list, wanted) == Picked(list, {n \in DOMAIN list : list[n] \in wanted})

OfKind(kind) == Those(Memories, {m \in IdsIn(Memories) : KindOf[m] = kind})

RootCauses == OfKind("root_cause")
VerifiedLessons == Those(OfKind("lesson"), Verified)
Invariants == OfKind("invariant")
Invalidations == OfKind("invalidation")
Pending == OfKind("pending")
Decisions == OfKind("decision")

----------------------------------------------------------------------------
(* Admission by similarity (_semantic.py).  A pool is restricted to what   *)
(* its consumer can use before it is ranked.                               *)

Score(id) == task.score[id]

Ranked(pool) == {id \in pool : Score(id) > 0}

Tops(id, ranked) == id \in ranked /\ \A other \in ranked : Score(other) <= Score(id)

(* semantic_admitted_id(): the best, if it is good enough and no other is  *)
(* close.                                                                  *)
SingleWinner(pool, policy) ==
    LET ranked == Ranked(pool)
    IN  {id \in ranked :
            /\ Score(id) >= Floor[policy]
            /\ \A other \in ranked \ {id} :
                 Score(id) > Score(other) /\ Score(id) - Score(other) >= Margin[policy]}

(* set_admitted_ids(): the best few of those that are good enough. *)
SetAdmitted(score, pool, floor, limit) ==
    LET ranked == {id \in pool : score[id] > 0}
    IN  {id \in ranked :
            /\ score[id] >= floor
            /\ Cardinality({other \in ranked : score[other] > score[id]}) < limit}

SharesEvidence(a, b) == Evidence(a) \cap Evidence(b) # {}

(* One experience: the candidates that shared Evidence leads to from one.  *)
Experience(start, ranked) ==
    {id \in ranked : \A part \in SUBSET ranked :
        /\ start \in part
        /\ \A a \in part, b \in ranked : SharesEvidence(a, b) => b \in part
        => id \in part}

Candidates == IdsIn(RootCauses) \cup IdsIn(VerifiedLessons)
Lessons == IdsIn(VerifiedLessons)

(* _preflight_memory_semantic_widen(): the experience of the best          *)
(* candidate competes with those outside it, and is admitted whole.  The   *)
(* mutant knows one floor.                                                 *)
Represents_OneFloor(top, ranked) ==
    /\ Tops(top, ranked)
    /\ Score(top) >= Floor["memory"]

Represents(top, ranked) ==
    /\ Tops(top, ranked)
    /\ Score(top) >= Floor["memory"]
    /\ top \in Lessons => Score(top) >= LessonFloor
    /\ ~(Experience(top, ranked) \subseteq Lessons)

ExperienceAdmitted ==
    LET ranked == Ranked(Candidates)
    IN  UNION {LET experience == Experience(top, ranked)
               IN  IF \A other \in ranked \ experience : Score(top) - Score(other) >= Margin["memory"]
                     THEN experience ELSE {} :
                   top \in {id \in ranked : Represents(id, ranked)}}

(* _preflight_corroboration_admitted(): the best candidate, when an        *)
(* attempt that cites the same Evidence is relevant on its own.            *)
Corroborated ==
    LET ranked == Ranked(Candidates)
        Related(id) == {a \in IdsIn(Attempts) : SharesEvidence(a, id)}
    IN  {id \in ranked :
            /\ Tops(id, ranked)
            /\ Score(id) >= Floor["memory"] - Band
            /\ \/ Related(id) \cap task.lexical # {}
               \/ SingleWinner(Related(id), "attempt") # {}}

(* The union of pools that do not compete with one another. *)
SimilarMemories ==
    LET admitted == ExperienceAdmitted
    IN  UNION {IF admitted # {} THEN admitted ELSE Corroborated,
               SingleWinner(IdsIn(Invalidations), "memory"),
               SingleWinner(IdsIn(Pending), "memory"),
               SetAdmitted(task.score, Lessons, LessonFloor, LessonLimit)}

SimilarInvariants == SetAdmitted(task.score, IdsIn(Invariants), InvariantFloor, InvariantLimit)
SimilarDecisions == SingleWinner(IdsIn(Decisions), "memory")

----------------------------------------------------------------------------
(* build_relevance_context(), build_preflight() *)

Matches(similar, id) == id \in task.lexical \cup task.found \cup similar

RelevantAttempts ==
    LET similar == SingleWinner(IdsIn(Attempts), "attempt")
    IN  Those(Attempts, {a \in IdsIn(Attempts) : Matches(similar, a)})

KnownFailures == Those(RelevantAttempts, Failed)
RelevantSuccesses == Those(RelevantAttempts, IdsIn(Attempts) \ Failed)

Relevant(similar, memories) ==
    LET evidence == UNION {Evidence(a) : a \in IdsIn(RelevantAttempts)}
    IN  Those(memories,
              {m \in IdsIn(memories) : Matches(similar, m) \/ Evidence(m) \cap evidence # {}})

WithoutRepeats(list) == Picked(list, {n \in DOMAIN list : \A k \in 1..(n - 1) : list[k] # list[n]})

(* What is cited, in the order it is first cited, and can be run again. *)
ValidationOf(citing) ==
    Those(WithoutRepeats(FlattenSeq([n \in DOMAIN citing |-> Cites[citing[n]]])), Validating)

(* A conflict is told when either memory is of concern. *)
Discloses(pair, concerned) == {pair[1], pair[2]} \cap concerned # {}

PreflightAnswer ==
    LET similar == SimilarMemories
        Shown(memories) == Relevant(similar, memories)
        concerned == IdsIn(Shown(RootCauses \o VerifiedLessons \o Invalidations \o Memories))
    IN  [known_failures |-> KnownFailures,
         root_causes |-> Shown(RootCauses),
         verified_lessons |-> Shown(VerifiedLessons),
         recommended_validation |-> ValidationOf(Shown(VerifiedLessons) \o RelevantSuccesses),
         invariants |-> Invariants,
         open_invalidations |-> Shown(Invalidations),
         pending |-> Shown(Pending),
         open_conflicts |-> {pair \in task.conflicts : Discloses(pair, concerned)}]

(* What context() adds: invariants, only the relevant ones, and decisions. *)
RelevantInvariants == Relevant(SimilarInvariants, Invariants)
RelevantDecisions == Relevant(SimilarDecisions, Decisions)

----------------------------------------------------------------------------
(* guard(), build_guard_result() *)

ApplicableSkills ==
    Those(Skills, {s \in IdsIn(Skills) : Matches(SingleWinner(IdsIn(Skills), "skill"), s)})

(* A failure is reported if a Skill that applies cites the same Evidence,  *)
(* and it is relevant itself; only failures compete.  The mutant takes the *)
(* Skill's word for it.                                                    *)
Warns_BySkill(a) == \E n \in DOMAIN ApplicableSkills : SharesEvidence(ApplicableSkills[n], a)

Warns(a) ==
    /\ \E n \in DOMAIN ApplicableSkills : SharesEvidence(ApplicableSkills[n], a)
    /\ Matches(SingleWinner(Failed, "attempt"), a)

GuardAnswer ==
    [known_failures |-> Those(Attempts, {a \in Failed : Warns(a)}),
     applicable_skills |-> ApplicableSkills,
     recommended_validation |-> ValidationOf(ApplicableSkills)]

----------------------------------------------------------------------------
NoAnswers == << >>

Select ==
    /\ answers = NoAnswers
    /\ answers' = [preflight |-> PreflightAnswer, guard |-> GuardAnswer]
    /\ UNCHANGED task

----------------------------------------------------------------------------
(* Properties *)

Scored(ids) == {id \in ids : id \in task.lexical \cup task.found}

(* A verified lesson is eligible in two pools, one with a lower floor and  *)
(* no cap.  It gets in through neither's gap: a lesson in preflight()      *)
(* shares words with the task, or is one of the few best lessons over      *)
(* their own floor, or Evidence leads from it to something other than a    *)
(* lesson that is relevant (A23.4).  An attempt counts when it shares      *)
(* words, or stands out among those that cite the same Evidence.           *)
LessonsEarnTheirPlace ==
    answers # NoAnswers =>
    \A lesson \in IdsIn(answers.preflight.verified_lessons) :
        \/ Scored({lesson}) # {}
        \/ /\ Score(lesson) >= LessonFloor
           /\ Cardinality({l \in Lessons : Score(l) > Score(lesson)}) < LessonLimit
        \/ \E a \in IdsIn(Attempts) :
             /\ SharesEvidence(a, lesson)
             /\ \/ Scored({a}) # {}
                \/ /\ Score(a) >= Floor["attempt"]
                   /\ \A b \in IdsIn(Attempts) :
                        SharesEvidence(b, lesson) => Score(b) <= Score(a)
        \/ \E cause \in IdsIn(RootCauses) :
             /\ lesson \in Ranked(Candidates)
             /\ cause \in Experience(lesson, Ranked(Candidates))
             /\ \E top \in Experience(lesson, Ranked(Candidates)) :
                  Score(top) >= IF top \in Lessons THEN LessonFloor ELSE Floor["memory"]

(* guard() is preflight() with a stricter rule: each failure it warns of   *)
(* is in preflight() too.  One exception: an attempt that succeeded is as  *)
(* similar, and takes from the failure the one place preflight() has.      *)
GuardWithinPreflight ==
    answers # NoAnswers =>
    \A a \in IdsIn(answers.guard.known_failures) \ IdsIn(answers.preflight.known_failures) :
        /\ Scored({a}) = {} /\ Score(a) >= Floor["attempt"]
        /\ \E other \in IdsIn(Attempts) \ Failed :
             Score(other) > 0 /\ Score(a) - Score(other) < Margin["attempt"]
=============================================================================
