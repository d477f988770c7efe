--------------------------- MODULE ContextCompiler ---------------------------
(***************************************************************************)
(* compile_context() (src/urdyn/_context.py): what context() found         *)
(* relevant, one candidate after another in a fixed order of sections,     *)
(* until one does not fit the budget.  The model compiles the same         *)
(* candidates for several budgets side by side, because what must hold is  *)
(* about two budgets.                                                      *)
(*                                                                         *)
(* A candidate is [section, item, piece (of a document, or 0), cited       *)
(* (Evidence), absorbed (attempts told on its line), conflicts (memories), *)
(* length].  Lengths are in characters; what a line says besides its ids   *)
(* is in a constant.                                                       *)
(***************************************************************************)
EXTENDS Preflight

CONSTANTS Budgets,
          LineLength,     \* of the first line of each memory, attempt and Evidence
          HeadingLength,  \* of each section
          IdLength        \* of an id in a line of citations

SectionOrder ==
    << "CONSTRAINTS", "OPEN RISKS", "LESSONS", "DECISIONS", "PROJECT EVIDENCE", "HISTORY", "VALIDATION" >>

ASSUME ContextAssumption ==
    /\ Budgets \subseteq Nat \ {0}
    /\ Recorded \cup UNION {Evidence(id) : id \in Recorded} \subseteq DOMAIN LineLength
    /\ \A id \in DOMAIN LineLength : LineLength[id] \in Nat
    /\ HeadingLength \in [IdsIn(SectionOrder) -> Nat]
    /\ IdLength \in Nat
    /\ \A id \in Recorded : Evidence(id) \cap Recorded = {}

VARIABLE fill   \* for each budget: [phase, left, pool, taken, used, total]

----------------------------------------------------------------------------
(* The candidates *)

(* _conflict_partner_map() *)
Partners(m) == {other \in IdsIn(Memories) : << m, other >> \in task.conflicts \/ << other, m >> \in task.conflicts}

(* _absorb_known_failures(): an attempt is told on the line of the first   *)
(* root cause that cites the same Evidence.  The mutant lets every one of  *)
(* them tell it.                                                           *)
Absorbs_Each(causes, n, a) == SharesEvidence(causes[n], a)

Absorbs(causes, n, a) ==
    /\ SharesEvidence(causes[n], a)
    /\ \A k \in 1..(n - 1) : ~SharesEvidence(causes[k], a)

Absorbed(causes, n, failures) == Those(failures, {a \in IdsIn(failures) : Absorbs(causes, n, a)})

Standalone(causes, failures) ==
    Those(failures, {a \in IdsIn(failures) : \A n \in DOMAIN causes : ~Absorbs(causes, n, a)})

Citations(ids) == IF ids = {} THEN 0 ELSE 1 + IdLength * Cardinality(ids)

(* _render_item(): a line, and one more each for the attempts and the      *)
(* memories it names.                                                      *)
Candidate(section, id, absorbed, conflicts) ==
    [section |-> section, item |-> id, piece |-> 0, cited |-> Evidence(id),
     absorbed |-> absorbed, conflicts |-> conflicts,
     length |-> LineLength[id] + Citations(IdsIn(absorbed)) + Citations(conflicts)]

OfMemories(section, memories) ==
    [n \in DOMAIN memories |-> Candidate(section, memories[n], << >>, Partners(memories[n]))]

OfCauses(causes, failures) ==
    [n \in DOMAIN causes |->
        Candidate("HISTORY", causes[n], Absorbed(causes, n, failures), Partners(causes[n]))]

OfAttempts(attempts) == [n \in DOMAIN attempts |-> Candidate("HISTORY", attempts[n], << >>, {})]

OfEvidence(evidence) ==
    [n \in DOMAIN evidence |->
        [section |-> "VALIDATION", item |-> evidence[n], piece |-> 0, cited |-> {},
         absorbed |-> << >>, conflicts |-> {}, length |-> LineLength[evidence[n]]]]

(* All but VALIDATION; passages are the candidates of PROJECT EVIDENCE. *)
Composed(view, passages) ==
    OfMemories("CONSTRAINTS", RelevantInvariants)
    \o OfMemories("OPEN RISKS", view.pending)
    \o OfMemories("LESSONS", view.verified_lessons)
    \o OfMemories("DECISIONS", RelevantDecisions)
    \o passages
    \o OfCauses(view.root_causes, view.known_failures)
    \o OfAttempts(Standalone(view.root_causes, view.known_failures))

----------------------------------------------------------------------------
(* The budget *)

Idle == [phase |-> "idle", left |-> << >>, pool |-> << >>, taken |-> << >>, used |-> 0, total |-> 0]

CompilerInit == fill = [b \in Budgets |-> Idle]

(* An item costs its lines, and the heading of a section it opens. *)
Opens(f, candidate) == \A n \in DOMAIN f.taken : f.taken[n].section # candidate.section

Cost(f, candidate) ==
    candidate.length + 1
      + IF Opens(f, candidate) THEN HeadingLength[candidate.section] + 1 ELSE 0

(* The mutant tries the rest when an item does not fit. *)
Offered_Skips(f, budget) ==
    LET head == Head(f.left)
    IN  IF f.used + Cost(f, head) > budget
          THEN [f EXCEPT !.left = Tail(@)]
          ELSE [f EXCEPT !.left = Tail(@), !.taken = Append(@, head), !.used = @ + Cost(f, head)]

(* The first that does not fit ends the selection.  If that is before      *)
(* VALIDATION, all that could have been cited counts as left out.          *)
Offered(f, budget) ==
    LET head == Head(f.left)
    IN  IF f.used + Cost(f, head) > budget
          THEN [f EXCEPT !.phase = "cut", !.left = << >>, !.pool = << >>, !.total = @ + Len(f.pool)]
          ELSE [f EXCEPT !.left = Tail(@), !.taken = Append(@, head), !.used = @ + Cost(f, head)]

(* Only what an item that was taken cites is worth validating with. *)
CitedBy(taken) == UNION {taken[n].cited : n \in DOMAIN taken}

Turned(f) ==
    LET items == Those(f.pool, CitedBy(f.taken))
    IN  [f EXCEPT !.phase = "validation", !.pool = << >>,
                  !.left = OfEvidence(items), !.total = @ + Len(items)]

Advanced(f, budget) ==
    CASE f.phase \in {"candidates", "validation"} /\ f.left # << >> -> Offered(f, budget)
      [] f.phase = "candidates" /\ f.left = << >> -> Turned(f)
      [] f.phase = "validation" /\ f.left = << >> -> [f EXCEPT !.phase = "done"]
      [] OTHER -> f

Compose(passages) ==
    LET view == answers.preflight
        candidates == Composed(view, passages)
    IN  /\ answers # NoAnswers
        /\ fill = [b \in Budgets |-> Idle]
        /\ fill' = [b \in Budgets |->
                      [phase |-> "candidates", left |-> candidates, pool |-> view.recommended_validation,
                       taken |-> << >>, used |-> 0, total |-> Len(candidates)]]

IsCompiled(f) == f.phase \in {"cut", "done"}

Advance ==
    /\ \E b \in Budgets : fill[b].phase # "idle" /\ ~IsCompiled(fill[b])
    /\ fill' = [b \in Budgets |-> Advanced(fill[b], b)]

Omitted(f) == f.total - Len(f.taken)

----------------------------------------------------------------------------
(* Properties *)

(* The characters of a selection, each at its place on its line: render()  *)
(* opens each section that has an item with its heading.                   *)
SectionsOf(f) == {f.taken[n].section : n \in DOMAIN f.taken}

Rendered(f) ==
    Cardinality(UNION {{section} \X (0..HeadingLength[section]) : section \in SectionsOf(f)})
    + Cardinality(UNION {{n} \X (0..f.taken[n].length) : n \in DOMAIN f.taken})

(* What is accounted for is what is rendered, and is within the budget;    *)
(* and a smaller budget's context is the beginning of a larger one's, and  *)
(* admits to leaving out no less.                                          *)
PrefixRule ==
    \A b \in Budgets :
        /\ Rendered(fill[b]) = fill[b].used /\ fill[b].used <= b
        /\ \A larger \in Budgets : b < larger =>
             /\ IsPrefix(fill[b].taken, fill[larger].taken)
             /\ IsCompiled(fill[b]) /\ IsCompiled(fill[larger])
                  => Omitted(fill[larger]) <= Omitted(fill[b])

Items(f) == {f.taken[n].item : n \in DOMAIN f.taken}

TellingOf(f, a) == {n \in DOMAIN f.taken : f.taken[n].item = a \/ a \in IdsIn(f.taken[n].absorbed)}

FailuresOnce(f) == \A a \in IdsIn(Attempts) : Cardinality(TellingOf(f, a)) <= 1

ChecksCited(f) ==
    \A n \in DOMAIN f.taken : f.taken[n].section = "VALIDATION" =>
        \E k \in 1..(n - 1) : f.taken[n].item \in f.taken[k].cited

NothingDropped(f) ==
    f.phase = "done" =>
        /\ \A shown \in {"root_causes", "verified_lessons", "pending"} :
             IdsIn(answers.preflight[shown]) \subseteq Items(f)
        /\ \A n \in DOMAIN answers.preflight.known_failures :
             TellingOf(f, answers.preflight.known_failures[n]) # {}

ContradictionsTold(f) ==
    \A pair \in task.conflicts : \A n \in DOMAIN f.taken :
        /\ f.taken[n].item = pair[1] => pair[2] \in f.taken[n].conflicts
        /\ f.taken[n].item = pair[2] => pair[1] \in f.taken[n].conflicts
        /\ /\ f.taken[n].item \in {pair[1], pair[2]}
           /\ f.taken[n].section \in {"OPEN RISKS", "LESSONS", "HISTORY"}
           => pair \in answers.preflight.open_conflicts

(* A failure is never told twice, on its own line or on a root cause's;    *)
(* each check listed under VALIDATION was cited by something listed above; *)
(* when the budget cuts nothing off, context() tells what preflight()      *)
(* does, each root cause, lesson, pending work and failure; and neither    *)
(* shows one of these without the open conflicts it is in.                 *)
ToldOnce ==
    \A b \in Budgets :
        /\ FailuresOnce(fill[b])
        /\ ChecksCited(fill[b])
        /\ NothingDropped(fill[b])
        /\ ContradictionsTold(fill[b])
=============================================================================
