--------------------------- MODULE MCContextCall ---------------------------
(* One workspace, and families of tasks, for TLC. *)
EXTENDS ContextCall, TLC

(* An incident (e1) told by a root cause, a lesson and a failed attempt; a *)
(* second lesson and a second failure of their own; a third pair that only *)
(* a chain of Evidence connects to the incident.                           *)
MCMemories == << "invariant", "cause", "lesson1", "pending", "lesson2", "decision", "cause2", "invalidation" >>
MCAttempts == << "failure", "success", "failure2" >>
MCSkills == << "skill" >>
MCKindOf ==
    "invariant" :> "invariant" @@ "cause" :> "root_cause" @@ "cause2" :> "root_cause"
    @@ "lesson1" :> "lesson" @@ "lesson2" :> "lesson" @@ "pending" :> "pending"
    @@ "decision" :> "decision" @@ "invalidation" :> "invalidation"
MCCites ==
    "invariant" :> << >> @@ "cause" :> << "e1", "e2" >> @@ "cause2" :> << "e2" >>
    @@ "lesson1" :> << "e1" >> @@ "lesson2" :> << "e3" >> @@ "pending" :> << >>
    @@ "decision" :> << >> @@ "invalidation" :> << >>
    @@ "failure" :> << "e1", "e2" >> @@ "success" :> << "e3", "e4" >> @@ "failure2" :> << "e4" >>
    @@ "skill" :> << "e1" >>

MCFloor == "attempt" :> 6 @@ "memory" :> 2 @@ "skill" :> 6
MCMargin == "attempt" :> 2 @@ "memory" :> 2 @@ "skill" :> 2

MCLineLength == [id \in Recorded \cup {"e1", "e2", "e3", "e4"} |-> IF id \in {"cause", "e3"} THEN 4 ELSE 3]
MCHeadingLength == [section \in IdsIn(SectionOrder) |-> IF section = "HISTORY" THEN 3 ELSE 2]

MCIntent == {<< "c" >>}
MCQuery == {<< "a" >>, << "b" >>, << "c" >>}

NoScores == [id \in Recorded |-> 0]
Document(source, t, scores) == [source |-> source, text |-> t, scores |-> scores]
Zeros == [k \in 1..8 |-> 0]
Short1 == << Document("d1", << "a" >>, Zeros) >>

Task(lexical, found, score, conflicts, documents) ==
    [lexical |-> lexical, found |-> found, score |-> score, conflicts |-> conflicts,
     documents |-> documents, query |-> MCQuery, searchable |-> found = {}]

(* How similar the members of the incident and their competitors are. *)
Similar == {"cause", "lesson1", "lesson2", "failure", "success"}
Scorings ==
    {s \in [Similar -> {0, 1, 2, 3, 5, 6, 7}] :
        \A x, y \in Similar : x # y => s[x] # s[y] \/ s[x] = 0}
SimilarityTasks ==
    {Task({}, {"skill"}, s @@ NoScores, {<< "cause", "pending" >>}, Short1) : s \in Scorings}

(* Which words are shared, with contradictions between what is shown and   *)
(* what may not be.                                                        *)
WordTasks ==
    {Task(lexical, {}, NoScores, conflicts, Short1) :
        lexical \in SUBSET (Recorded \ {"skill", "cause2", "invalidation"}),
        conflicts \in {{<< "invariant", "cause" >>, << "cause", "lesson2" >>},
                       {<< "invalidation", "lesson1" >>, << "pending", "decision" >>}}}

(* Two documents that say the same or other things, one of them similar    *)
(* to the task, or only a passage that it no longer has.                   *)
N == Newline
At8 == [Zeros EXCEPT ![8] = 5]
FirstTexts == {<< "a", N, N, "b", N, N, "c" >>, << "x", N, N, "a", N, N, "a" >>, << "x", N, N, "x", "x" >>}
SecondTexts == {<< "b", N, N, "a", " ", "c" >>, << "a", "b", N, N, "c" >>, << "b", " ", "a" >>}
DocumentTasks ==
    {Task({"failure", "pending"}, found, NoScores, {},
          << Document("d1", first, scores1), Document("d2", second, scores2) >>) :
        found \in {{}, {"lesson2"}}, first \in FirstTexts, second \in SecondTexts,
        scores1 \in {Zeros, [At8 EXCEPT ![2] = 4], At8}, scores2 \in {Zeros, [Zeros EXCEPT ![1] = 6]}}

(* All texts of up to seven characters, or five if one may be a tab. *)
Some(characters, most) == UNION {[1..n -> characters] : n \in 0..most}
SmallTexts == Some({"a", " ", N}, 7) \cup Some({"a", " ", N, Tab}, 5)
TextTasks == {Task({}, {}, NoScores, {}, << Document("d1", t, Zeros) >>) : t \in SmallTexts}

MCTasks == SimilarityTasks \cup WordTasks \cup DocumentTasks \cup TextTasks
=============================================================================
