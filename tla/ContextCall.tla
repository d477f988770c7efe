----------------------------- MODULE ContextCall -----------------------------
(***************************************************************************)
(* context() over its documents: each is cut into passages (Chunking), the *)
(* passages of the relevant ones are ordered across documents and thinned  *)
(* (_preflight.py), and what remains is compiled with the rest             *)
(* (ContextCompiler).  A document's own words decide whether the first two *)
(* channels admit it; similarity is given passage by passage.              *)
(*                                                                         *)
(* A document is [source, text, scores], in order of path, as              *)
(* list_current_source_evidence() returns them; the task has one at least. *)
(***************************************************************************)
EXTENDS Chunking, ContextCompiler

CONSTANTS IntentTerms,    \* tokens that say what kind of answer is wanted
          IntentWeight,
          EvidenceFloor, EvidenceLimit,
          SourceLength,   \* of the line that names a passage's document
          Tasks           \* what is asked, of which documents

ASSUME CallAssumption ==
    /\ {IntentWeight, EvidenceFloor, EvidenceLimit, SourceLength} \subseteq Nat \ {0}
    /\ \A t \in Tasks :
         /\ t.score \in [Recorded -> Nat]
         /\ t.conflicts \subseteq IdsIn(Memories) \X IdsIn(Memories)
         /\ IsFiniteSet(t.query)
         /\ t.documents \in Seq(IdsIn(t.documents)) \ {<< >>}
         /\ \A d \in IdsIn(t.documents) :
              d.text \in Texts /\ d.source \notin Recorded /\ d.scores \in [DOMAIN d.scores -> Nat]
         /\ \A d, e \in DOMAIN t.documents : d # e =>
              IdsIn(t.documents[d].scores) \cap IdsIn(t.documents[e].scores) \subseteq {0}

VARIABLES cuts,    \* the spans of each document cut so far
          choice   \* among their passages: [waiting, passages, covered, represented]

callVars == << chunking, task, answers, fill, cuts, choice >>

Documents == DOMAIN task.documents
Count(d) == Len(cuts[d])

----------------------------------------------------------------------------
(* Words (_relevance.py, _retrieval.py): a token is a run of word          *)
(* characters.                                                             *)

IsToken(t, i, j) ==
    /\ i <= j /\ \A k \in i..j : t[k] \in Words
    /\ i = 1 \/ t[i - 1] \notin Words
    /\ j = Len(t) \/ t[j + 1] \notin Words

Tokens(t) ==
    {SubSeq(t, ends[1], ends[2]) :
        ends \in {e \in (1..Len(t)) \X (1..Len(t)) : IsToken(t, e[1], e[2])}}

Majority(n) == n \div 2 + 1

(* is_relevant(): more than half of the query. *)
IsRelevant(query, tokens) ==
    query # {} /\ Cardinality(query \cap tokens) >= Majority(Cardinality(query))

(* fts_admitted_ids(): more than half of the shorter of the two, but never *)
(* less than half of what the query alone would ask.                       *)
FtsAdmits(query, tokens) ==
    LET q == Cardinality(query)
        c == Cardinality(tokens)
        shared == Cardinality(query \cap tokens)
    IN  q > 0 /\ shared >= Majority(IF q < c THEN q ELSE c) /\ shared >= Majority(q) \div 2

(* _weighted_overlap() *)
WeightedOverlap(tokens) ==
    LET shared == task.query \cap tokens
        intent == shared \cap IntentTerms
    IN  Cardinality(shared)
          + IF shared = intent THEN 0 ELSE (IntentWeight - 1) * Cardinality(intent)

----------------------------------------------------------------------------
(* Passages *)

PassageText(d, k) ==
    SubSeq(task.documents[d].text, cuts[d][k][1] + 1, cuts[d][k][2])

PassageTokens(d, k) == Tokens(PassageText(d, k))

(* _context_evidence_semantic_admitted(): a document is as similar as its  *)
(* most similar passage is.                                                *)
PassageScore(d, k) ==
    LET scores == task.documents[d].scores
    IN  IF k \in DOMAIN scores THEN scores[k] ELSE 0

DocumentScore(d) == Max({PassageScore(d, k) : k \in 1..Count(d)})

SimilarDocuments ==
    SetAdmitted([d \in Documents |-> DocumentScore(d)], Documents, EvidenceFloor, EvidenceLimit)

(* evidence_admission() *)
Admitted ==
    {d \in Documents :
        LET tokens == Tokens(task.documents[d].text)
        IN  \/ IsRelevant(task.query, tokens)
            \/ task.searchable /\ FtsAdmits(task.query, tokens)
            \/ d \in SimilarDocuments}

(* score_evidence_chunks(): the passages that share a word, the first if   *)
(* none does.                                                              *)
Overlap(d, k) == WeightedOverlap(PassageTokens(d, k))

Surviving(d) ==
    LET sharing == {k \in 1..Count(d) : Overlap(d, k) > 0}
    IN  IF sharing = {} \/ Count(d) = 1 THEN {1} ELSE sharing

Passage(d, k) ==
    [document |-> d, index |-> k, overlap |-> Overlap(d, k),
     similarity |-> IF d \in SimilarDocuments THEN DocumentScore(d) ELSE 0]

(* ordered_project_evidence(): by relevance, and only then by name. *)
Before(p, q) ==
    LET Key(x) == << -x.overlap, -x.similarity, x.document, x.index >>
    IN  \E n \in 1..4 : Key(p)[n] < Key(q)[n] /\ \A m \in 1..(n - 1) : Key(p)[m] = Key(q)[m]

Relevants == UNION {{Passage(d, k) : k \in Surviving(d)} : d \in Admitted}

(* minimum_sufficient_project_evidence(): a passage is kept if it is the   *)
(* first, says more of the query than those kept, or is the first of a     *)
(* document found by similarity.  The mutant looks at the words only.      *)
Adds(kept, p) == (task.query \cap PassageTokens(p.document, p.index)) \ kept.covered

Earns_ByWords(kept, p) == kept.passages = << >> \/ Adds(kept, p) # {}

Earns(kept, p) ==
    \/ kept.passages = << >>
    \/ Adds(kept, p) # {}
    \/ p.document \in SimilarDocuments \ kept.represented

Considered(kept, p) ==
    IF Earns(kept, p)
      THEN [waiting |-> kept.waiting \ {p},
            passages |-> Append(kept.passages, p),
            covered |-> kept.covered \cup Adds(kept, p),
            represented |-> kept.represented \cup {p.document}]
      ELSE [kept EXCEPT !.waiting = @ \ {p}]

(* A piece of a document says which, of how many. *)
OfPassages(passages) ==
    [n \in DOMAIN passages |->
        LET d == passages[n].document
            k == passages[n].index
        IN  [section |-> "PROJECT EVIDENCE", item |-> task.documents[d].source,
             piece |-> k, cited |-> {}, absorbed |-> << >>, conflicts |-> {},
             length |-> Len(PassageText(d, k)) + SourceLength + IF Count(d) > 1 THEN IdLength ELSE 0]]

----------------------------------------------------------------------------
NoChoice == << >>

CallInit ==
    /\ task \in Tasks
    /\ text = task.documents[1].text
    /\ ChunkInit
    /\ answers = NoAnswers
    /\ CompilerInit
    /\ cuts = << >>
    /\ choice = NoChoice

(* preflight()'s answer comes first, as its documents are not looked into. *)
Choose == Select /\ UNCHANGED << chunking, fill, cuts, choice >>

ChunkStep == answers # NoAnswers /\ ChunkNext /\ UNCHANGED << task, answers, fill, cuts, choice >>

AllCut == Len(cuts) = Len(task.documents)

NextDocument ==
    /\ Chunked /\ ~AllCut
    /\ cuts' = Append(cuts, spans)
    /\ IF Len(cuts) + 1 < Len(task.documents)
         THEN /\ text' = task.documents[Len(cuts) + 2].text
              /\ cursor' = 0 /\ part' = NoPart /\ spans' = << >>
         ELSE UNCHANGED chunking
    /\ UNCHANGED << task, answers, fill, choice >>

(* The relevant passages are sorted, and then considered one by one.       *)
Sort ==
    /\ AllCut /\ choice = NoChoice
    /\ choice' = [waiting |-> Relevants, passages |-> << >>, covered |-> {}, represented |-> {}]
    /\ UNCHANGED << chunking, task, answers, fill, cuts >>

Consider ==
    /\ choice # NoChoice
    /\ \E p \in choice.waiting :
         /\ \A q \in choice.waiting \ {p} : Before(p, q)
         /\ choice' = Considered(choice, p)
    /\ UNCHANGED << chunking, task, answers, fill, cuts >>

IsChosen == choice # NoChoice /\ choice.waiting = {}

Compile ==
    /\ IsChosen
    /\ Compose(OfPassages(choice.passages))
    /\ UNCHANGED << chunking, task, answers, cuts, choice >>

Fill == Advance /\ UNCHANGED << chunking, task, answers, cuts, choice >>

CallNext == Choose \/ ChunkStep \/ NextDocument \/ Sort \/ Consider \/ Compile \/ Fill

CallSpec == CallInit /\ [][CallNext]_callVars

----------------------------------------------------------------------------
(* Properties *)

TokensOf(passages) ==
    UNION {task.query \cap PassageTokens(p.document, p.index) : p \in passages}

(* What is left out as redundant is: the passages kept say as much of the  *)
(* query as all relevant ones do, in order of relevance, each document     *)
(* found by similarity has one, and there are no more than these reasons   *)
(* allow.                                                                  *)
SufficientCoverage ==
    IsChosen =>
        LET sufficient == choice.passages
        IN  /\ TokensOf(IdsIn(sufficient)) = TokensOf(Relevants)
            /\ {p.document : p \in Relevants} \cap SimilarDocuments
                 \subseteq {p.document : p \in IdsIn(sufficient)}
            /\ IdsIn(sufficient) \subseteq Relevants
            /\ sufficient = << >> => Relevants = {}
            /\ \A m, n \in DOMAIN sufficient : m < n => Before(sufficient[m], sufficient[n])
            /\ Len(sufficient) <= 1 + Cardinality(task.query) + EvidenceLimit

=============================================================================
