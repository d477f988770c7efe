---------------------------- MODULE MemoryReaders ----------------------------
(***************************************************************************)
(* The read side of the canonical store.  A read opens a connection and    *)
(* runs several SELECTs with no transaction around them, so between two of *)
(* them other processes commit.  What makes the answers coherent is the    *)
(* order of the SELECTs and that rows are only ever added; both are the    *)
(* subject of this module.                                                 *)
(***************************************************************************)
EXTENDS MemoryStore

CONSTANTS Readers, Operations

VARIABLES call,     \* what each reader is doing
          moments   \* history: what the answer would have been at each SELECT of the
                    \* call, at the first one only for the experience

allVars == << vars, call, moments >>

ASSUME ReaderAssumption ==
    Operations \subseteq {"state", "timeline", "recall", "conflicts", "open_conflicts", "experience"}

(* The subjects of the events of one kind, each at its place in the log:   *)
(* the order in which they are read.                                       *)
Subjects(kind) == [i \in {n \in DOMAIN log : log[n].kind = kind} |-> log[i].subject]

(* What each SELECT returns if it runs now: the ids of the current         *)
(* memories, the memories table, the memory_recorded events, the links and *)
(* the roles kept in memory_evidence, the pairs of memory_conflicts, the   *)
(* attempt_recorded events, the links of the attempts, the evidence table. *)
Database ==
    [current |-> CurrentIds(memories),
     rows |-> memories,
     log |-> Subjects("memory_recorded"),
     links |-> [m \in DOMAIN memories |-> memories[m].fact.evidence_ids],
     roles |-> [m \in DOMAIN memories |-> memories[m].fact.supporting_evidence_ids],
     pairs |-> DOMAIN conflicts,
     known |-> DOMAIN memories,
     attempted |-> Subjects("attempt_recorded"),
     cited |-> attempts,
     evidence |-> DOMAIN evidence]

(* The SELECTs of each operation, in order.  timeline() then fetches the   *)
(* row of each logged memory, which a row that never changes makes one     *)
(* read of the table; so does list_attempts().  _gather_experience(), what *)
(* preflight() and context() know, is state(), conflicts() and             *)
(* list_attempts() in a row, and then the evidence they name.              *)
SelectOrder ==
    [state |-> << "current", "log", "links", "roles", "rows" >>,
     timeline |-> << "log", "links", "roles", "rows" >>,
     recall |-> << "rows", "links", "roles" >>,
     conflicts |-> << "pairs", "known" >>,
     open_conflicts |-> << "pairs", "known", "current" >>,
     experience |-> << "current", "log", "links", "roles", "rows", "pairs", "known",
                       "attempted", "cited", "evidence" >>]

(* Mutants of Selects: state() reads the current ids after the timeline;   *)
(* list_conflicts() learns which memories exist before it reads the pairs; *)
(* open_conflicts() reads the current ids before the pairs.                *)
Selects_CurrentLast(operation) ==
    [SelectOrder EXCEPT !.state = << "log", "links", "roles", "rows", "current" >>][operation]

Selects_KnownFirst(operation) ==
    [SelectOrder EXCEPT !.conflicts = << "known", "pairs" >>][operation]

Selects_CurrentFirst(operation) ==
    [SelectOrder EXCEPT !.open_conflicts = << "current", "pairs", "known" >>][operation]

Selects(operation) == SelectOrder[operation]

----------------------------------------------------------------------------
(* The answers, computed from what was read. *)

Lookup(map, id, default) == IF id \in DOMAIN map THEN map[id] ELSE default

(* A row, and the links and roles its maps hold for it. *)
Assembled(view, id) ==
    [id |-> id,
     row |-> [view.rows[id] EXCEPT
                !.fact.evidence_ids = Lookup(view.links, id, << >>),
                !.fact.supporting_evidence_ids = Lookup(view.roles, id, {})]]

(* The memories of the log that are current, in its order. *)
Told(view) == Restrict(view.log, {i \in DOMAIN view.log : view.log[i] \in view.current})

BothIn(pairs, ids) == {pair \in pairs : {pair[1], pair[2]} \subseteq ids}

(* The evidence of the verified lessons told and of the attempts. *)
IsVerifiedLesson(fact) == fact.kind = KIND_LESSON /\ fact.epistemic_state = EPISTEMIC_VERIFIED

Needed(view) ==
    UNION ({Range(Lookup(view.links, id, << >>)) :
              id \in {m \in Range(Told(view)) : IsVerifiedLesson(view.rows[m].fact)}}
           \cup {Range(view.cited[a]) : a \in Range(view.attempted)})

(* The event log names a memory or an attempt, a conflict names a memory,  *)
(* or what is told names an item of evidence, that is not found:           *)
(* UrdynStorageError.                                                      *)
LogBroken(view) == ~(Range(view.log) \subseteq DOMAIN view.rows)

PairsBroken(view) == \E pair \in view.pairs : ~({pair[1], pair[2]} \subseteq view.known)

IsCorrupt(c) ==
    CASE c.operation \in {"state", "timeline"} -> LogBroken(c.view)
      [] c.operation \in {"conflicts", "open_conflicts"} -> PairsBroken(c.view)
      [] c.operation = "experience" ->
            \/ LogBroken(c.view) \/ PairsBroken(c.view)
            \/ ~(Range(c.view.attempted) \subseteq DOMAIN c.view.cited)
            \/ ~(Needed(c.view) \subseteq c.view.evidence)
      [] OTHER -> FALSE

Answer(operation, view) ==
    CASE operation = "timeline" -> [i \in DOMAIN view.log |-> Assembled(view, view.log[i])]
      [] operation = "state" ->
            [i \in DOMAIN Told(view) |-> Assembled(view, Told(view)[i])]
      [] operation = "recall" -> {Assembled(view, id) : id \in CurrentIds(view.rows)}
      [] operation = "conflicts" -> view.pairs
      [] operation = "open_conflicts" -> BothIn(view.pairs, view.current)
      [] operation = "experience" ->
            [memories |-> [i \in DOMAIN Told(view) |-> Assembled(view, Told(view)[i])],
             conflicts |-> BothIn(view.pairs, view.current)]

----------------------------------------------------------------------------
NoCall == [operation |-> "none"]

ReadInit ==
    /\ call = [r \in Readers |-> NoCall]
    /\ moments = [r \in Readers |-> << >>]

Select(view, what) == [w \in DOMAIN view \cup {what} |-> IF w = what THEN Database[what] ELSE view[w]]

BeginRead(r) ==
    /\ call[r] = NoCall
    /\ \E operation \in Operations :
         call' = [call EXCEPT ![r] =
                    [operation |-> operation, left |-> Selects(operation), view |-> << >>]]
    /\ UNCHANGED << vars, moments >>

ReadNext(r) ==
    /\ call[r] # NoCall
    /\ call[r].left # << >>
    /\ call' = [call EXCEPT ![r].left = Tail(@),
                            ![r].view = Select(@, Head(call[r].left))]
    /\ moments' = [moments EXCEPT ![r] =
                      IF call[r].operation = "experience" /\ @ # << >> THEN @
                      ELSE Append(@, Answer(call[r].operation, Database))]
    /\ UNCHANGED vars

Return(r) ==
    /\ call[r] # NoCall
    /\ call[r].left = << >>
    /\ call' = [call EXCEPT ![r] = NoCall]
    /\ moments' = [moments EXCEPT ![r] = << >>]
    /\ UNCHANGED vars

AllInit == Init /\ ReadInit

Write == Next /\ UNCHANGED << call, moments >>

Read == \E r \in Readers : BeginRead(r) \/ ReadNext(r) \/ Return(r)

AllNext == Write \/ Read

AllSpec == AllInit /\ [][AllNext]_allVars

----------------------------------------------------------------------------
(* Properties *)

IsDone(r) == call[r] # NoCall /\ call[r].left = << >>

(* A store nobody has tampered with is never reported as corrupt: no       *)
(* interleaving of commits between the SELECTs of a read shows it an event *)
(* or a conflict whose memory it has not seen.                             *)
NoFalseCorruption == \A r \in Readers : IsDone(r) => ~IsCorrupt(call[r])

(* state(), timeline(), recall() and conflicts() answer what was true at   *)
(* one instant of the call: no memory appears without the evidence it was  *)
(* recorded with, next to the memory that superseded it, or after both of  *)
(* them have gone.  The memories preflight() and context() are made from   *)
(* are those of the instant at which they began to read.                   *)
ReadsAreSnapshots ==
    \A r \in Readers :
        IsDone(r) =>
            LET answer == Answer(call[r].operation, call[r].view)
            IN  CASE call[r].operation = "open_conflicts" -> TRUE
                  [] call[r].operation = "experience" ->
                        answer.memories = moments[r][1].memories
                  [] OTHER -> answer \in Range(moments[r])

(* open_conflicts() is no snapshot, its pairs and its current ids being    *)
(* read at different instants; but all it reports is open when it reads    *)
(* the ids, and it misses none that is open from its first SELECT to its   *)
(* last.  preflight() and context() read the ids first: they miss none     *)
(* that was open when they began, and report none between memories that    *)
(* they do not know.                                                       *)
OpenConflictsBracketed ==
    \A r \in Readers :
        IsDone(r) =>
            LET answer == Answer(call[r].operation, call[r].view)
                first == moments[r][1]
                last == moments[r][Len(moments[r])]
            IN  CASE call[r].operation = "open_conflicts" ->
                        answer \subseteq last /\ first \cap last \subseteq answer
                  [] call[r].operation = "experience" ->
                        /\ first.conflicts \subseteq answer.conflicts
                        /\ BothIn(answer.conflicts, {told.id : told \in Range(answer.memories)})
                             = answer.conflicts
                  [] OTHER -> TRUE
=============================================================================
