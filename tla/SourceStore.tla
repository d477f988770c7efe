----------------------------- MODULE SourceStore -----------------------------
(***************************************************************************)
(* Seeding project files (Urdyn.seed, MemoryStore.observe_source and       *)
(* MemoryStore.list_sources): several processes read files that others are *)
(* editing, and record what each file said as an append-only history of    *)
(* observations.                                                           *)
(*                                                                         *)
(* A seed reads every file of its batch before it records any, stamps each *)
(* one with the wall clock and records it in a BEGIN IMMEDIATE transaction *)
(* of its own, which is one step here: nobody sees any of it before the    *)
(* commit and a process that dies leaves none of it behind.  Between two   *)
(* of those steps files change and other processes record.                 *)
(*                                                                         *)
(* Time is the number of states the project's files have been in, so "what *)
(* the file said at t" has a meaning.                                      *)
(***************************************************************************)
EXTENDS Naturals, Sequences, Functions

CONSTANTS Seeders,      \* processes that seed
          Paths,        \* workspace-relative paths
          Texts,        \* what a document can say
          Unseedable,   \* missing, binary, empty, too large or outside the workspace
          Digest,       \* the SHA-256 of each text
          Batches,      \* the lists of paths a seed is asked to record
          SourceIds, EvidenceIds,
          MaxEdits      \* bound: how often files change

ASSUME SourceAssumption ==
    /\ Unseedable \notin Texts
    /\ IsInjective(Digest) /\ DOMAIN Digest = Texts
    /\ Batches \subseteq Seq(Paths)
    /\ MaxEdits \in Nat

VARIABLES past,         \* the states the files have been in; the last is the disk
          sources,      \* the sources table: the id of each tracked path
          observations, \* the source_observations table, by sequence
          evidence,     \* the text of each document_observation
          indexed,      \* the evidence in the search index
          session       \* what each process carries between two of its steps

tables == << sources, observations, evidence, indexed >>
vars == << past, tables, session >>

Disks == [Paths -> Texts \cup {Unseedable}]

Now == Len(past)
Disk == past[Now]

Idle == [step |-> "idle"]

Init ==
    /\ past \in {<< disk >> : disk \in Disks}
    /\ sources = << >>
    /\ observations = << >>
    /\ evidence = << >>
    /\ indexed = {}
    /\ session = [p \in Seeders |-> Idle]

Goto(p, state) == session' = [session EXCEPT ![p] = state]

(* Somebody edits, creates or deletes a file. *)
Edit ==
    /\ Now <= MaxEdits
    /\ \E path \in Paths, text \in Texts \cup {Unseedable} :
         /\ text # Disk[path]
         /\ past' = Append(past, [Disk EXCEPT ![path] = text])
    /\ UNCHANGED << tables, session >>

----------------------------------------------------------------------------
(* seed(): "validate and hash everything first". *)

(* A call: its batch, the files read so far, the answers so far. *)
Call(step, batch, read, results) ==
    [step |-> step, batch |-> batch, read |-> read, results |-> results]

BeginSeed(p) ==
    /\ session[p] = Idle
    /\ \E batch \in Batches \ {<< >>} :
         Goto(p, Call("reading", batch, << >>, << >>))
    /\ UNCHANGED << past, tables >>

(* The next file of the batch. *)
NextPath(p) == session[p].batch[Len(session[p].read) + 1]

Candidate(path) == [path |-> path, text |-> Disk[path], read_at |-> Now]

(* resolve_seed_path() and read_seed_candidate(): one file that cannot be  *)
(* seeded refuses the whole batch.                                         *)
ReadFile(p) ==
    /\ session[p].step = "reading"
    /\ IF Disk[NextPath(p)] = Unseedable
       THEN Goto(p, Idle)
       ELSE LET read == Append(session[p].read, Candidate(NextPath(p)))
            IN  Goto(p, Call(IF Len(read) = Len(session[p].batch) THEN "writing" ELSE "reading",
                             session[p].batch, read, << >>))
    /\ UNCHANGED << past, tables >>

(* The candidate whose turn it is. *)
Turn(p) == Len(session[p].results) + 1

(* observed_at is read from the clock by the caller, and then BEGIN        *)
(* IMMEDIATE waits for the lock.                                           *)
Stamp(p) ==
    /\ session[p].step = "writing"
    /\ Goto(p, [step |-> "stamped", batch |-> session[p].batch, read |-> session[p].read,
                results |-> session[p].results, observed_at |-> Now])
    /\ UNCHANGED << past, tables >>

ObservationsOf(source_id) ==
    {i \in DOMAIN observations : observations[i].source_id = source_id}

Latest(source_id) ==
    observations[CHOOSE i \in ObservationsOf(source_id) :
                    \A j \in ObservationsOf(source_id) : j <= i]

(* The answer for one file; the call returns after the last one. *)
Reply(p, status, evidence_id) ==
    LET results == Append(session[p].results, [status |-> status, evidence_id |-> evidence_id])
    IN  Goto(p, Call(IF Len(results) = Len(session[p].batch) THEN "done" ELSE "writing",
                     session[p].batch, session[p].read, results))

Row(p, source_id, evidence_id) ==
    LET candidate == session[p].read[Turn(p)] IN
    [source_id |-> source_id, evidence_id |-> evidence_id,
     digest |-> Digest[candidate.text],
     observed_at |-> session[p].observed_at, read_at |-> candidate.read_at]

AddEvidence(evidence_id, text) ==
    evidence' = [e \in DOMAIN evidence \cup {evidence_id} |->
                    IF e = evidence_id THEN text ELSE evidence[e]]

(* Mutant of Record: the file is read again for its text. *)
Record_Reread(p, source_id, evidence_id) ==
    /\ evidence_id \notin DOMAIN evidence
    /\ AddEvidence(evidence_id, Disk[session[p].read[Turn(p)].path])
    /\ observations' = Append(observations, Row(p, source_id, evidence_id))
    /\ indexed' = indexed \cup {evidence_id}

(* The Evidence, the observation and the index entry of one candidate. *)
Record(p, source_id, evidence_id) ==
    /\ evidence_id \notin DOMAIN evidence
    /\ AddEvidence(evidence_id, session[p].read[Turn(p)].text)
    /\ observations' = Append(observations, Row(p, source_id, evidence_id))
    /\ indexed' = indexed \cup {evidence_id}

(* The path is not tracked yet. *)
ObserveNew(p) ==
    /\ session[p].step = "stamped"
    /\ session[p].read[Turn(p)].path \notin DOMAIN sources
    /\ \E source_id \in SourceIds \ Range(sources), evidence_id \in EvidenceIds :
         /\ sources' = [path \in DOMAIN sources \cup {session[p].read[Turn(p)].path} |->
                           IF path = session[p].read[Turn(p)].path THEN source_id ELSE sources[path]]
         /\ Record(p, source_id, evidence_id)
         /\ Reply(p, "added", evidence_id)
    /\ UNCHANGED past

(* Mutants of IsUnchanged: any earlier reading counts; the digest is taken *)
(* to differ.                                                              *)
IsUnchanged_Ever(source_id, digest) ==
    \E i \in ObservationsOf(source_id) : observations[i].digest = digest

IsUnchanged_Never(source_id, digest) == FALSE

(* Judged against the latest observation only. *)
IsUnchanged(source_id, digest) == Latest(source_id).digest = digest

Tracked(p) ==
    /\ session[p].step = "stamped"
    /\ session[p].read[Turn(p)].path \in DOMAIN sources

ObserveUnchanged(p) ==
    /\ Tracked(p)
    /\ LET source_id == sources[session[p].read[Turn(p)].path] IN
       /\ IsUnchanged(source_id, Digest[session[p].read[Turn(p)].text])
       /\ Reply(p, "unchanged", Latest(source_id).evidence_id)
    /\ UNCHANGED << past, tables >>

ObserveChanged(p) ==
    /\ Tracked(p)
    /\ LET source_id == sources[session[p].read[Turn(p)].path] IN
       /\ ~IsUnchanged(source_id, Digest[session[p].read[Turn(p)].text])
       /\ \E evidence_id \in EvidenceIds :
            /\ Record(p, source_id, evidence_id)
            /\ Reply(p, "changed", evidence_id)
    /\ UNCHANGED << past, sources >>

(* The call returns. *)
Return(p) ==
    /\ session[p].step = "done"
    /\ Goto(p, Idle)
    /\ UNCHANGED << past, tables >>

(* Mutant of Abandon: the Evidence was committed before the observation. *)
Abandon_Stranding(p) ==
    /\ session[p] # Idle
    /\ Goto(p, Idle)
    /\ \/ UNCHANGED evidence
       \/ /\ session[p].step = "stamped"
          /\ \E e \in EvidenceIds \ DOMAIN evidence : AddEvidence(e, session[p].read[Turn(p)].text)
    /\ UNCHANGED << past, sources, observations, indexed >>

(* A process dies, or its call fails on I/O or on a lock it waited for too *)
(* long: the files it has recorded stay recorded.                          *)
Abandon(p) ==
    /\ session[p] # Idle
    /\ Goto(p, Idle)
    /\ UNCHANGED << past, tables >>

Observe(p) == ObserveNew(p) \/ ObserveUnchanged(p) \/ ObserveChanged(p)

Next ==
    \/ Edit
    \/ \E p \in Seeders :
         BeginSeed(p) \/ ReadFile(p) \/ Stamp(p) \/ Observe(p) \/ Return(p) \/ Abandon(p)

Spec == Init /\ [][Next]_vars

----------------------------------------------------------------------------
(* Properties *)

Candidates == [path : Paths, text : Texts, read_at : Nat \ {0}]
Results == [status : {"added", "unchanged", "changed"}, evidence_id : EvidenceIds]
Rows == [source_id : SourceIds, evidence_id : EvidenceIds, digest : Range(Digest),
         observed_at : Nat \ {0}, read_at : Nat \ {0}]

Sessions ==
    {Idle}
    \cup [step : {"reading", "writing", "done"}, batch : Seq(Paths), read : Seq(Candidates),
          results : Seq(Results)]
    \cup [step : {"stamped"}, batch : Seq(Paths), read : Seq(Candidates),
          results : Seq(Results), observed_at : Nat \ {0}]

TypeOK ==
    /\ past \in Seq(Disks) /\ past # << >>
    /\ DOMAIN sources \subseteq Paths /\ sources \in [DOMAIN sources -> SourceIds]
    /\ observations \in Seq(Rows)
    /\ DOMAIN evidence \subseteq EvidenceIds /\ evidence \in [DOMAIN evidence -> Texts]
    /\ indexed \subseteq EvidenceIds
    /\ session \in [Seeders -> Sessions]

(* A path is one Source and a Source is never without an observation; an   *)
(* observation belongs to a Source, has an Evidence of its own holding the *)
(* text its digest was computed from, and no Evidence is stranded without  *)
(* an observation or an index entry, whoever died in between.              *)
HistoryIsWhole ==
    /\ IsInjective(sources)
    /\ \A path \in DOMAIN sources : ObservationsOf(sources[path]) # {}
    /\ \A i, j \in DOMAIN observations :
         observations[i].evidence_id = observations[j].evidence_id => i = j
    /\ \A i \in DOMAIN observations :
         /\ observations[i].source_id \in Range(sources)
         /\ observations[i].evidence_id \in DOMAIN evidence
         /\ observations[i].digest = Digest[evidence[observations[i].evidence_id]]
    /\ DOMAIN evidence = {observations[i].evidence_id : i \in DOMAIN observations}
    /\ indexed = DOMAIN evidence

(* An observation is a change: two that follow each other in the history   *)
(* of a Source never say the same, however many processes seed an          *)
(* unchanged file at once.                                                 *)
EveryObservationIsAChange ==
    \A i, j \in DOMAIN observations :
        /\ i < j
        /\ observations[i].source_id = observations[j].source_id
        /\ ~ \E k \in DOMAIN observations :
               i < k /\ k < j /\ observations[k].source_id = observations[i].source_id
        => observations[i].digest # observations[j].digest

PathOf(source_id) == CHOOSE path \in DOMAIN sources : sources[path] = source_id

(* What an observation holds is what its file said at some moment before   *)
(* the one it is stamped with, and every candidate waiting to be recorded  *)
(* was read before it will be.                                             *)
ObservationsWereRead ==
    \A i \in DOMAIN observations :
        LET row == observations[i] IN
        /\ row.read_at <= row.observed_at /\ row.observed_at <= Now
        /\ past[row.read_at][PathOf(row.source_id)] = evidence[row.evidence_id]

(* Nothing of a batch is recorded before all of it has been read, and it   *)
(* is recorded in its order: an unacceptable path leaves nothing, a crash  *)
(* leaves the first files of the list.                                     *)
BatchInOrder ==
    \A p \in Seeders :
        session[p] # Idle =>
            /\ session[p].results # << >> => Len(session[p].read) = Len(session[p].batch)
            /\ Len(session[p].results) <= Len(session[p].read)
            /\ \A i \in DOMAIN session[p].read : session[p].read[i].path = session[p].batch[i]

Cites(results, read, texts) ==
    \A i \in DOMAIN results :
        /\ results[i].evidence_id \in DOMAIN texts
        /\ texts[results[i].evidence_id] = read[i].text

(* The Evidence a seed answers with, to be cited by a belief, says what    *)
(* the call read, also when it is one another process recorded.            *)
AnswersCiteWhatWasRead ==
    \A p \in Seeders :
        session[p] # Idle => Cites(session[p].results, session[p].read, evidence)

(* No observation or tracked path is ever changed or removed. *)
OnlyGrows ==
    [][/\ IsRestriction(sources, sources')
       /\ IsRestriction(observations, observations')
       /\ IsRestriction(evidence, evidence')]_tables

(* What a docstring claims and the code does not do: see the findings.     *)

(* "A file edited to A, then B, then back to A has genuinely been through  *)
(* three states": the history of a Source is in the order in which its     *)
(* file was read.                                                          *)
HistoryFollowsFile ==
    \A i, j \in DOMAIN observations :
        i < j /\ observations[i].source_id = observations[j].source_id
            => observations[i].read_at <= observations[j].read_at
=============================================================================
