-------------------------- MODULE SourceStoreProofs --------------------------
(***************************************************************************)
(* Theorems about SourceStore, for any number of processes, files, texts   *)
(* and edits.                                                              *)
(***************************************************************************)
EXTENDS SourceStore, TLAPS, WellFoundedInduction

----------------------------------------------------------------------------
(* The inductive invariant.                                                *)
(*                                                                         *)
(* A call that is under way has read the first files of its batch, each at *)
(* a moment that is past; it has read all of it when it records, and       *)
(* answered for the files recorded so far.                                 *)

CallInv(p) ==
    LET s == session[p] IN
    s.step # "idle" =>
        /\ Len(s.read) <= Len(s.batch)
        /\ \A i \in DOMAIN s.read :
             /\ s.read[i].path = s.batch[i]
             /\ s.read[i].read_at <= Now
             /\ past[s.read[i].read_at][s.read[i].path] = s.read[i].text
        /\ s.step = "reading" => Len(s.read) < Len(s.batch) /\ s.results = << >>
        /\ s.step \in {"writing", "stamped"} =>
             Len(s.read) = Len(s.batch) /\ Len(s.results) < Len(s.batch)
        /\ s.step = "done" => Len(s.read) = Len(s.batch) /\ Len(s.results) = Len(s.batch)
        /\ s.step = "stamped" =>
             /\ s.observed_at <= Now
             /\ \A i \in DOMAIN s.read : s.read[i].read_at <= s.observed_at

IInv ==
    /\ TypeOK
    /\ \A p \in Seeders : CallInv(p)
    /\ HistoryIsWhole
    /\ EveryObservationIsAChange
    /\ ObservationsWereRead
    /\ AnswersCiteWhatWasRead

LEMMA InitInvariant == Init => IInv
<1> SUFFICES ASSUME Init PROVE IInv
  OBVIOUS
<1>1. PICK disk \in Disks : past = << disk >>
  BY DEF Init
<1>2. TypeOK
  <2>1. session \in [Seeders -> Sessions]
    BY DEF Init, Sessions
  <2>2. past \in Seq(Disks) /\ past # << >>
    BY <1>1
  <2> QED
    BY <2>1, <2>2 DEF Init, TypeOK
<1>3. ASSUME NEW p \in Seeders PROVE CallInv(p)
  BY DEF Init, CallInv, Idle
<1>4. HistoryIsWhole
  BY DEF Init, HistoryIsWhole, IsInjective, ObservationsOf, Range
<1>5. EveryObservationIsAChange /\ ObservationsWereRead
  BY DEF Init, EveryObservationIsAChange, ObservationsWereRead
<1>6. AnswersCiteWhatWasRead
  BY DEF Init, AnswersCiteWhatWasRead
<1> QED
  BY <1>2, <1>3, <1>4, <1>5, <1>6 DEF IInv

(* What the type invariant says of a session, by its step. *)
LEMMA SessionTypes ==
    ASSUME TypeOK, NEW p \in Seeders
    PROVE  /\ session[p].step \in {"idle", "reading", "writing", "stamped", "done"}
           /\ session[p].step = "idle" <=> session[p] = Idle
           /\ session[p].step # "idle" =>
                /\ session[p].batch \in Seq(Paths)
                /\ session[p].read \in Seq(Candidates)
                /\ session[p].results \in Seq(Results)
           /\ session[p].step = "stamped" => session[p].observed_at \in Nat \ {0}
<1>1. session[p] \in Sessions
  BY DEF TypeOK
<1>2. CASE session[p] = Idle
  BY <1>2 DEF Idle
<1>3. CASE session[p] \in [step : {"reading", "writing", "done"}, batch : Seq(Paths),
                           read : Seq(Candidates), results : Seq(Results)]
  BY <1>3 DEF Idle
<1>4. CASE session[p] \in [step : {"stamped"}, batch : Seq(Paths), read : Seq(Candidates),
                           results : Seq(Results), observed_at : Nat \ {0}]
  BY <1>4 DEF Idle
<1> QED
  BY <1>1, <1>2, <1>3, <1>4 DEF Sessions

(* Time is positive and each moment has a disk. *)
LEMMA Clock ==
    ASSUME TypeOK
    PROVE  /\ Now \in Nat \ {0} /\ Disk \in Disks
           /\ \A t \in Nat \ {0} : t <= Now => past[t] \in Disks
  BY DEF TypeOK, Now, Disk

(* A bounded set of numbers that is not empty has a greatest element. *)
LEMMA GreatestNumber ==
    ASSUME NEW bound \in Nat, NEW S, S \subseteq 1 .. bound, S # {}
    PROVE  \E x \in S : \A y \in S : y <= x
<1> DEFINE gaps == {gap \in Nat : \E x \in S : gap + x = bound}
<1>1. \A x \in S : bound - x \in gaps /\ x \in Nat
  OBVIOUS
<1>2. PICK gap \in gaps : \A other \in gaps : gap <= other
  <2>1. gaps \subseteq Nat /\ gaps # {}
    BY <1>1
  <2> HIDE DEF gaps
  <2>2. PICK gap \in gaps : \A other \in gaps : ~(<< other, gap >> \in OpToRel(<, Nat))
    BY <2>1, NatLessThanWellFounded, WFMin
  <2>3. \A other \in gaps : ~(other < gap)
    BY <2>1, <2>2 DEF OpToRel
  <2> QED
    BY <2>1, <2>3
<1>3. PICK x \in S : gap + x = bound
  OBVIOUS
<1>4. ASSUME NEW y \in S PROVE y <= x
  <2>1. gap <= bound - y
    BY <1>1, <1>2
  <2> QED
    BY <1>1, <1>3, <2>1
<1> QED
  BY <1>4
(* A Source that has observations has a latest one. *)
LEMMA LatestExists ==
    ASSUME TypeOK, NEW source_id, ObservationsOf(source_id) # {}
    PROVE  \E i \in ObservationsOf(source_id) :
              /\ Latest(source_id) = observations[i]
              /\ \A j \in ObservationsOf(source_id) : j <= i
<1> DEFINE mine == ObservationsOf(source_id)
<1>1. mine \subseteq 1 .. Len(observations) /\ Len(observations) \in Nat /\ mine # {}
  BY DEF ObservationsOf, TypeOK
<1>2. \E k \in mine : \A j \in mine : j <= k
  <2> HIDE DEF mine
  <2> QED
    BY <1>1, GreatestNumber
<1> DEFINE chosen == CHOOSE k \in mine : \A j \in mine : j <= k
<1>3. chosen \in mine /\ \A j \in mine : j <= chosen
  BY <1>2
<1> QED
  BY <1>3 DEF Latest

----------------------------------------------------------------------------
(* Steps of the files and of the sessions *)

(* The past only grows, and what was true of it stays true. *)
LEMMA PastGrows ==
    ASSUME TypeOK, past' = past \/ \E disk \in Disks : past' = Append(past, disk)
    PROVE  /\ past' \in Seq(Disks) /\ past' # << >>
           /\ Now <= Now'
           /\ \A t \in Nat \ {0} : t <= Now => past'[t] = past[t]
  BY DEF TypeOK, Now

(* A call that takes no step keeps its invariant. *)
LEMMA CallFrame ==
    ASSUME TypeOK, NEW q \in Seeders, CallInv(q), session'[q] = session[q],
           past' = past \/ \E disk \in Disks : past' = Append(past, disk)
    PROVE  CallInv(q)'
<1>1. /\ Now \in Nat /\ Now' \in Nat /\ Now <= Now'
      /\ \A t \in Nat \ {0} : t <= Now => past'[t] = past[t]
  BY PastGrows, Clock DEF Now
<1>2. ASSUME session[q].step # "idle", NEW i \in DOMAIN session[q].read
      PROVE  session[q].read[i].read_at \in Nat \ {0}
  <2>1. session[q].read \in Seq(Candidates)
    BY <1>2, SessionTypes
  <2>2. session[q].read[i] \in Candidates
    BY <1>2, <2>1
  <2> QED
    BY <2>2 DEF Candidates
<1>3. session[q].step = "stamped" => session[q].observed_at \in Nat
  BY SessionTypes
<1>4. ASSUME session[q].step # "idle", NEW i \in DOMAIN session[q].read
      PROVE  LET read == session[q].read[i] IN
             /\ read.path = session[q].batch[i]
             /\ read.read_at <= Now'
             /\ past'[read.read_at][read.path] = read.text
  <2>1. LET read == session[q].read[i] IN
        /\ read.path = session[q].batch[i]
        /\ read.read_at <= Now
        /\ past[read.read_at][read.path] = read.text
    BY <1>4 DEF CallInv
  <2> QED
    BY <1>1, <1>2, <1>4, <2>1
<1>5. session[q].step = "stamped" =>
        /\ session[q].observed_at <= Now'
        /\ \A i \in DOMAIN session[q].read : session[q].read[i].read_at <= session[q].observed_at
  <2> SUFFICES ASSUME session[q].step = "stamped"
               PROVE  /\ session[q].observed_at <= Now'
                      /\ \A i \in DOMAIN session[q].read :
                           session[q].read[i].read_at <= session[q].observed_at
    OBVIOUS
  <2>1. /\ session[q].observed_at <= Now
        /\ \A i \in DOMAIN session[q].read :
             session[q].read[i].read_at <= session[q].observed_at
    BY DEF CallInv
  <2> QED
    BY <1>1, <1>3, <2>1
<1> QED
  BY <1>4, <1>5 DEF CallInv

(* If no table changes, their invariants hold, whatever the files do. *)
LEMMA HistoryFrame ==
    ASSUME IInv, UNCHANGED tables,
           past' = past \/ \E disk \in Disks : past' = Append(past, disk)
    PROVE  (HistoryIsWhole /\ EveryObservationIsAChange /\ ObservationsWereRead)'
<1>1. HistoryIsWhole'
  BY DEF IInv, HistoryIsWhole, tables, ObservationsOf
<1>2. EveryObservationIsAChange'
  BY DEF IInv, EveryObservationIsAChange, tables
<1>3. ObservationsWereRead'
  <2>1. /\ Now \in Nat /\ Now' \in Nat /\ Now <= Now'
        /\ \A t \in Nat \ {0} : t <= Now => past'[t] = past[t]
    BY PastGrows, Clock DEF IInv, Now
  <2>2. ASSUME NEW i \in DOMAIN observations
        PROVE  LET row == observations[i] IN
               /\ row.read_at <= row.observed_at /\ row.observed_at <= Now'
               /\ past'[row.read_at][PathOf(row.source_id)] = evidence[row.evidence_id]
    <3>1. observations[i] \in Rows
      BY DEF IInv, TypeOK
    <3>2. observations[i].read_at \in Nat \ {0} /\ observations[i].observed_at \in Nat
      BY <3>1 DEF Rows
    <3>3. LET row == observations[i] IN
          /\ row.read_at <= row.observed_at /\ row.observed_at <= Now
          /\ past[row.read_at][PathOf(row.source_id)] = evidence[row.evidence_id]
      BY DEF IInv, ObservationsWereRead
    <3> QED
      BY <2>1, <3>2, <3>3
  <2> QED
    BY <2>2 DEF ObservationsWereRead, tables, PathOf
<1> QED
  BY <1>1, <1>2, <1>3

(* An edit. *)
LEMMA EditKeeps == ASSUME IInv, Edit PROVE IInv'
<1>1. /\ UNCHANGED << tables, session >>
      /\ \E disk \in Disks : past' = Append(past, disk)
  <2>1. Disk \in Disks
    BY Clock DEF IInv
  <2> QED
    BY <2>1 DEF Edit, Disks
<1>2. TypeOK'
  BY <1>1, PastGrows DEF IInv, TypeOK, tables
<1>3. \A p \in Seeders : CallInv(p)'
  BY <1>1, CallFrame DEF IInv
<1>4. AnswersCiteWhatWasRead'
  BY <1>1 DEF IInv, AnswersCiteWhatWasRead, tables
<1> QED
  BY <1>1, <1>2, <1>3, <1>4, HistoryFrame DEF IInv

(* A step that changes only the session of its process. *)
LEMMA SessionStepKeeps ==
    ASSUME IInv, NEW p \in Seeders, NEW state \in Sessions, Goto(p, state),
           UNCHANGED << past, tables >>, CallInv(p)',
           state # Idle => Cites(state.results, state.read, evidence)
    PROVE  IInv'
<1>1. session \in [Seeders -> Sessions]
  BY DEF IInv, TypeOK
<1>2. session' = [session EXCEPT ![p] = state]
  BY DEF Goto
<1>3. TypeOK'
  BY <1>1, <1>2 DEF IInv, TypeOK, tables
<1>4. ASSUME NEW q \in Seeders PROVE CallInv(q)'
  <2>1. CASE q = p
    BY <2>1
  <2>2. CASE q # p
    BY <1>1, <1>2, <2>2, CallFrame DEF IInv
  <2> QED
    BY <2>1, <2>2
<1>5. AnswersCiteWhatWasRead'
  <2>1. \A q \in Seeders : session'[q] = IF q = p THEN state ELSE session[q]
    BY <1>1, <1>2
  <2> QED
    BY <2>1 DEF tables, IInv, AnswersCiteWhatWasRead
<1> QED
  BY <1>3, <1>4, <1>5, HistoryFrame DEF IInv

(* A call that has not begun, or is over, promises nothing. *)
LEMMA BackToIdle ==
    ASSUME IInv, NEW p \in Seeders, Goto(p, Idle), UNCHANGED << past, tables >>
    PROVE  IInv'
<1>1. session'[p] = Idle
  BY DEF IInv, TypeOK, Goto
<1>2. CallInv(p)'
  BY <1>1 DEF CallInv, Idle
<1>3. Idle \in Sessions
  BY DEF Sessions
<1> QED
  BY <1>2, <1>3, SessionStepKeeps

LEMMA BeginSeedKeeps ==
    ASSUME IInv, NEW p \in Seeders, BeginSeed(p)
    PROVE  IInv'
<1>1. PICK batch \in Batches \ {<< >>} :
        Goto(p, [step |-> "reading", batch |-> batch, read |-> << >>, results |-> << >>])
  BY DEF BeginSeed, Call
<1> DEFINE state == [step |-> "reading", batch |-> batch, read |-> << >>, results |-> << >>]
<1>2. batch \in Seq(Paths) /\ Len(batch) > 0
  BY SourceAssumption
<1>3. state \in Sessions
  BY <1>2 DEF Sessions
<1>4. session'[p] = state
  BY <1>1 DEF IInv, TypeOK, Goto
<1>5. CallInv(p)'
  BY <1>2, <1>4 DEF CallInv
<1>6. Cites(state.results, state.read, evidence)
  BY DEF Cites
<1> QED
  BY <1>1, <1>3, <1>5, <1>6, SessionStepKeeps DEF BeginSeed

LEMMA ReadFileKeeps ==
    ASSUME IInv, NEW p \in Seeders, ReadFile(p)
    PROVE  IInv'
<1>1. session[p].step = "reading" /\ UNCHANGED << past, tables >>
  BY DEF ReadFile
<1>2. CASE Disk[NextPath(p)] = Unseedable
  BY <1>1, <1>2, BackToIdle DEF ReadFile
<1>3. CASE Disk[NextPath(p)] # Unseedable
  <2> DEFINE candidate == Candidate(NextPath(p))
             read == Append(session[p].read, candidate)
             state == [step |-> IF Len(read) = Len(session[p].batch) THEN "writing" ELSE "reading",
                       batch |-> session[p].batch, read |-> read, results |-> << >>]
  <2>1. /\ session[p].batch \in Seq(Paths) /\ session[p].read \in Seq(Candidates)
    BY <1>1, SessionTypes DEF IInv
  <2>2. /\ Len(session[p].read) < Len(session[p].batch) /\ session[p].results = << >>
        /\ \A i \in DOMAIN session[p].read :
             /\ session[p].read[i].path = session[p].batch[i]
             /\ session[p].read[i].read_at <= Now
             /\ past[session[p].read[i].read_at][session[p].read[i].path] = session[p].read[i].text
    BY <1>1 DEF IInv, CallInv
  <2>3. NextPath(p) \in Paths /\ NextPath(p) = session[p].batch[Len(session[p].read) + 1]
    BY <2>1, <2>2 DEF NextPath
  <2>4. /\ candidate \in Candidates /\ candidate.path = NextPath(p)
        /\ candidate.read_at = Now /\ past[Now][NextPath(p)] = candidate.text
    <3>1. Disk \in Disks /\ Now \in Nat \ {0}
      BY Clock DEF IInv
    <3>2. Disk[NextPath(p)] \in Texts
      BY <1>3, <2>3, <3>1 DEF Disks
    <3> QED
      BY <2>3, <3>1, <3>2 DEF Candidate, Candidates, Disk
  <2>5. /\ read \in Seq(Candidates) /\ Len(read) = Len(session[p].read) + 1
        /\ \A i \in DOMAIN read :
             read[i] = IF i = Len(read) THEN candidate ELSE session[p].read[i]
        /\ \A i \in DOMAIN read : i = Len(read) \/ i \in DOMAIN session[p].read
    BY <2>1, <2>4
  <2> HIDE DEF read, candidate
  <2>6. Goto(p, state)
    BY <1>3 DEF ReadFile, read, candidate, Call
  <2>7. state \in Sessions
    BY <2>1, <2>5 DEF Sessions
  <2>8. session'[p] = state
    BY <2>6 DEF IInv, TypeOK, Goto
  <2>9. \A i \in DOMAIN read :
          /\ read[i].path = session[p].batch[i]
          /\ read[i].read_at <= Now
          /\ past[read[i].read_at][read[i].path] = read[i].text
    <3>1. ASSUME NEW i \in DOMAIN read
          PROVE  /\ read[i].path = session[p].batch[i]
                 /\ read[i].read_at <= Now
                 /\ past[read[i].read_at][read[i].path] = read[i].text
      <4>1. CASE i = Len(read)
        <5>1. Now \in Nat
          BY Clock DEF IInv
        <5> QED
          BY <4>1, <5>1, <2>3, <2>4, <2>5
      <4>2. CASE i # Len(read)
        BY <4>2, <2>2, <2>5
      <4> QED
        BY <4>1, <4>2
    <3> QED
      BY <3>1
  <2>10. CallInv(p)'
    <3>1. Len(read) <= Len(session[p].batch) /\ Len(session[p].batch) > 0
      BY <2>1, <2>2, <2>5
    <3>2. Now' = Now /\ past' = past
      BY <1>1 DEF Now
    <3> QED
      BY <2>1, <2>5, <2>8, <2>9, <3>1, <3>2 DEF CallInv
  <2>11. Cites(state.results, state.read, evidence)
    BY DEF Cites
  <2> QED
    BY <1>1, <2>6, <2>7, <2>10, <2>11, SessionStepKeeps
<1> QED
  BY <1>2, <1>3

LEMMA StampKeeps ==
    ASSUME IInv, NEW p \in Seeders, Stamp(p)
    PROVE  IInv'
<1> DEFINE state == [step |-> "stamped", batch |-> session[p].batch, read |-> session[p].read,
                     results |-> session[p].results, observed_at |-> Now]
<1>1. session[p].step = "writing" /\ Goto(p, state) /\ UNCHANGED << past, tables >>
  BY DEF Stamp
<1>2. Now \in Nat \ {0}
  BY Clock DEF IInv
<1>3. /\ session[p].batch \in Seq(Paths) /\ session[p].read \in Seq(Candidates)
      /\ session[p].results \in Seq(Results) /\ session[p] # Idle
  BY <1>1, SessionTypes DEF IInv
<1>4. state \in Sessions
  BY <1>2, <1>3 DEF Sessions
<1>5. session'[p] = state
  BY <1>1 DEF IInv, TypeOK, Goto
<1>6. CallInv(p)'
  <2>1. Now' = Now /\ past' = past /\ CallInv(p)
    BY <1>1 DEF Now, IInv
  <2> QED
    BY <1>1, <1>2, <1>5, <2>1 DEF CallInv
<1>7. Cites(state.results, state.read, evidence)
  BY <1>3 DEF IInv, AnswersCiteWhatWasRead
<1> QED
  BY <1>1, <1>4, <1>6, <1>7, SessionStepKeeps

----------------------------------------------------------------------------
(* Recording one file *)

(* Append adds one element, the last, and keeps the others. *)
LEMMA AppendFacts ==
    ASSUME NEW S, NEW s \in Seq(S), NEW e \in S
    PROVE  /\ Append(s, e) \in Seq(S) /\ Len(s) \in Nat
           /\ Len(Append(s, e)) = Len(s) + 1
           /\ DOMAIN s = 1 .. Len(s)
           /\ DOMAIN Append(s, e) = DOMAIN s \cup {Len(s) + 1}
           /\ Append(s, e)[Len(s) + 1] = e
           /\ \A i \in DOMAIN s : Append(s, e)[i] = s[i]
  OBVIOUS

(* What a call knows when it is about to record a file. *)
LEMMA TurnFacts ==
    ASSUME IInv, NEW p \in Seeders, session[p].step = "stamped"
    PROVE  /\ Turn(p) \in DOMAIN session[p].read
           /\ session[p].read[Turn(p)] \in Candidates
           /\ session[p].observed_at \in Nat \ {0} /\ session[p].observed_at <= Now
           /\ session[p].read[Turn(p)].read_at <= session[p].observed_at
           /\ past[session[p].read[Turn(p)].read_at][session[p].read[Turn(p)].path]
                = session[p].read[Turn(p)].text
<1>1. /\ session[p].read \in Seq(Candidates) /\ session[p].results \in Seq(Results)
      /\ session[p].observed_at \in Nat \ {0}
  BY SessionTypes DEF IInv
<1>2. CallInv(p)
  BY DEF IInv
<1>3. Turn(p) \in DOMAIN session[p].read
  BY <1>1, <1>2 DEF CallInv, Turn
<1> QED
  BY <1>1, <1>2, <1>3 DEF CallInv

(* An answer leaves the sessions in order. *)
LEMMA ReplyKeeps ==
    ASSUME IInv, NEW p \in Seeders, session[p].step = "stamped",
           NEW status \in {"added", "unchanged", "changed"}, NEW evidence_id \in EvidenceIds,
           Reply(p, status, evidence_id), past' = past,
           \A e \in DOMAIN evidence : e \in DOMAIN evidence' /\ evidence'[e] = evidence[e],
           evidence_id \in DOMAIN evidence',
           evidence'[evidence_id] = session[p].read[Turn(p)].text
    PROVE  /\ session' \in [Seeders -> Sessions]
           /\ \A q \in Seeders : CallInv(q)'
           /\ AnswersCiteWhatWasRead'
<1> DEFINE answer == [status |-> status, evidence_id |-> evidence_id]
           results == Append(session[p].results, answer)
           state == Call(IF Len(results) = Len(session[p].batch) THEN "done" ELSE "writing",
                         session[p].batch, session[p].read, results)
<1>1. /\ session[p].batch \in Seq(Paths) /\ session[p].read \in Seq(Candidates)
      /\ session[p].results \in Seq(Results) /\ session[p] # Idle
  BY SessionTypes DEF IInv
<1>2. /\ Len(session[p].read) = Len(session[p].batch)
      /\ Len(session[p].results) < Len(session[p].batch)
  BY DEF IInv, CallInv
<1>3. answer \in Results
  BY DEF Results
<1>4. /\ results \in Seq(Results) /\ Len(results) = Len(session[p].results) + 1
      /\ \A i \in DOMAIN results :
           \/ i = Turn(p) /\ results[i] = answer
           \/ i \in DOMAIN session[p].results /\ results[i] = session[p].results[i]
  <2> HIDE DEF answer
  <2> QED
    BY <1>1, <1>3, AppendFacts DEF Turn
<1> HIDE DEF results
<1>5. state \in Sessions
  BY <1>1, <1>4 DEF Sessions, Call
<1>6. session' = [session EXCEPT ![p] = state]
  BY DEF Reply, Goto, results
<1>7. session \in [Seeders -> Sessions]
  BY DEF IInv, TypeOK
<1>8. \A q \in Seeders : session'[q] = IF q = p THEN state ELSE session[q]
  BY <1>6, <1>7
<1>9. CallInv(p)'
  <2>1. Now' = Now /\ past' = past /\ CallInv(p)
    BY DEF IInv, Now
  <2>2. session'[p] = state
    BY <1>8
  <2>3. Len(results) <= Len(session[p].batch) /\ Len(results) \in Nat /\ Len(session[p].batch) \in Nat
    BY <1>1, <1>2, <1>4
  <2> QED
    BY <1>2, <2>1, <2>2, <2>3 DEF CallInv, Call
<1>10. \A q \in Seeders : CallInv(q)'
  <2>1. ASSUME NEW q \in Seeders, q # p PROVE CallInv(q)'
    BY <1>8, <2>1, CallFrame DEF IInv
  <2> QED
    BY <1>9, <2>1
<1>11. Cites(results, session[p].read, evidence')
  <2>1. Cites(session[p].results, session[p].read, evidence)
    BY <1>1 DEF IInv, AnswersCiteWhatWasRead
  <2>2. ASSUME NEW i \in DOMAIN results
        PROVE  /\ results[i].evidence_id \in DOMAIN evidence'
               /\ evidence'[results[i].evidence_id] = session[p].read[i].text
    <3>1. CASE i = Turn(p) /\ results[i] = answer
      BY <3>1
    <3>2. CASE i \in DOMAIN session[p].results /\ results[i] = session[p].results[i]
      BY <2>1, <3>2 DEF Cites
    <3> QED
      BY <1>4, <3>1, <3>2
  <2> QED
    BY <2>2 DEF Cites
<1>12. AnswersCiteWhatWasRead'
  <2>1. ASSUME NEW q \in Seeders, session'[q] # Idle
        PROVE  Cites(session'[q].results, session'[q].read, evidence')
    <3>1. CASE q = p
      BY <1>8, <1>11, <3>1 DEF Call
    <3>2. CASE q # p
      <4>1. Cites(session[q].results, session[q].read, evidence)
        BY <1>8, <2>1, <3>2 DEF IInv, AnswersCiteWhatWasRead
      <4> QED
        BY <1>8, <3>2, <4>1 DEF Cites
    <3> QED
      BY <3>1, <3>2
  <2> QED
    BY <2>1 DEF AnswersCiteWhatWasRead
<1> QED
  BY <1>6, <1>5, <1>7, <1>10, <1>12

(* An injective table has one path for an id. *)
LEMMA OnePath ==
    ASSUME NEW f, IsInjective(f), NEW q \in DOMAIN f
    PROVE  (CHOOSE r \in DOMAIN f : f[r] = f[q]) = q
  BY DEF IsInjective

(* What recording a file needs of the sources table and of the latest      *)
(* observation, whether the path was tracked before or not.                *)
MayRecord(p, source_id) ==
    LET candidate == session[p].read[Turn(p)] IN
    /\ DOMAIN sources' \subseteq Paths /\ sources' \in [DOMAIN sources' -> SourceIds]
    /\ IsInjective(sources')
    /\ candidate.path \in DOMAIN sources' /\ sources'[candidate.path] = source_id
    /\ \A q \in DOMAIN sources : q \in DOMAIN sources' /\ sources'[q] = sources[q]
    /\ \A q \in DOMAIN sources' : q \in DOMAIN sources \/ q = candidate.path
    /\ ObservationsOf(source_id) # {} => Latest(source_id).digest # Digest[candidate.text]

LEMMA RecordKeeps ==
    ASSUME IInv, NEW p \in Seeders, session[p].step = "stamped",
           NEW source_id \in SourceIds, NEW evidence_id \in EvidenceIds,
           NEW status \in {"added", "unchanged", "changed"},
           Record(p, source_id, evidence_id), Reply(p, status, evidence_id), past' = past,
           MayRecord(p, source_id)
    PROVE  IInv'
<1> DEFINE candidate == session[p].read[Turn(p)]
           last == Len(observations')
<1>row. PICK row : row = Row(p, source_id, evidence_id)
  OBVIOUS
<1>1. /\ evidence_id \notin DOMAIN evidence
      /\ DOMAIN evidence' = DOMAIN evidence \cup {evidence_id}
      /\ evidence'[evidence_id] = candidate.text
      /\ \A e \in DOMAIN evidence : evidence'[e] = evidence[e]
      /\ evidence' \in [DOMAIN evidence' -> Texts]
      /\ indexed' = indexed \cup {evidence_id}
  <2>1. candidate.text \in Texts /\ evidence \in [DOMAIN evidence -> Texts]
    BY TurnFacts DEF Candidates, IInv, TypeOK
  <2> HIDE DEF candidate
  <2>2. /\ evidence_id \notin DOMAIN evidence /\ indexed' = indexed \cup {evidence_id}
        /\ evidence' = [e \in DOMAIN evidence \cup {evidence_id} |->
                           IF e = evidence_id THEN candidate.text ELSE evidence[e]]
    BY DEF Record, AddEvidence, candidate
  <2> QED
    BY <2>1, <2>2
<1>2. /\ row \in Rows /\ row.source_id = source_id /\ row.evidence_id = evidence_id
      /\ row.digest = Digest[candidate.text]
      /\ row.observed_at = session[p].observed_at /\ row.read_at = candidate.read_at
  BY <1>row, TurnFacts, SourceAssumption DEF Row, Rows, Candidates, Range
<1>3. /\ observations' \in Seq(Rows)
      /\ last = Len(observations) + 1 /\ Len(observations) \in Nat
      /\ DOMAIN observations' = DOMAIN observations \cup {last}
      /\ DOMAIN observations = 1 .. Len(observations)
      /\ observations'[last] = row
      /\ \A i \in DOMAIN observations : observations'[i] = observations[i]
  <2>1. observations' = Append(observations, row) /\ observations \in Seq(Rows)
    BY <1>row DEF Record, IInv, TypeOK
  <2> QED
    BY <1>2, <2>1, AppendFacts
<1>4. /\ DOMAIN sources' \subseteq Paths /\ sources' \in [DOMAIN sources' -> SourceIds]
      /\ IsInjective(sources')
      /\ candidate.path \in DOMAIN sources' /\ sources'[candidate.path] = source_id
      /\ \A q \in DOMAIN sources : q \in DOMAIN sources' /\ sources'[q] = sources[q]
      /\ \A q \in DOMAIN sources' : q \in DOMAIN sources \/ q = candidate.path
      /\ ObservationsOf(source_id) # {} => Latest(source_id).digest # Digest[candidate.text]
  BY DEF MayRecord
<1>5. /\ session' \in [Seeders -> Sessions]
      /\ \A q \in Seeders : CallInv(q)'
      /\ AnswersCiteWhatWasRead'
  BY <1>1, ReplyKeeps
<1>6. /\ candidate \in Candidates
      /\ session[p].observed_at <= Now /\ candidate.read_at <= session[p].observed_at
      /\ past[candidate.read_at][candidate.path] = candidate.text
  BY TurnFacts
<1>7. HistoryIsWhole /\ EveryObservationIsAChange /\ ObservationsWereRead /\ TypeOK
  BY DEF IInv
<1> HIDE DEF candidate, last
<1>8. TypeOK'
  BY <1>1, <1>3, <1>4, <1>5, <1>7 DEF TypeOK
<1>9. HistoryIsWhole'
  <2>1. ASSUME NEW q \in DOMAIN sources' PROVE (ObservationsOf(sources[q]))' # {}
    <3>1. CASE q = candidate.path
      BY <1>2, <1>3, <1>4, <3>1 DEF ObservationsOf
    <3>2. CASE q \in DOMAIN sources
      BY <1>3, <1>4, <1>7, <3>2 DEF ObservationsOf, HistoryIsWhole
    <3> QED
      BY <1>4, <2>1, <3>1, <3>2
  <2>2. ASSUME NEW i \in DOMAIN observations'
        PROVE  /\ observations'[i].source_id \in Range(sources')
               /\ observations'[i].evidence_id \in DOMAIN evidence'
               /\ observations'[i].digest = Digest[evidence'[observations'[i].evidence_id]]
    <3>1. CASE i = last
      BY <1>1, <1>2, <1>3, <1>4, <3>1 DEF Range
    <3>2. CASE i \in DOMAIN observations
      <4>1. /\ observations[i].source_id \in Range(sources)
            /\ observations[i].evidence_id \in DOMAIN evidence
            /\ observations[i].digest = Digest[evidence[observations[i].evidence_id]]
        BY <1>7, <3>2 DEF HistoryIsWhole
      <4>2. observations[i].source_id \in Range(sources')
        BY <1>4, <4>1 DEF Range
      <4> QED
        BY <1>1, <1>3, <3>2, <4>1, <4>2
    <3> QED
      BY <1>3, <2>2, <3>1, <3>2
  <2>3. ASSUME NEW i \in DOMAIN observations', NEW j \in DOMAIN observations',
               observations'[i].evidence_id = observations'[j].evidence_id
        PROVE  i = j
    <3>1. \A k \in DOMAIN observations :
             observations'[k] = observations[k] /\ observations[k].evidence_id \in DOMAIN evidence
      BY <1>3, <1>7 DEF HistoryIsWhole
    <3>2. \A k \in DOMAIN observations : observations'[k].evidence_id # evidence_id
      BY <1>1, <3>1
    <3>3. observations'[last].evidence_id = evidence_id
      BY <1>2, <1>3
    <3>4. CASE i \in DOMAIN observations /\ j \in DOMAIN observations
      <4>1. observations[i].evidence_id = observations[j].evidence_id
        BY <2>3, <3>1, <3>4
      <4> QED
        BY <1>7, <3>4, <4>1 DEF HistoryIsWhole
    <3> QED
      BY <1>3, <2>3, <3>2, <3>3, <3>4
  <2>4. (DOMAIN evidence = {observations[i].evidence_id : i \in DOMAIN observations})'
    <3>1. DOMAIN evidence = {observations[i].evidence_id : i \in DOMAIN observations}
      BY <1>7 DEF HistoryIsWhole
    <3>2. ASSUME NEW e
          PROVE  e \in DOMAIN evidence' <=>
                   \E i \in DOMAIN observations' : e = observations'[i].evidence_id
      <4>1. e \in DOMAIN evidence <=> \E i \in DOMAIN observations : e = observations[i].evidence_id
        BY <3>1
      <4>2. (\E i \in DOMAIN observations' : e = observations'[i].evidence_id)
              <=> \/ \E i \in DOMAIN observations : e = observations[i].evidence_id
                  \/ e = evidence_id
        BY <1>2, <1>3
      <4> QED
        BY <1>1, <4>1, <4>2
    <3> QED
      BY <3>2
  <2>5. indexed' = DOMAIN evidence'
    BY <1>1, <1>7 DEF HistoryIsWhole
  <2> QED
    BY <1>4, <2>1, <2>2, <2>3, <2>4, <2>5 DEF HistoryIsWhole
<1>10. EveryObservationIsAChange'
  <2> SUFFICES ASSUME NEW i \in DOMAIN observations', NEW j \in DOMAIN observations',
                      i < j, observations'[i].source_id = observations'[j].source_id,
                      ~ \E k \in DOMAIN observations' :
                          i < k /\ k < j /\ observations'[k].source_id = observations'[i].source_id
               PROVE  observations'[i].digest # observations'[j].digest
    BY DEF EveryObservationIsAChange
  <2>1. i \in DOMAIN observations /\ observations'[i] = observations[i]
    BY <1>3
  <2>2. CASE j \in DOMAIN observations
    <3>1. ~ \E k \in DOMAIN observations :
              i < k /\ k < j /\ observations[k].source_id = observations[i].source_id
      BY <1>3, <2>1
    <3>2. observations[i].source_id = observations[j].source_id /\ observations'[j] = observations[j]
      BY <1>3, <2>1, <2>2
    <3> QED
      BY <1>7, <2>1, <2>2, <3>1, <3>2 DEF EveryObservationIsAChange
  <2>3. CASE j = last
    <3>1. observations'[j] = row /\ observations[i].source_id = source_id
      BY <1>2, <1>3, <2>1, <2>3
    <3>2. i \in ObservationsOf(source_id)
      BY <2>1, <3>1 DEF ObservationsOf
    <3>3. PICK latest \in ObservationsOf(source_id) :
            /\ Latest(source_id) = observations[latest]
            /\ \A k \in ObservationsOf(source_id) : k <= latest
      BY <1>7, <3>2, LatestExists
    <3>4. /\ latest \in DOMAIN observations /\ observations[latest].source_id = source_id
          /\ i <= latest /\ latest < j
      BY <1>3, <2>3, <3>2, <3>3 DEF ObservationsOf
    <3>5. i = latest
      BY <1>3, <2>1, <3>1, <3>4
    <3> QED
      BY <1>2, <1>4, <2>1, <3>1, <3>2, <3>3, <3>5
  <2> QED
    BY <1>3, <2>2, <2>3
<1>11. ObservationsWereRead'
  <2> DEFINE owner(id) == CHOOSE path \in DOMAIN sources' : sources'[path] = id
  <2>1. Now' = Now /\ past' = past
    BY DEF Now
  <2>2. ASSUME NEW i \in DOMAIN observations'
        PROVE  LET new == observations'[i] IN
               /\ new.read_at <= new.observed_at /\ new.observed_at <= Now
               /\ past[new.read_at][owner(new.source_id)] = evidence'[new.evidence_id]
    <3>1. CASE i = last
      <4>1. owner(source_id) = candidate.path
        BY <1>4, OnePath
      <4>2. /\ observations'[i].read_at = candidate.read_at
            /\ observations'[i].observed_at = session[p].observed_at
            /\ observations'[i].source_id = source_id
            /\ observations'[i].evidence_id = evidence_id
        BY <1>2, <1>3, <3>1
      <4> HIDE DEF owner
      <4> QED
        BY <1>1, <1>6, <4>1, <4>2
    <3>2. CASE i \in DOMAIN observations
      <4>1. observations'[i] = observations[i] /\ observations[i].source_id \in Range(sources)
            /\ observations[i].evidence_id \in DOMAIN evidence /\ IsInjective(sources)
        BY <1>3, <1>7, <3>2 DEF HistoryIsWhole
      <4>2. PICK q \in DOMAIN sources : sources[q] = observations[i].source_id
        BY <4>1 DEF Range
      <4>3. PathOf(observations[i].source_id) = q
        BY <4>1, <4>2, OnePath DEF PathOf
      <4>4. q \in DOMAIN sources' /\ sources'[q] = observations'[i].source_id
        BY <1>4, <4>1, <4>2
      <4>5. owner(observations'[i].source_id) = q
        BY <1>4, <4>4, OnePath
      <4>6. LET old == observations[i] IN
            /\ old.read_at <= old.observed_at /\ old.observed_at <= Now
            /\ past[old.read_at][PathOf(old.source_id)] = evidence[old.evidence_id]
        BY <1>7, <3>2 DEF ObservationsWereRead
      <4> HIDE DEF owner
      <4> QED
        BY <1>1, <4>1, <4>3, <4>5, <4>6
    <3> QED
      BY <1>3, <2>2, <3>1, <3>2
  <2> QED
    BY <2>1, <2>2 DEF ObservationsWereRead, PathOf
<1> QED
  BY <1>5, <1>8, <1>9, <1>10, <1>11 DEF IInv

LEMMA ObserveNewKeeps ==
    ASSUME IInv, NEW p \in Seeders, ObserveNew(p)
    PROVE  IInv'
<1> DEFINE path == session[p].read[Turn(p)].path
<1>1. /\ session[p].step = "stamped" /\ path \notin DOMAIN sources /\ past' = past
  BY DEF ObserveNew
<1>2. PICK source_id \in SourceIds \ Range(sources), evidence_id \in EvidenceIds :
        /\ sources' = [q \in DOMAIN sources \cup {path} |->
                          IF q = path THEN source_id ELSE sources[q]]
        /\ Record(p, source_id, evidence_id)
        /\ Reply(p, "added", evidence_id)
  BY DEF ObserveNew
<1>3. path \in Paths
  BY <1>1, TurnFacts DEF Candidates
<1>4. /\ IsInjective(sources) /\ ObservationsOf(source_id) = {}
      /\ DOMAIN sources \subseteq Paths /\ sources \in [DOMAIN sources -> SourceIds]
  BY DEF IInv, TypeOK, HistoryIsWhole, ObservationsOf
<1>5. MayRecord(p, source_id)
  <2>1. /\ DOMAIN sources' = DOMAIN sources \cup {path}
        /\ sources'[path] = source_id
        /\ \A q \in DOMAIN sources : sources'[q] = sources[q]
    BY <1>1, <1>2
  <2>2. \A q \in DOMAIN sources : sources[q] # source_id
    BY DEF Range
  <2>3. IsInjective(sources')
    BY <1>4, <2>1, <2>2 DEF IsInjective
  <2>4. sources' \in [DOMAIN sources' -> SourceIds]
    BY <1>2, <1>4
  <2> QED
    BY <1>3, <1>4, <2>1, <2>3, <2>4 DEF MayRecord
<1> QED
  BY <1>1, <1>2, <1>5, RecordKeeps

(* A tracked path has a latest observation, whose Evidence has its digest. *)
LEMMA TrackedFacts ==
    ASSUME IInv, NEW p \in Seeders, Tracked(p),
           NEW source_id, source_id = sources[session[p].read[Turn(p)].path]
    PROVE  /\ source_id \in SourceIds
           /\ Latest(source_id).evidence_id \in EvidenceIds \cap DOMAIN evidence
           /\ Latest(source_id).digest = Digest[evidence[Latest(source_id).evidence_id]]
           /\ evidence[Latest(source_id).evidence_id] \in Texts
<1>1. session[p].read[Turn(p)].path \in DOMAIN sources
  BY DEF Tracked
<1>2. source_id \in SourceIds /\ ObservationsOf(source_id) # {}
  BY <1>1 DEF IInv, TypeOK, HistoryIsWhole
<1>3. PICK i \in ObservationsOf(source_id) : Latest(source_id) = observations[i]
  BY <1>2, LatestExists DEF IInv
<1>4. i \in DOMAIN observations
  BY DEF ObservationsOf
<1>5. /\ observations[i].evidence_id \in DOMAIN evidence
      /\ observations[i].digest = Digest[evidence[observations[i].evidence_id]]
  BY <1>4 DEF IInv, HistoryIsWhole
<1>6. DOMAIN evidence \subseteq EvidenceIds /\ evidence \in [DOMAIN evidence -> Texts]
  BY DEF IInv, TypeOK
<1> QED
  BY <1>2, <1>3, <1>5, <1>6

LEMMA ObserveChangedKeeps ==
    ASSUME IInv, NEW p \in Seeders, ObserveChanged(p)
    PROVE  IInv'
<1>1. PICK source_id : source_id = sources[session[p].read[Turn(p)].path]
  OBVIOUS
<1>2. /\ Tracked(p) /\ session[p].step = "stamped" /\ past' = past /\ sources' = sources
      /\ ~ IsUnchanged(source_id, Digest[session[p].read[Turn(p)].text])
  BY <1>1 DEF ObserveChanged, Tracked
<1>3. PICK evidence_id \in EvidenceIds :
        Record(p, source_id, evidence_id) /\ Reply(p, "changed", evidence_id)
  BY <1>1 DEF ObserveChanged
<1>4. source_id \in SourceIds
  BY <1>1, <1>2, TrackedFacts
<1>5. MayRecord(p, source_id)
  BY <1>1, <1>2 DEF MayRecord, IsUnchanged, Tracked, IInv, TypeOK, HistoryIsWhole
<1> QED
  BY <1>2, <1>3, <1>4, <1>5, RecordKeeps

LEMMA ObserveUnchangedKeeps ==
    ASSUME IInv, NEW p \in Seeders, ObserveUnchanged(p)
    PROVE  IInv'
<1>1. PICK source_id : source_id = sources[session[p].read[Turn(p)].path]
  OBVIOUS
<1>2. /\ Tracked(p) /\ session[p].step = "stamped" /\ UNCHANGED << past, tables >>
      /\ Latest(source_id).digest = Digest[session[p].read[Turn(p)].text]
      /\ Reply(p, "unchanged", Latest(source_id).evidence_id)
  BY <1>1 DEF ObserveUnchanged, Tracked, IsUnchanged
<1>3. PICK evidence_id : evidence_id = Latest(source_id).evidence_id
  OBVIOUS
<1>4. /\ evidence_id \in EvidenceIds /\ evidence_id \in DOMAIN evidence
      /\ Digest[evidence[evidence_id]] = Digest[session[p].read[Turn(p)].text]
      /\ evidence[evidence_id] \in Texts
  BY <1>1, <1>2, <1>3, TrackedFacts
<1>5. session[p].read[Turn(p)].text \in Texts
  BY <1>2, TurnFacts DEF Candidates
<1>6. evidence[evidence_id] = session[p].read[Turn(p)].text
  BY <1>4, <1>5, SourceAssumption DEF IsInjective
<1>7. evidence' = evidence /\ past' = past /\ Reply(p, "unchanged", evidence_id)
  BY <1>2, <1>3 DEF tables
<1>8. /\ session' \in [Seeders -> Sessions]
      /\ \A q \in Seeders : CallInv(q)'
      /\ AnswersCiteWhatWasRead'
  BY <1>2, <1>4, <1>6, <1>7, ReplyKeeps
<1>9. TypeOK'
  BY <1>2, <1>8 DEF IInv, TypeOK, tables
<1> QED
  BY <1>2, <1>8, <1>9, HistoryFrame DEF IInv

LEMMA StepInvariant == IInv /\ [Next]_vars => IInv'
<1> SUFFICES ASSUME IInv, [Next]_vars PROVE IInv'
  OBVIOUS
<1>1. CASE Edit
  BY <1>1, EditKeeps
<1>2. ASSUME NEW p \in Seeders,
             BeginSeed(p) \/ ReadFile(p) \/ Stamp(p) \/ Observe(p) \/ Return(p) \/ Abandon(p)
      PROVE  IInv'
  <2>1. CASE BeginSeed(p)
    BY <2>1, BeginSeedKeeps
  <2>2. CASE ReadFile(p)
    BY <2>2, ReadFileKeeps
  <2>3. CASE Stamp(p)
    BY <2>3, StampKeeps
  <2>4. CASE Observe(p)
    BY <2>4, ObserveNewKeeps, ObserveUnchangedKeeps, ObserveChangedKeeps DEF Observe
  <2>5. CASE Return(p)
    BY <2>5, BackToIdle DEF Return
  <2>6. CASE Abandon(p)
    BY <2>6, BackToIdle DEF Abandon
  <2> QED
    BY <1>2, <2>1, <2>2, <2>3, <2>4, <2>5, <2>6
<1>3. CASE UNCHANGED vars
  <2>1. UNCHANGED << past, tables, session >> /\ UNCHANGED tables
    BY <1>3 DEF vars
  <2>2. TypeOK'
    BY <2>1 DEF IInv, TypeOK, tables
  <2>3. \A p \in Seeders : CallInv(p)'
    BY <2>1, CallFrame DEF IInv
  <2>4. AnswersCiteWhatWasRead'
    BY <2>1 DEF IInv, AnswersCiteWhatWasRead, tables
  <2> QED
    BY <2>1, <2>2, <2>3, <2>4, HistoryFrame DEF IInv
<1> QED
  BY <1>1, <1>2, <1>3 DEF Next

----------------------------------------------------------------------------
(* The theorems *)

(* The conjunction that every step of seeding preserves. *)
THEOREM Invariant == Spec => []IInv
<1> QED
  BY InitInvariant, StepInvariant, PTL DEF Spec

(* The tables and the calls under way keep their types. *)
THEOREM TypeCorrect == Spec => []TypeOK
<1>1. IInv => TypeOK
  BY DEF IInv
<1> QED
  BY <1>1, Invariant, PTL

(* Sources, observations, evidence and index entries always match, however *)
(* many processes seed and whichever of them die.                          *)
THEOREM WholeHistory == Spec => []HistoryIsWhole
<1>1. IInv => HistoryIsWhole
  BY DEF IInv
<1> QED
  BY <1>1, Invariant, PTL

(* Two observations of a Source that follow each other differ: BEGIN       *)
(* IMMEDIATE makes the comparison with the latest one and the insert one.  *)
THEOREM ObservationsAreChanges == Spec => []EveryObservationIsAChange
<1>1. IInv => EveryObservationIsAChange
  BY DEF IInv
<1> QED
  BY <1>1, Invariant, PTL

(* What is recorded of a file is what it said when it was read, and that   *)
(* was before the moment it is stamped with.                               *)
THEOREM ReadBeforeStamped == Spec => []ObservationsWereRead
<1>1. IInv => ObservationsWereRead
  BY DEF IInv
<1> QED
  BY <1>1, Invariant, PTL

(* The Evidence a seed answers with says what this call read.              *)
THEOREM CitesWhatWasRead == Spec => []AnswersCiteWhatWasRead
<1>1. IInv => AnswersCiteWhatWasRead
  BY DEF IInv
<1> QED
  BY <1>1, Invariant, PTL

(* Nothing is recorded before the whole batch is read, and then in order.  *)
THEOREM BatchOrdered == Spec => []BatchInOrder
<1>1. IInv => BatchInOrder
  <2> SUFFICES ASSUME IInv, NEW p \in Seeders, session[p] # Idle
               PROVE  /\ session[p].results # << >> => Len(session[p].read) = Len(session[p].batch)
                      /\ Len(session[p].results) <= Len(session[p].read)
                      /\ \A i \in DOMAIN session[p].read : session[p].read[i].path = session[p].batch[i]
    BY DEF BatchInOrder
  <2>1. /\ session[p].step \in {"reading", "writing", "stamped", "done"}
        /\ session[p].batch \in Seq(Paths) /\ session[p].read \in Seq(Candidates)
        /\ session[p].results \in Seq(Results)
    BY SessionTypes DEF IInv
  <2>2. CallInv(p)
    BY DEF IInv
  <2> QED
    BY <2>1, <2>2 DEF CallInv
<1> QED
  BY <1>1, Invariant, PTL

(* The rows of the three tables are never changed or removed.              *)
THEOREM AppendOnly == Spec => OnlyGrows
<1>1. ASSUME IInv, [Next]_vars
      PROVE  [/\ IsRestriction(sources, sources')
              /\ IsRestriction(observations, observations')
              /\ IsRestriction(evidence, evidence')]_tables
  <2>1. CASE UNCHANGED tables
    BY <2>1
  <2>2. ASSUME NEW p \in Seeders, ObserveNew(p) \/ ObserveChanged(p)
        PROVE  /\ IsRestriction(sources, sources')
               /\ IsRestriction(observations, observations')
               /\ IsRestriction(evidence, evidence')
    <3>1. PICK source_id \in SourceIds \cup Range(sources), evidence_id \in EvidenceIds :
            Record(p, source_id, evidence_id) /\ session[p].step = "stamped"
      <4>1. CASE ObserveNew(p)
        BY <4>1 DEF ObserveNew
      <4>2. CASE ObserveChanged(p)
        <5>1. sources[session[p].read[Turn(p)].path] \in Range(sources)
          BY <4>2 DEF ObserveChanged, Tracked, Range
        <5> QED
          BY <4>2, <5>1 DEF ObserveChanged, Tracked
      <4> QED
        BY <2>2, <4>1, <4>2
    <3>2. IsRestriction(sources, sources')
      BY <2>2 DEF ObserveNew, ObserveChanged, IsRestriction
    <3>3. IsRestriction(evidence, evidence')
      BY <3>1 DEF Record, AddEvidence, IsRestriction
    <3>4. source_id \in SourceIds
      BY <1>1 DEF IInv, TypeOK, Range
    <3>5. Row(p, source_id, evidence_id) \in Rows
      BY <1>1, <3>1, <3>4, TurnFacts, SourceAssumption DEF Row, Rows, Candidates, Range
    <3>6. observations \in Seq(Rows)
      BY <1>1 DEF IInv, TypeOK
    <3>7. IsRestriction(observations, observations')
      BY <3>1, <3>5, <3>6, AppendFacts DEF Record, IsRestriction
    <3> QED
      BY <3>2, <3>3, <3>7
  <2> QED
    BY <1>1, <2>1, <2>2
       DEF Next, vars, Edit, BeginSeed, ReadFile, Stamp, Observe, ObserveUnchanged, Return, Abandon
<1> QED
  BY <1>1, Invariant, PTL DEF Spec, OnlyGrows
=============================================================================
