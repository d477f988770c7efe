------------------------ MODULE MemoryReadersProofs ------------------------
(***************************************************************************)
(* Theorems about MemoryReaders, for any number of readers among any       *)
(* number of writers.  What is proved of the writers is MemoryStoreProofs; *)
(* they do not notice the readers.                                         *)
(***************************************************************************)
EXTENDS MemoryReaders, MemoryStoreProofs, SequenceTheorems

----------------------------------------------------------------------------
(* The inductive invariant.  A reader has done the first SELECTs of its    *)
(* operation.  Of each it holds rows that are still there; what it read    *)
(* later covers what it read earlier; and the instant at which it began is *)
(* remembered by rows that are still there.                                *)

(* A row with the links and roles it was written with. *)
Whole(id) == [id |-> id, row |-> memories[id]]

(* What state() tells now if these are the current ids. *)
TellNow(ids) ==
    [i \in {n \in DOMAIN log : log[n].kind = "memory_recorded" /\ log[n].subject \in ids}
       |-> Whole(log[i].subject)]

InOrder(c) ==
    \E done \in 0 .. Len(Selects(c.operation)) :
        /\ c.left = SubSeq(Selects(c.operation), done + 1, Len(Selects(c.operation)))
        /\ DOMAIN c.view = {Selects(c.operation)[i] : i \in 1 .. done}

ViewIsPast(view) ==
    /\ "current" \in DOMAIN view => view.current \subseteq DOMAIN memories
    /\ "rows" \in DOMAIN view => IsRestriction(view.rows, memories)
    /\ "links" \in DOMAIN view =>
         \A id \in DOMAIN view.links :
            id \in DOMAIN memories /\ view.links[id] = memories[id].fact.evidence_ids
    /\ "roles" \in DOMAIN view =>
         \A id \in DOMAIN view.roles :
            id \in DOMAIN memories /\ view.roles[id] = memories[id].fact.supporting_evidence_ids
    /\ "log" \in DOMAIN view =>
         \A i \in DOMAIN view.log :
            i \in DOMAIN log /\ log[i] = Event("memory_recorded", view.log[i])
    /\ "pairs" \in DOMAIN view => view.pairs \subseteq DOMAIN conflicts
    /\ "attempted" \in DOMAIN view => Range(view.attempted) \subseteq DOMAIN attempts
    /\ "cited" \in DOMAIN view => IsRestriction(view.cited, attempts)

LaterCovers(operation, view) ==
    /\ operation \in {"state", "timeline", "experience"} =>
         \A what \in {"links", "roles", "rows"} \cap DOMAIN view :
            Range(view.log) \subseteq DOMAIN view[what]
    /\ operation \in {"state", "experience"} /\ "log" \in DOMAIN view =>
         view.current \subseteq Range(view.log)
    /\ operation = "recall" =>
         \A what \in {"links", "roles"} \cap DOMAIN view : DOMAIN view.rows \subseteq DOMAIN view[what]
    /\ "known" \in DOMAIN view => ~PairsBroken(view)
    /\ "cited" \in DOMAIN view => Range(view.attempted) \subseteq DOMAIN view.cited
    /\ "evidence" \in DOMAIN view => Needed(view) \subseteq view.evidence

(* state() and the experience: what was told when the ids were read. *)
FirstTold(c, m) == IF c.operation = "experience" THEN m[1].memories ELSE m[1]

BegunWhole(c, m) ==
    /\ c.operation = "timeline" /\ "log" \in DOMAIN c.view =>
         m[1] = [i \in DOMAIN c.view.log |-> Whole(c.view.log[i])]
    /\ c.operation \in {"state", "experience"} /\ "current" \in DOMAIN c.view =>
         FirstTold(c, m) = IF "log" \in DOMAIN c.view
                           THEN [i \in DOMAIN Told(c.view) |-> Whole(Told(c.view)[i])]
                           ELSE TellNow(c.view.current)
    /\ c.operation = "recall" /\ "rows" \in DOMAIN c.view =>
         m[1] = {Whole(id) : id \in CurrentIds(c.view.rows)}

PairsBracketed(c, m) ==
    /\ c.operation = "conflicts" /\ "pairs" \in DOMAIN c.view => m[1] = c.view.pairs
    /\ c.operation = "open_conflicts" /\ "pairs" \in DOMAIN c.view => m[1] \subseteq c.view.pairs
    /\ c.operation = "open_conflicts" /\ "current" \in DOMAIN c.view =>
         /\ BothIn(c.view.pairs, c.view.current) \subseteq m[Len(m)]
         /\ \A pair \in m[Len(m)] : {pair[1], pair[2]} \subseteq c.view.current
    /\ c.operation = "experience" /\ "current" \in DOMAIN c.view =>
         \A pair \in m[1].conflicts :
            pair \in DOMAIN conflicts /\ {pair[1], pair[2]} \subseteq c.view.current
    /\ c.operation = "experience" /\ "pairs" \in DOMAIN c.view => m[1].conflicts \subseteq c.view.pairs

CallIsSound(c, m) ==
    /\ c.operation \in Operations
    /\ DOMAIN c = {"operation", "left", "view"}
    /\ InOrder(c)
    /\ m \in Seq(Range(m))
    /\ DOMAIN c.view = {} <=> m = << >>
    /\ ViewIsPast(c.view)
    /\ LaterCovers(c.operation, c.view)
    /\ BegunWhole(c, m)
    /\ PairsBracketed(c, m)

ReadersInv ==
    /\ DOMAIN call = Readers /\ DOMAIN moments = Readers
    /\ \A r \in Readers :
         \A c \in {call[r]}, m \in {moments[r]} :
            (c = NoCall /\ m = << >>) \/ CallIsSound(c, m)

----------------------------------------------------------------------------
(* The order of the SELECTs *)

Words == {"current", "rows", "log", "links", "roles", "pairs", "known", "attempted", "cited", "evidence"}

LEMMA OrderFacts ==
    ASSUME NEW operation \in Operations
    PROVE  /\ Selects(operation) \in Seq(Words)
           /\ \A i, j \in 1 .. Len(Selects(operation)) :
                Selects(operation)[i] = Selects(operation)[j] => i = j
           /\ Len(Selects(operation)) >= 2
<1> SUFFICES ASSUME NEW order, order = Selects(operation)
             PROVE  /\ order \in Seq(Words)
                    /\ \A i, j \in 1 .. Len(order) : order[i] = order[j] => i = j
                    /\ Len(order) >= 2
  OBVIOUS
<1>1. operation \in {"state", "timeline", "recall", "conflicts", "open_conflicts", "experience"}
  BY ReaderAssumption
<1>2. CASE operation = "state"
  <2>1. order = << "current", "log", "links", "roles", "rows" >>
    BY <1>2 DEF Selects, SelectOrder
  <2> QED
    BY <2>1 DEF Words
<1>3. CASE operation = "timeline"
  <2>1. order = << "log", "links", "roles", "rows" >>
    BY <1>3 DEF Selects, SelectOrder
  <2> QED
    BY <2>1 DEF Words
<1>4. CASE operation = "recall"
  <2>1. order = << "rows", "links", "roles" >>
    BY <1>4 DEF Selects, SelectOrder
  <2> QED
    BY <2>1 DEF Words
<1>5. CASE operation = "conflicts"
  <2>1. order = << "pairs", "known" >>
    BY <1>5 DEF Selects, SelectOrder
  <2> QED
    BY <2>1 DEF Words
<1>6. CASE operation = "open_conflicts"
  <2>1. order = << "pairs", "known", "current" >>
    BY <1>6 DEF Selects, SelectOrder
  <2> QED
    BY <2>1 DEF Words
<1>7. CASE operation = "experience"
  <2>1. order = << "current", "log", "links", "roles", "rows", "pairs", "known",
                   "attempted", "cited", "evidence" >>
    BY <1>7 DEF Selects, SelectOrder
  <2> QED
    BY <2>1 DEF Words
<1> QED
  BY <1>1, <1>2, <1>3, <1>4, <1>5, <1>6, <1>7

(* What the correctness of the answers rests on: which SELECT is before    *)
(* which.                                                                  *)
LEMMA EarlierIsSeen ==
    ASSUME NEW c, c.operation \in Operations, InOrder(c)
    PROVE  LET seen == DOMAIN c.view IN
           /\ c.operation \in {"state", "timeline", "experience"}
                /\ (\E what \in {"links", "roles", "rows"} : what \in seen) => "log" \in seen
           /\ c.operation \in {"state", "experience"} /\ seen # {} => "current" \in seen
           /\ c.operation = "timeline" /\ seen # {} => "log" \in seen
           /\ c.operation = "recall" /\ seen # {} => "rows" \in seen
           /\ c.operation \in {"conflicts", "open_conflicts"} /\ seen # {} => "pairs" \in seen
           /\ c.operation = "open_conflicts" /\ "current" \in seen
                => seen = {"pairs", "known", "current"}
           /\ "known" \in seen => "pairs" \in seen
           /\ "cited" \in seen => "attempted" \in seen
           /\ "evidence" \in seen => c.operation = "experience" /\ seen = Words
<1>1. c.operation \in {"state", "timeline", "recall", "conflicts", "open_conflicts", "experience"}
  BY ReaderAssumption
<1> DEFINE order == Selects(c.operation)
           seen == DOMAIN c.view
<1>2. PICK done \in 0 .. Len(order) : seen = {order[i] : i \in 1 .. done}
  BY DEF InOrder
<1> HIDE DEF seen
<1>3. CASE c.operation = "state"
  <2>1. order = << "current", "log", "links", "roles", "rows" >>
    BY <1>3 DEF Selects, SelectOrder
  <2> HIDE DEF order
  <2> QED
    BY <1>2, <1>3, <2>1 DEF seen
<1>4. CASE c.operation = "timeline"
  <2>1. order = << "log", "links", "roles", "rows" >>
    BY <1>4 DEF Selects, SelectOrder
  <2> HIDE DEF order
  <2> QED
    BY <1>2, <1>4, <2>1 DEF seen
<1>5. CASE c.operation = "recall"
  <2>1. order = << "rows", "links", "roles" >>
    BY <1>5 DEF Selects, SelectOrder
  <2> HIDE DEF order
  <2> QED
    BY <1>2, <1>5, <2>1 DEF seen
<1>6. CASE c.operation = "conflicts"
  <2>1. order = << "pairs", "known" >>
    BY <1>6 DEF Selects, SelectOrder
  <2> HIDE DEF order
  <2> QED
    BY <1>2, <1>6, <2>1 DEF seen
<1>7. CASE c.operation = "open_conflicts"
  <2>1. order = << "pairs", "known", "current" >>
    BY <1>7 DEF Selects, SelectOrder
  <2> HIDE DEF order
  <2> QED
    BY <1>2, <1>7, <2>1 DEF seen
<1>8. CASE c.operation = "experience"
  <2>1. order = << "current", "log", "links", "roles", "rows", "pairs", "known",
                   "attempted", "cited", "evidence" >>
    BY <1>8 DEF Selects, SelectOrder
  <2> HIDE DEF order
  <2>2. "evidence" \in seen => done = 10
    BY <1>2, <2>1
  <2>3. "evidence" \in seen => seen = Words
    BY <1>2, <2>1, <2>2 DEF Words
  <2> QED
    BY <1>2, <1>8, <2>1, <2>3 DEF seen
<1> QED
  BY <1>1, <1>3, <1>4, <1>5, <1>6, <1>7, <1>8

(* A SELECT reads what was not read yet, and is the next in order. *)
LEMMA SelectFacts ==
    ASSUME NEW c, c.operation \in Operations, InOrder(c), c.left # << >>,
           NEW next, next.operation = c.operation, next.left = Tail(c.left),
           DOMAIN next.view = DOMAIN c.view \cup {Head(c.left)}
    PROVE  Head(c.left) \in Words \ DOMAIN c.view /\ InOrder(next)
<1> DEFINE order == Selects(c.operation)
<1>1. PICK done \in 0 .. Len(order) :
        c.left = SubSeq(order, done + 1, Len(order)) /\ DOMAIN c.view = {order[i] : i \in 1 .. done}
  BY DEF InOrder
<1>2. /\ order \in Seq(Words) /\ Len(order) \in Nat
      /\ \A i, j \in 1 .. Len(order) : order[i] = order[j] => i = j
  BY OrderFacts
<1> HIDE DEF order
<1>3. done + 1 <= Len(order)
  <2>1. done + 1 > Len(order) => c.left = << >>
    BY <1>1, <1>2, SubSeqEmpty
  <2> QED
    BY <1>1, <1>2, <2>1
<1>4. /\ Head(c.left) = order[done + 1]
      /\ Tail(c.left) = SubSeq(order, done + 1 + 1, Len(order))
  BY <1>1, <1>2, <1>3, HeadTailOfSubSeq
<1>5. order[done + 1] \in Words
  BY <1>2, <1>3
<1>6. \A i \in 1 .. done : order[i] # order[done + 1]
  BY <1>2, <1>3
<1>7. DOMAIN next.view = {order[i] : i \in 1 .. done + 1}
  BY <1>1, <1>4
<1> QED
  <2>1. done + 1 \in 0 .. Len(order)
    BY <1>2, <1>3
  <2>2. Head(c.left) \in Words \ DOMAIN c.view
    BY <1>1, <1>4, <1>5, <1>6
  <2>3. Tail(c.left) = SubSeq(order, (done + 1) + 1, Len(order))
        /\ DOMAIN next.view = {order[i] : i \in 1 .. (done + 1)}
    BY <1>4, <1>7
  <2>4. PICK now : now = done + 1
    OBVIOUS
  <2>5. /\ order = Selects(next.operation) /\ now \in 0 .. Len(order)
        /\ next.left = SubSeq(order, now + 1, Len(order))
        /\ DOMAIN next.view = {order[i] : i \in 1 .. now}
    BY <2>1, <2>3, <2>4 DEF order
  <2>6. /\ now \in 0 .. Len(Selects(next.operation))
        /\ next.left = SubSeq(Selects(next.operation), now + 1, Len(Selects(next.operation)))
        /\ DOMAIN next.view = {Selects(next.operation)[i] : i \in 1 .. now}
    BY <2>5, Zenon
  <2>7. InOrder(next)
    BY <2>6, Zenon DEF InOrder
  <2> QED
    BY <2>2, <2>7

(* A call is done when all of its SELECTs are. *)
LEMMA DoneFacts ==
    ASSUME NEW c, c.operation \in Operations, InOrder(c), c.left = << >>
    PROVE  DOMAIN c.view = Range(Selects(c.operation))
<1> DEFINE order == Selects(c.operation)
<1>1. PICK done \in 0 .. Len(order) :
        c.left = SubSeq(order, done + 1, Len(order)) /\ DOMAIN c.view = {order[i] : i \in 1 .. done}
  BY DEF InOrder
<1>2. order \in Seq(Words) /\ Len(order) \in Nat /\ DOMAIN order = 1 .. Len(order)
  BY OrderFacts
<1> HIDE DEF order
<1>3. done = Len(order)
  <2>1. Len(SubSeq(order, done + 1, Len(order)))
          = IF done + 1 <= Len(order) THEN Len(order) - (done + 1) + 1 ELSE 0
    <3>1. \A i \in done + 1 .. Len(order) : order[i] \in Words
      BY <1>1, <1>2
    <3> QED
      BY <1>1, <1>2, <3>1, SubSeqProperties
  <2>2. Len(c.left) = 0
    OBVIOUS
  <2>3. done + 1 <= Len(order) => Len(order) - (done + 1) + 1 > 0
    BY <1>1, <1>2
  <2>4. ~(done + 1 <= Len(order))
    BY <1>1, <2>1, <2>2, <2>3
  <2>5. done \in Nat /\ Len(order) \in Nat /\ done <= Len(order)
    BY <1>1, <1>2
  <2> QED
    BY <2>4, <2>5
<1> QED
  BY <1>1, <1>2, <1>3 DEF Range, order

----------------------------------------------------------------------------
(* What a commit leaves as it was *)

(* All that the writers may do to what a reader has read. *)
Grown ==
    /\ IsRestriction(memories, memories')
    /\ IsRestriction(attempts, attempts')
    /\ IsRestriction(conflicts, conflicts')
    /\ IsRestriction(log, log')

LEMMA WritesGrow ==
    ASSUME IInv, [Next]_vars
    PROVE  Grown
<1>1. CASE Next
  BY <1>1, StepGrows, StepExtendsLog DEF Next, Grown
<1>2. CASE UNCHANGED vars
  BY <1>2 DEF vars, Grown, IsRestriction
<1> QED
  BY <1>1, <1>2

(* A memory and its recording, in any history that matches its tables. *)
LEMMA HistoryFacts ==
    ASSUME NEW history \in Seq(Events), NEW rows, NEW attempted, NEW promoted,
           LogMatches(history, rows, attempted, promoted)
    PROVE  /\ \A i \in DOMAIN history :
                history[i].kind = "memory_recorded" =>
                   /\ history[i].subject \in DOMAIN rows
                   /\ history[i] = Event("memory_recorded", history[i].subject)
           /\ \A i \in DOMAIN history :
                history[i].kind = "attempt_recorded" => history[i].subject \in DOMAIN attempted
           /\ \A m \in DOMAIN rows :
                \E i \in DOMAIN history : history[i] = Event("memory_recorded", m)
           /\ \A i, j \in DOMAIN history : history[i] = history[j] => i = j
<1>1. \A i \in DOMAIN history : history[i] \in Events
  OBVIOUS
<1>2. \A i \in DOMAIN history : history[i] = [kind |-> history[i].kind, subject |-> history[i].subject]
  BY <1>1 DEF Events, EventsOn
<1>3. \A i \in DOMAIN history :
        /\ history[i].kind = "memory_recorded" => history[i].subject \in DOMAIN rows
        /\ history[i].kind = "attempt_recorded" => history[i].subject \in DOMAIN attempted
  BY DEF LogMatches
<1>4. \A m \in DOMAIN rows : \E i \in DOMAIN history : history[i] = Event("memory_recorded", m)
  BY DEF LogMatches, Range
<1>5. \A i, j \in DOMAIN history : history[i] = history[j] => i = j
  BY DEF LogMatches, IsInjective
<1> QED
  BY <1>2, <1>3, <1>4, <1>5 DEF Event

LEMMA LogFacts ==
    ASSUME TypeOK, LogMatchesTables
    PROVE  /\ \A i \in DOMAIN log :
                log[i].kind = "memory_recorded" =>
                   /\ log[i].subject \in DOMAIN memories
                   /\ log[i] = Event("memory_recorded", log[i].subject)
           /\ \A i \in DOMAIN log :
                log[i].kind = "attempt_recorded" => log[i].subject \in DOMAIN attempts
           /\ \A m \in DOMAIN memories :
                \E i \in DOMAIN log : log[i] = Event("memory_recorded", m)
           /\ \A i, j \in DOMAIN log : log[i] = log[j] => i = j
  BY HistoryFacts DEF TypeOK, LogMatchesTables

LEMMA WholeStays ==
    ASSUME Grown, NEW id \in DOMAIN memories
    PROVE  id \in DOMAIN memories' /\ Whole(id)' = Whole(id)
  BY DEF Grown, IsRestriction, Whole

(* What was told of given memories is told of them for ever: their events  *)
(* keep their places, and no later event records one of them again.        *)
LEMMA TellStays ==
    ASSUME TypeOK, TypeOK', LogMatchesTables, LogMatchesTables', Grown,
           NEW ids, ids \subseteq DOMAIN memories
    PROVE  TellNow(ids)' = TellNow(ids)
<1> DEFINE places == {n \in DOMAIN log : log[n].kind = "memory_recorded" /\ log[n].subject \in ids}
<1>1. \A n \in DOMAIN log : n \in DOMAIN log' /\ log'[n] = log[n]
  BY DEF Grown, IsRestriction
<1>2. ASSUME NEW n \in DOMAIN log', log'[n].kind = "memory_recorded", log'[n].subject \in ids
      PROVE  n \in places
  <2>1. /\ log'[n] = Event("memory_recorded", log'[n].subject)
        /\ \A i \in DOMAIN log' : log'[i] = log'[n] => i = n
    BY <1>2, HistoryFacts DEF TypeOK, LogMatchesTables
  <2>2. PICK j \in DOMAIN log : log[j] = Event("memory_recorded", log'[n].subject)
    BY <1>2, LogFacts
  <2>3. n = j
    BY <1>1, <2>1, <2>2
  <2> QED
    BY <1>1, <1>2, <2>3
<1>3. places' = places
  BY <1>1, <1>2
<1>4. \A n \in places : log'[n] = log[n] /\ Whole(log[n].subject)' = Whole(log[n].subject)
  <2>1. \A id \in ids : Whole(id)' = Whole(id)
    BY WholeStays
  <2> QED
    BY <1>1, <2>1
<1> QED
  BY <1>3, <1>4 DEF TellNow

LEMMA ViewStays ==
    ASSUME Grown, NEW view, ViewIsPast(view)
    PROVE  ViewIsPast(view)'
<1>1. \A id \in DOMAIN memories : id \in DOMAIN memories' /\ memories'[id] = memories[id]
  BY DEF Grown, IsRestriction
<1>2. \A a \in DOMAIN attempts : a \in DOMAIN attempts' /\ attempts'[a] = attempts[a]
  BY DEF Grown, IsRestriction
<1>3. \A i \in DOMAIN log : i \in DOMAIN log' /\ log'[i] = log[i]
  BY DEF Grown, IsRestriction
<1>4. DOMAIN conflicts \subseteq DOMAIN conflicts'
  BY DEF Grown, IsRestriction
<1>5. "rows" \in DOMAIN view => IsRestriction(view.rows, memories')
  BY <1>1 DEF ViewIsPast, IsRestriction
<1>6. "cited" \in DOMAIN view => IsRestriction(view.cited, attempts')
  BY <1>2 DEF ViewIsPast, IsRestriction
<1>7. "links" \in DOMAIN view =>
        \A id \in DOMAIN view.links :
           id \in DOMAIN memories' /\ view.links[id] = memories'[id].fact.evidence_ids
  BY <1>1 DEF ViewIsPast
<1>8. "roles" \in DOMAIN view =>
        \A id \in DOMAIN view.roles :
           id \in DOMAIN memories' /\ view.roles[id] = memories'[id].fact.supporting_evidence_ids
  BY <1>1 DEF ViewIsPast
<1>9. "log" \in DOMAIN view =>
        \A i \in DOMAIN view.log :
           i \in DOMAIN log' /\ log'[i] = Event("memory_recorded", view.log[i])
  BY <1>3 DEF ViewIsPast
<1>10. "current" \in DOMAIN view => view.current \subseteq DOMAIN memories'
  BY <1>1 DEF ViewIsPast
<1>11. /\ "pairs" \in DOMAIN view => view.pairs \subseteq DOMAIN conflicts'
       /\ "attempted" \in DOMAIN view => Range(view.attempted) \subseteq DOMAIN attempts'
  BY <1>2, <1>4 DEF ViewIsPast
<1> QED
  BY <1>5, <1>6, <1>7, <1>8, <1>9, <1>10, <1>11 DEF ViewIsPast, Event

(* The ids a view of the log names are those of memories. *)
LEMMA LoggedIds ==
    ASSUME TypeOK, LogMatchesTables, NEW view, ViewIsPast(view), "log" \in DOMAIN view
    PROVE  /\ \A i \in DOMAIN view.log : view.log[i] \in DOMAIN memories
           /\ \A i \in DOMAIN Told(view) :
                /\ Told(view)[i] \in DOMAIN memories
                /\ i \in DOMAIN view.log
                /\ Told(view)[i] = view.log[i]
                /\ view.log[i] \in view.current
<1>1. \A i \in DOMAIN view.log : i \in DOMAIN log /\ log[i] = Event("memory_recorded", view.log[i])
  BY DEF ViewIsPast
<1>2. \A i \in DOMAIN view.log : view.log[i] \in DOMAIN memories
  BY <1>1, LogFacts, EventFacts
<1> QED
  BY <1>2 DEF Told, Restrict

LEMMA BegunWholeStays ==
    ASSUME TypeOK, TypeOK', LogMatchesTables, LogMatchesTables', Grown,
           NEW c, NEW m, ViewIsPast(c.view), BegunWhole(c, m)
    PROVE  BegunWhole(c, m)'
<1>1. \A id \in DOMAIN memories : Whole(id)' = Whole(id)
  BY WholeStays
<1>2. ASSUME "log" \in DOMAIN c.view
      PROVE  /\ [i \in DOMAIN c.view.log |-> Whole(c.view.log[i])]'
                  = [i \in DOMAIN c.view.log |-> Whole(c.view.log[i])]
             /\ [i \in DOMAIN Told(c.view) |-> Whole(Told(c.view)[i])]'
                  = [i \in DOMAIN Told(c.view) |-> Whole(Told(c.view)[i])]
  <2>1. /\ \A i \in DOMAIN c.view.log : c.view.log[i] \in DOMAIN memories
        /\ \A i \in DOMAIN Told(c.view) : Told(c.view)[i] \in DOMAIN memories
    BY <1>2, LoggedIds
  <2>2. Told(c.view)' = Told(c.view)
    BY DEF Told
  <2> QED
    BY <1>1, <2>1, <2>2
<1>3. "current" \in DOMAIN c.view => TellNow(c.view.current)' = TellNow(c.view.current)
  <2>1. "current" \in DOMAIN c.view => c.view.current \subseteq DOMAIN memories
    BY DEF ViewIsPast
  <2> QED
    BY <2>1, TellStays
<1>4. ASSUME "rows" \in DOMAIN c.view
      PROVE  {Whole(id) : id \in CurrentIds(c.view.rows)}' = {Whole(id) : id \in CurrentIds(c.view.rows)}
  <2>1. CurrentIds(c.view.rows) \subseteq DOMAIN memories
    BY <1>4 DEF CurrentIds, ViewIsPast, IsRestriction
  <2>2. CurrentIds(c.view.rows)' = CurrentIds(c.view.rows)
    BY DEF CurrentIds
  <2> QED
    BY <1>1, <2>1, <2>2
<1>5. FirstTold(c, m)' = FirstTold(c, m)
  BY DEF FirstTold
<1> QED
  BY <1>2, <1>3, <1>4, <1>5 DEF BegunWhole

LEMMA PairsStay ==
    ASSUME Grown, NEW c, NEW m, PairsBracketed(c, m)
    PROVE  PairsBracketed(c, m)'
<1>1. DOMAIN conflicts \subseteq DOMAIN conflicts'
  BY DEF Grown, IsRestriction
<1>2. BothIn(c.view.pairs, c.view.current)' = BothIn(c.view.pairs, c.view.current)
  BY DEF BothIn
<1> QED
  BY <1>1, <1>2 DEF PairsBracketed

(* A call is as sound after a commit as before. *)
LEMMA CallStaysSound ==
    ASSUME TypeOK, TypeOK', LogMatchesTables, LogMatchesTables', Grown,
           NEW c, NEW m, CallIsSound(c, m)
    PROVE  CallIsSound(c, m)'
<1>1. ViewIsPast(c.view)'
  BY ViewStays DEF CallIsSound
<1>2. BegunWhole(c, m)'
  BY BegunWholeStays DEF CallIsSound
<1>3. PairsBracketed(c, m)'
  BY PairsStay DEF CallIsSound
<1>4. InOrder(c)' /\ LaterCovers(c.operation, c.view)'
  BY DEF CallIsSound, InOrder, LaterCovers, Selects, SelectOrder, PairsBroken, Needed, Told, IsVerifiedLesson
<1> QED
  BY <1>1, <1>2, <1>3, <1>4 DEF CallIsSound

----------------------------------------------------------------------------
(* What a SELECT returns *)

LEMMA DatabaseFacts ==
    /\ Database["current"] = CurrentIds(memories)
    /\ Database["rows"] = memories
    /\ Database["log"] = Subjects("memory_recorded")
    /\ Database["links"] = [m \in DOMAIN memories |-> memories[m].fact.evidence_ids]
    /\ Database["roles"] = [m \in DOMAIN memories |-> memories[m].fact.supporting_evidence_ids]
    /\ Database["pairs"] = DOMAIN conflicts
    /\ Database["known"] = DOMAIN memories
    /\ Database["attempted"] = Subjects("attempt_recorded")
    /\ Database["cited"] = attempts
    /\ Database["evidence"] = DOMAIN evidence
  BY DEF Database

LEMMA SelectIs ==
    ASSUME NEW view, NEW what, what \notin DOMAIN view
    PROVE  /\ DOMAIN Select(view, what) = DOMAIN view \cup {what}
           /\ Select(view, what)[what] = Database[what]
           /\ \A w \in DOMAIN view : w # what /\ Select(view, what)[w] = view[w]
  BY DEF Select

(* The logged ids of one kind are at the places of their events. *)
LEMMA SubjectFacts ==
    ASSUME NEW kind
    PROVE  /\ DOMAIN Subjects(kind) = {n \in DOMAIN log : log[n].kind = kind}
           /\ \A i \in DOMAIN Subjects(kind) : Subjects(kind)[i] = log[i].subject
  BY DEF Subjects

LEMMA SubjectsNow ==
    ASSUME TypeOK, LogMatchesTables
    PROVE  /\ \A i \in DOMAIN Subjects("memory_recorded") :
                i \in DOMAIN log /\ log[i] = Event("memory_recorded", Subjects("memory_recorded")[i])
           /\ Range(Subjects("memory_recorded")) = DOMAIN memories
           /\ Range(Subjects("attempt_recorded")) \subseteq DOMAIN attempts
<1>1. ASSUME NEW recorded, recorded = Subjects("memory_recorded")
      PROVE  /\ \A i \in DOMAIN recorded : i \in DOMAIN log /\ log[i] = Event("memory_recorded", recorded[i])
             /\ Range(recorded) = DOMAIN memories
  <2>1. /\ DOMAIN recorded = {n \in DOMAIN log : log[n].kind = "memory_recorded"}
        /\ \A i \in DOMAIN recorded : recorded[i] = log[i].subject
    BY <1>1, SubjectFacts
  <2>2. \A m \in DOMAIN memories : \E i \in DOMAIN recorded : recorded[i] = m
    BY <2>1, LogFacts, EventFacts
  <2>3. \A i \in DOMAIN recorded :
           log[i] = Event("memory_recorded", recorded[i]) /\ recorded[i] \in DOMAIN memories
    BY <2>1, LogFacts
  <2> QED
    BY <2>1, <2>2, <2>3 DEF Range
<1>2. ASSUME NEW attempted, attempted = Subjects("attempt_recorded")
      PROVE  Range(attempted) \subseteq DOMAIN attempts
  <2>1. /\ DOMAIN attempted = {n \in DOMAIN log : log[n].kind = "attempt_recorded"}
        /\ \A i \in DOMAIN attempted : attempted[i] = log[i].subject
    BY <1>2, SubjectFacts
  <2> QED
    BY <2>1, LogFacts DEF Range
<1> QED
  BY <1>1, <1>2

LEMMA RowRebuilt ==
    ASSUME NEW row \in MemoryRows
    PROVE  [row EXCEPT !.fact.evidence_ids = row.fact.evidence_ids,
                       !.fact.supporting_evidence_ids = row.fact.supporting_evidence_ids] = row
<1>1. row = [fact |-> row.fact, recorded_at |-> row.recorded_at] /\ row.fact \in Facts
  BY DEF MemoryRows
<1> QED
  BY <1>1 DEF Facts

(* A row put together from what was read of it is the row. *)
LEMMA AssembledIsWhole ==
    ASSUME TypeOK, NEW view, NEW id \in DOMAIN memories,
           id \in DOMAIN view.links, view.links[id] = memories[id].fact.evidence_ids,
           id \in DOMAIN view.roles, view.roles[id] = memories[id].fact.supporting_evidence_ids,
           view.rows[id] = memories[id]
    PROVE  Assembled(view, id) = Whole(id)
<1>1. memories[id] \in MemoryRows
  BY DEF TypeOK, IsTable
<1>2. /\ Lookup(view.links, id, << >>) = memories[id].fact.evidence_ids
      /\ Lookup(view.roles, id, {}) = memories[id].fact.supporting_evidence_ids
  BY DEF Lookup
<1> QED
  BY <1>1, <1>2, RowRebuilt DEF Assembled, Whole

LEMMA AssembledNow ==
    ASSUME TypeOK, NEW id \in DOMAIN memories
    PROVE  Assembled(Database, id) = Whole(id)
<1>1. /\ id \in DOMAIN Database.links /\ Database.links[id] = memories[id].fact.evidence_ids
      /\ id \in DOMAIN Database.roles /\ Database.roles[id] = memories[id].fact.supporting_evidence_ids
      /\ Database.rows[id] = memories[id]
  BY DatabaseFacts
<1> QED
  BY <1>1, AssembledIsWhole

(* What each operation would answer in one instant. *)
LEMMA AnswersNow ==
    ASSUME TypeOK, LogMatchesTables
    PROVE  /\ Answer("timeline", Database)
                = [i \in DOMAIN Subjects("memory_recorded") |-> Whole(Subjects("memory_recorded")[i])]
           /\ Answer("state", Database) = TellNow(CurrentIds(memories))
           /\ Answer("recall", Database) = {Whole(id) : id \in CurrentIds(memories)}
           /\ Answer("conflicts", Database) = DOMAIN conflicts
           /\ Answer("open_conflicts", Database) = BothIn(DOMAIN conflicts, CurrentIds(memories))
           /\ Answer("experience", Database).memories = TellNow(CurrentIds(memories))
           /\ Answer("experience", Database).conflicts = BothIn(DOMAIN conflicts, CurrentIds(memories))
<1> DEFINE recorded == Subjects("memory_recorded")
           current == CurrentIds(memories)
<1>0. /\ DOMAIN recorded = {n \in DOMAIN log : log[n].kind = "memory_recorded"}
      /\ \A i \in DOMAIN recorded : recorded[i] = log[i].subject
  BY SubjectFacts
<1>1. \A i \in DOMAIN recorded : recorded[i] \in DOMAIN memories
  <2> HIDE DEF recorded
  <2> QED
    BY <1>0, LogFacts
<1>2. \A id \in DOMAIN memories : Assembled(Database, id) = Whole(id)
  BY AssembledNow
<1>3. current \subseteq DOMAIN memories
  BY DEF CurrentIds
<1>4. /\ DOMAIN Told(Database) = {n \in DOMAIN log : log[n].kind = "memory_recorded" /\ log[n].subject \in current}
      /\ \A i \in DOMAIN Told(Database) : Told(Database)[i] = log[i].subject
  <2>1. Told(Database) = [i \in {n \in DOMAIN recorded : recorded[n] \in current} |-> recorded[i]]
    BY DatabaseFacts DEF Told, Restrict
  <2> HIDE DEF recorded, current
  <2> QED
    BY <1>0, <2>1
<1>5. [i \in DOMAIN Told(Database) |-> Assembled(Database, Told(Database)[i])] = TellNow(current)
  <2>1. \A i \in DOMAIN Told(Database) : Assembled(Database, Told(Database)[i]) = Whole(log[i].subject)
    BY <1>2, <1>3, <1>4
  <2> QED
    BY <1>4, <2>1 DEF TellNow
<1>6. Answer("timeline", Database) = [i \in DOMAIN recorded |-> Whole(recorded[i])]
  BY <1>1, <1>2, DatabaseFacts DEF Answer
<1>7. Answer("recall", Database) = {Whole(id) : id \in current}
  BY <1>2, <1>3, DatabaseFacts DEF Answer
<1>8. /\ Answer("conflicts", Database) = DOMAIN conflicts
      /\ Answer("open_conflicts", Database) = BothIn(DOMAIN conflicts, current)
  BY DatabaseFacts DEF Answer
<1>9. Answer("state", Database) = TellNow(current)
  BY <1>5 DEF Answer
<1>10. /\ Answer("experience", Database).memories = TellNow(current)
       /\ Answer("experience", Database).conflicts = BothIn(DOMAIN conflicts, current)
  BY <1>5, DatabaseFacts DEF Answer
<1> QED
  BY <1>6, <1>7, <1>8, <1>9, <1>10

----------------------------------------------------------------------------
(* What a SELECT keeps *)

LEMMA ViewRead ==
    ASSUME TypeOK, LogMatchesTables,
           NEW view, ViewIsPast(view), NEW what \in Words \ DOMAIN view
    PROVE  ViewIsPast(Select(view, what))
<1> DEFINE after == Select(view, what)
<1>1. /\ DOMAIN after = DOMAIN view \cup {what}
      /\ after[what] = Database[what]
      /\ \A w \in DOMAIN view : after[w] = view[w]
  BY SelectIs
<1> HIDE DEF after
<1>2. "current" \in DOMAIN after => after.current \subseteq DOMAIN memories
  BY <1>1, DatabaseFacts DEF ViewIsPast, CurrentIds
<1>3. "rows" \in DOMAIN after => IsRestriction(after.rows, memories)
  BY <1>1, DatabaseFacts DEF ViewIsPast, IsRestriction
<1>4. "links" \in DOMAIN after =>
        \A id \in DOMAIN after.links :
           id \in DOMAIN memories /\ after.links[id] = memories[id].fact.evidence_ids
  BY <1>1, DatabaseFacts DEF ViewIsPast
<1>5. "roles" \in DOMAIN after =>
        \A id \in DOMAIN after.roles :
           id \in DOMAIN memories /\ after.roles[id] = memories[id].fact.supporting_evidence_ids
  BY <1>1, DatabaseFacts DEF ViewIsPast
<1>6. "log" \in DOMAIN after =>
        \A i \in DOMAIN after.log :
           i \in DOMAIN log /\ log[i] = Event("memory_recorded", after.log[i])
  BY <1>1, SubjectsNow, DatabaseFacts DEF ViewIsPast
<1>7. "pairs" \in DOMAIN after => after.pairs \subseteq DOMAIN conflicts
  BY <1>1, DatabaseFacts DEF ViewIsPast
<1>8. "attempted" \in DOMAIN after => Range(after.attempted) \subseteq DOMAIN attempts
  BY <1>1, SubjectsNow, DatabaseFacts DEF ViewIsPast
<1>9. "cited" \in DOMAIN after => IsRestriction(after.cited, attempts)
  BY <1>1, DatabaseFacts DEF ViewIsPast, IsRestriction
<1> QED
  BY <1>2, <1>3, <1>4, <1>5, <1>6, <1>7, <1>8, <1>9 DEF ViewIsPast, after

(* What the experience needs is on record, once all but the evidence has   *)
(* been read.                                                              *)
LEMMA NeededIsRecorded ==
    ASSUME LinksResolve, NEW view, ViewIsPast(view),
           "links" \in DOMAIN view, "cited" \in DOMAIN view,
           Range(view.attempted) \subseteq DOMAIN view.cited
    PROVE  Needed(view) \subseteq DOMAIN evidence
<1>1. ASSUME NEW id PROVE Range(Lookup(view.links, id, << >>)) \subseteq DOMAIN evidence
  <2>1. CASE id \in DOMAIN view.links
    BY <2>1 DEF Lookup, ViewIsPast, LinksResolve
  <2>2. CASE id \notin DOMAIN view.links
    BY <2>2 DEF Lookup, Range
  <2> QED
    BY <2>1, <2>2
<1>2. ASSUME NEW a \in Range(view.attempted) PROVE Range(view.cited[a]) \subseteq DOMAIN evidence
  BY <1>2 DEF ViewIsPast, IsRestriction, LinksResolve
<1> QED
  BY <1>1, <1>2 DEF Needed

(* The next SELECT of a call, and the moment it adds. *)
IsSelect(c, what, next) ==
    /\ c.operation \in Operations
    /\ InOrder(c)
    /\ ViewIsPast(c.view)
    /\ what \in Words \ DOMAIN c.view
    /\ next.operation = c.operation
    /\ next.view = Select(c.view, what)
    /\ InOrder(next)
    /\ ViewIsPast(next.view)

IsMoment(c, m, m2) ==
    /\ DOMAIN c.view = {} <=> m = << >>
    /\ m = << >> => m2[1] = Answer(c.operation, Database)
    /\ m # << >> => m2[1] = m[1]
    /\ c.operation # "experience" => m2[Len(m2)] = Answer(c.operation, Database)

LEMMA IsSelectFacts ==
    ASSUME NEW c, NEW what, NEW next, IsSelect(c, what, next)
    PROVE  /\ DOMAIN next.view = DOMAIN c.view \cup {what}
           /\ next.view[what] = Database[what]
           /\ \A w \in DOMAIN c.view : w # what /\ next.view[w] = c.view[w]
  BY DEF IsSelect, Select

LEMMA CoverRead ==
    ASSUME TypeOK, LogMatchesTables, LinksResolve,
           NEW c, NEW what, NEW next, IsSelect(c, what, next),
           LaterCovers(c.operation, c.view)
    PROVE  LaterCovers(c.operation, next.view)
<1> DEFINE before == c.view
           after == next.view
<1>0. /\ c.operation \in Operations /\ InOrder(c) /\ ViewIsPast(before)
      /\ next.operation = c.operation /\ InOrder(next) /\ ViewIsPast(after)
      /\ what \in Words \ DOMAIN before
  BY DEF IsSelect
<1>1. /\ DOMAIN after = DOMAIN before \cup {what}
      /\ after[what] = Database[what]
      /\ \A w \in DOMAIN before : w # what /\ after[w] = before[w]
  BY IsSelectFacts
<1>2. ASSUME c.operation \in {"state", "timeline", "experience"},
             NEW w \in {"links", "roles", "rows"} \cap DOMAIN after
      PROVE  Range(after.log) \subseteq DOMAIN after[w]
  <2>1. "log" \in DOMAIN after
    BY <1>0, <1>2, EarlierIsSeen
  <2>2. CASE w = what
    <3>1. DOMAIN after[w] = DOMAIN memories
      BY <1>0, <1>1, <1>2, <2>2, DatabaseFacts
    <3>2. Range(after.log) \subseteq DOMAIN memories
      BY <1>0, <2>1, LoggedIds DEF Range
    <3> QED
      BY <3>1, <3>2
  <2>3. CASE w # what
    <3>1. w \in DOMAIN before /\ "log" \in DOMAIN before
      BY <1>0, <1>1, <1>2, <2>3, EarlierIsSeen
    <3>2. Range(before.log) \subseteq DOMAIN before[w]
      BY <1>0, <1>2, <3>1 DEF LaterCovers
    <3> QED
      BY <1>0, <1>1, <3>1, <3>2
  <2> QED
    BY <2>2, <2>3
<1>3. ASSUME c.operation \in {"state", "experience"}, "log" \in DOMAIN after
      PROVE  after.current \subseteq Range(after.log)
  <2>1. CASE what = "log"
    <3>1. after.current \subseteq DOMAIN memories
      BY <1>0, <1>3, EarlierIsSeen DEF ViewIsPast
    <3>2. after.log = Subjects("memory_recorded")
      BY <1>0, <1>1, <2>1, DatabaseFacts
    <3> QED
      BY <3>1, <3>2, SubjectsNow
  <2>2. CASE what # "log"
    <3>1. "log" \in DOMAIN before /\ "current" \in DOMAIN before
      BY <1>0, <1>1, <1>3, <2>2, EarlierIsSeen
    <3> QED
      BY <1>0, <1>1, <1>3, <3>1 DEF LaterCovers
  <2> QED
    BY <2>1, <2>2
<1>4. ASSUME c.operation = "recall", NEW w \in {"links", "roles"} \cap DOMAIN after
      PROVE  DOMAIN after.rows \subseteq DOMAIN after[w]
  <2>1. "rows" \in DOMAIN after
    BY <1>0, <1>4, EarlierIsSeen
  <2>2. CASE w = what
    <3>1. DOMAIN after[w] = DOMAIN memories
      BY <1>0, <1>1, <1>4, <2>2, DatabaseFacts
    <3> QED
      BY <1>0, <2>1, <3>1 DEF ViewIsPast, IsRestriction
  <2>3. CASE w # what
    <3>1. w \in DOMAIN before /\ "rows" \in DOMAIN before
      BY <1>0, <1>1, <1>4, <2>3, EarlierIsSeen
    <3> QED
      BY <1>0, <1>1, <1>4, <3>1 DEF LaterCovers
  <2> QED
    BY <2>2, <2>3
<1>5. ASSUME "known" \in DOMAIN after PROVE ~PairsBroken(after)
  <2>1. "pairs" \in DOMAIN after
    BY <1>0, <1>5, EarlierIsSeen
  <2>2. CASE what = "known"
    <3>1. after.known = DOMAIN memories
      BY <1>0, <1>1, <2>2, DatabaseFacts
    <3> QED
      BY <1>0, <2>1, <3>1 DEF PairsBroken, ViewIsPast, LinksResolve
  <2>3. CASE what # "known"
    <3>1. "known" \in DOMAIN before /\ "pairs" \in DOMAIN before
      BY <1>0, <1>1, <1>5, <2>3, EarlierIsSeen
    <3> QED
      BY <1>0, <1>1, <3>1 DEF LaterCovers, PairsBroken
  <2> QED
    BY <2>2, <2>3
<1>6. ASSUME "cited" \in DOMAIN after PROVE Range(after.attempted) \subseteq DOMAIN after.cited
  <2>1. "attempted" \in DOMAIN after
    BY <1>0, <1>6, EarlierIsSeen
  <2>2. CASE what = "cited"
    <3>1. after.cited = attempts
      BY <1>0, <1>1, <2>2, DatabaseFacts
    <3> QED
      BY <1>0, <2>1, <3>1 DEF ViewIsPast
  <2>3. CASE what # "cited"
    <3>1. "cited" \in DOMAIN before /\ "attempted" \in DOMAIN before
      BY <1>0, <1>1, <1>6, <2>3, EarlierIsSeen
    <3> QED
      BY <1>0, <1>1, <3>1 DEF LaterCovers
  <2> QED
    BY <2>2, <2>3
<1>7. ASSUME "evidence" \in DOMAIN after PROVE Needed(after) \subseteq after.evidence
  <2>1. "links" \in DOMAIN after /\ "cited" \in DOMAIN after
    BY <1>0, <1>7, EarlierIsSeen DEF Words
  <2>2. what = "evidence"
    BY <1>0, <1>1, <1>7, EarlierIsSeen
  <2>3. after.evidence = DOMAIN evidence
    BY <1>0, <1>1, <2>2, DatabaseFacts
  <2> QED
    BY <1>0, <1>6, <2>1, <2>3, NeededIsRecorded
<1> QED
  BY <1>0, <1>2, <1>3, <1>4, <1>5, <1>6, <1>7 DEF LaterCovers

(* One moment more. *)
LEMMA MomentFacts ==
    ASSUME NEW m, m \in Seq(Range(m)), NEW answer
    PROVE  /\ Append(m, answer) \in Seq(Range(Append(m, answer)))
           /\ Append(m, answer) # << >>
           /\ Append(m, answer)[Len(Append(m, answer))] = answer
           /\ Append(m, answer)[1] = IF m = << >> THEN answer ELSE m[1]
<1> DEFINE All == Range(m) \cup {answer}
           longer == Append(m, answer)
<1>1. /\ m \in Seq(All) /\ Len(m) \in Nat
      /\ \A i \in 1 .. Len(m) : m[i] \in All
  OBVIOUS
<1>2. /\ longer \in Seq(All)
      /\ Len(longer) = Len(m) + 1
      /\ longer[Len(m) + 1] = answer
      /\ \A i \in 1 .. Len(m) : longer[i] = m[i]
      /\ DOMAIN longer = 1 .. (Len(m) + 1)
  <2> HIDE DEF All
  <2>1. answer \in All
    BY DEF All
  <2> QED
    BY <1>1, <2>1
<1>3. longer \in Seq(Range(longer))
  <2>1. \A i \in 1 .. Len(longer) : longer[i] \in Range(longer)
    BY <1>1, <1>2 DEF Range
  <2> HIDE DEF longer, All
  <2> QED
    BY <1>1, <1>2, <2>1
<1>4. longer[Len(longer)] = answer
  BY <1>2
<1>5. CASE m = << >>
  <2>1. Len(m) = 0
    BY <1>5
  <2>2. longer[1] = answer /\ longer # << >>
    BY <1>1, <1>2, <2>1
  <2> QED
    BY <1>3, <1>4, <1>5, <2>2
<1>6. CASE m # << >>
  <2>1. 1 \in 1 .. Len(m)
    BY <1>1, <1>6
  <2>2. longer[1] = m[1] /\ longer # << >>
    BY <1>1, <1>2, <2>1
  <2> QED
    BY <1>3, <1>4, <1>6, <2>2
<1> QED
  BY <1>5, <1>6

(* The log, read when the ids are known, tells what it told before. *)
LEMMA ToldNow ==
    ASSUME NEW view, view.log = Subjects("memory_recorded")
    PROVE  [i \in DOMAIN Told(view) |-> Whole(Told(view)[i])] = TellNow(view.current)
<1> DEFINE recorded == Subjects("memory_recorded")
<1>1. /\ DOMAIN recorded = {n \in DOMAIN log : log[n].kind = "memory_recorded"}
      /\ \A i \in DOMAIN recorded : recorded[i] = log[i].subject
  BY SubjectFacts
<1>2. Told(view) = [i \in {n \in DOMAIN recorded : recorded[n] \in view.current} |-> recorded[i]]
  BY DEF Told, Restrict
<1> HIDE DEF recorded
<1>3. /\ DOMAIN Told(view)
           = {n \in DOMAIN log : log[n].kind = "memory_recorded" /\ log[n].subject \in view.current}
      /\ \A i \in DOMAIN Told(view) : Told(view)[i] = log[i].subject
  BY <1>1, <1>2
<1> QED
  BY <1>3 DEF TellNow

LEMMA BegunRead ==
    ASSUME TypeOK, LogMatchesTables,
           NEW c, NEW what, NEW next, IsSelect(c, what, next),
           NEW m, NEW m2, IsMoment(c, m, m2), BegunWhole(c, m)
    PROVE  BegunWhole(next, m2)
<1> DEFINE before == c.view
           after == next.view
<1>0. /\ c.operation \in Operations /\ InOrder(c) /\ ViewIsPast(before)
      /\ next.operation = c.operation /\ InOrder(next) /\ ViewIsPast(after)
      /\ what \in Words \ DOMAIN before
      /\ DOMAIN before = {} <=> m = << >>
      /\ m = << >> => m2[1] = Answer(c.operation, Database)
      /\ m # << >> => m2[1] = m[1]
      /\ c.operation # "experience" => m2[Len(m2)] = Answer(c.operation, Database)
  BY DEF IsSelect, IsMoment
<1>1. /\ DOMAIN after = DOMAIN before \cup {what}
      /\ after[what] = Database[what]
      /\ \A w \in DOMAIN before : w # what /\ after[w] = before[w]
  BY IsSelectFacts
<1>2. ASSUME c.operation = "timeline", "log" \in DOMAIN after
      PROVE  m2[1] = [i \in DOMAIN after.log |-> Whole(after.log[i])]
  <2>1. CASE what = "log"
    <3>1. m = << >>
      BY <1>0, <1>1, <1>2, <2>1, EarlierIsSeen
    <3> QED
      BY <1>0, <1>1, <1>2, <2>1, <3>1, DatabaseFacts, AnswersNow
  <2>2. CASE what # "log"
    <3>1. "log" \in DOMAIN before /\ m # << >>
      BY <1>0, <1>1, <1>2, <2>2
    <3> QED
      BY <1>0, <1>1, <1>2, <3>1 DEF BegunWhole
  <2> QED
    BY <2>1, <2>2
<1>3. ASSUME c.operation \in {"state", "experience"}, "current" \in DOMAIN after
      PROVE  FirstTold(next, m2) = IF "log" \in DOMAIN after
                                   THEN [i \in DOMAIN Told(after) |-> Whole(Told(after)[i])]
                                   ELSE TellNow(after.current)
  <2>1. CASE what = "current"
    <3>1. m = << >> /\ "log" \notin DOMAIN after
      BY <1>0, <1>1, <1>3, <2>1, EarlierIsSeen
    <3>2. after.current = CurrentIds(memories)
      BY <1>0, <1>1, <2>1, DatabaseFacts
    <3> QED
      BY <1>0, <1>3, <3>1, <3>2, AnswersNow DEF FirstTold
  <2>2. CASE what # "current"
    <3>1. /\ "current" \in DOMAIN before /\ after.current = before.current
          /\ m # << >> /\ FirstTold(next, m2) = FirstTold(c, m)
      BY <1>0, <1>1, <1>3, <2>2 DEF FirstTold
    <3>2. CASE what = "log"
      <4>1. after.log = Subjects("memory_recorded")
        BY <1>0, <1>1, <3>2, DatabaseFacts
      <4>2. FirstTold(c, m) = TellNow(before.current)
        BY <1>0, <1>1, <1>3, <3>1, <3>2 DEF BegunWhole
      <4>3. [i \in DOMAIN Told(after) |-> Whole(Told(after)[i])] = TellNow(after.current)
        BY <4>1, ToldNow
      <4>4. "log" \in DOMAIN after
        BY <1>0, <1>1, <3>2
      <4> QED
        BY <3>1, <4>2, <4>3, <4>4
    <3>3. CASE "log" \in DOMAIN before
      <4>1. Told(after) = Told(before)
        BY <1>0, <1>1, <3>1, <3>3 DEF Told
      <4> QED
        BY <1>0, <1>1, <1>3, <3>1, <3>3, <4>1 DEF BegunWhole
    <3>4. CASE "log" \notin DOMAIN after
      BY <1>0, <1>1, <1>3, <3>1, <3>4 DEF BegunWhole
    <3> QED
      BY <1>0, <1>1, <3>2, <3>3, <3>4
  <2> QED
    BY <2>1, <2>2
<1>4. ASSUME c.operation = "recall", "rows" \in DOMAIN after
      PROVE  m2[1] = {Whole(id) : id \in CurrentIds(after.rows)}
  <2>1. CASE what = "rows"
    <3>1. m = << >>
      BY <1>0, <1>1, <1>4, <2>1, EarlierIsSeen
    <3> QED
      BY <1>0, <1>1, <1>4, <2>1, <3>1, DatabaseFacts, AnswersNow
  <2>2. CASE what # "rows"
    <3>1. "rows" \in DOMAIN before /\ m # << >>
      BY <1>0, <1>1, <1>4, <2>2
    <3> QED
      BY <1>0, <1>1, <1>4, <3>1 DEF BegunWhole
  <2> QED
    BY <2>1, <2>2
<1> QED
  BY <1>0, <1>2, <1>3, <1>4 DEF BegunWhole

LEMMA PairsRead ==
    ASSUME TypeOK, LogMatchesTables,
           NEW c, NEW what, NEW next, IsSelect(c, what, next),
           NEW m, NEW m2, IsMoment(c, m, m2), PairsBracketed(c, m)
    PROVE  PairsBracketed(next, m2)
<1> DEFINE before == c.view
           after == next.view
<1>0. /\ c.operation \in Operations /\ InOrder(c) /\ ViewIsPast(before)
      /\ next.operation = c.operation /\ InOrder(next) /\ ViewIsPast(after)
      /\ what \in Words \ DOMAIN before
      /\ DOMAIN before = {} <=> m = << >>
      /\ m = << >> => m2[1] = Answer(c.operation, Database)
      /\ m # << >> => m2[1] = m[1]
      /\ c.operation # "experience" => m2[Len(m2)] = Answer(c.operation, Database)
  BY DEF IsSelect, IsMoment
<1>1. /\ DOMAIN after = DOMAIN before \cup {what}
      /\ after[what] = Database[what]
      /\ \A w \in DOMAIN before : w # what /\ after[w] = before[w]
  BY IsSelectFacts
<1>2. ASSUME c.operation \in {"conflicts", "open_conflicts"}, "pairs" \in DOMAIN after
      PROVE  /\ c.operation = "conflicts" => m2[1] = after.pairs
             /\ c.operation = "open_conflicts" => m2[1] \subseteq after.pairs
  <2>1. CASE what = "pairs"
    <3>1. m = << >> /\ after.pairs = DOMAIN conflicts
      BY <1>0, <1>1, <1>2, <2>1, EarlierIsSeen, DatabaseFacts
    <3> QED
      BY <1>0, <1>2, <3>1, AnswersNow DEF BothIn
  <2>2. CASE what # "pairs"
    <3>1. "pairs" \in DOMAIN before /\ m # << >> /\ after.pairs = before.pairs
      BY <1>0, <1>1, <1>2, <2>2
    <3> QED
      BY <1>0, <1>2, <3>1 DEF PairsBracketed
  <2> QED
    BY <2>1, <2>2
<1>3. ASSUME c.operation = "open_conflicts", "current" \in DOMAIN after
      PROVE  /\ BothIn(after.pairs, after.current) \subseteq m2[Len(m2)]
             /\ \A pair \in m2[Len(m2)] : {pair[1], pair[2]} \subseteq after.current
  <2>1. what = "current"
    BY <1>0, <1>1, <1>3, EarlierIsSeen
  <2>2. after.current = CurrentIds(memories)
    BY <1>0, <1>1, <2>1, DatabaseFacts
  <2>3. "pairs" \in DOMAIN before /\ after.pairs = before.pairs /\ before.pairs \subseteq DOMAIN conflicts
    BY <1>0, <1>1, <1>3, <2>1, EarlierIsSeen DEF ViewIsPast
  <2>4. m2[Len(m2)] = BothIn(DOMAIN conflicts, CurrentIds(memories))
    BY <1>0, <1>3, AnswersNow
  <2> QED
    BY <2>2, <2>3, <2>4 DEF BothIn
<1>4. ASSUME c.operation = "experience", "current" \in DOMAIN after
      PROVE  \A pair \in m2[1].conflicts :
                pair \in DOMAIN conflicts /\ {pair[1], pair[2]} \subseteq after.current
  <2>1. CASE what = "current"
    <3>1. m = << >> /\ after.current = CurrentIds(memories)
      BY <1>0, <1>1, <1>4, <2>1, EarlierIsSeen, DatabaseFacts
    <3> QED
      BY <1>0, <1>4, <3>1, AnswersNow DEF BothIn
  <2>2. CASE what # "current"
    <3>1. "current" \in DOMAIN before /\ m # << >> /\ after.current = before.current
      BY <1>0, <1>1, <1>4, <2>2
    <3> QED
      BY <1>0, <1>4, <3>1 DEF PairsBracketed
  <2> QED
    BY <2>1, <2>2
<1>5. ASSUME c.operation = "experience", "pairs" \in DOMAIN after
      PROVE  m2[1].conflicts \subseteq after.pairs
  <2>1. CASE what = "pairs"
    <3>1. after.pairs = DOMAIN conflicts
      BY <1>0, <1>1, <2>1, DatabaseFacts
    <3>2. "current" \in DOMAIN after
      BY <1>0, <1>5, EarlierIsSeen
    <3> QED
      BY <1>4, <1>5, <3>1, <3>2
  <2>2. CASE what # "pairs"
    <3>1. "pairs" \in DOMAIN before /\ m # << >> /\ after.pairs = before.pairs
      BY <1>0, <1>1, <1>5, <2>2
    <3> QED
      BY <1>0, <1>5, <3>1 DEF PairsBracketed
  <2> QED
    BY <2>1, <2>2
<1> QED
  BY <1>0, <1>2, <1>3, <1>4, <1>5 DEF PairsBracketed

----------------------------------------------------------------------------
(* A call is sound from its first SELECT to its last *)

LEMMA SelectKeepsSound ==
    ASSUME TypeOK, LogMatchesTables, LinksResolve, NEW c, NEW m, CallIsSound(c, m), c.left # << >>,
           NEW next, DOMAIN next = DOMAIN c, next.operation = c.operation,
           next.left = Tail(c.left), next.view = Select(c.view, Head(c.left)),
           NEW m2, m2 = IF c.operation = "experience" /\ m # << >> THEN m
                        ELSE Append(m, Answer(c.operation, Database))
    PROVE  CallIsSound(next, m2)
<1> PICK what : what = Head(c.left)
  OBVIOUS
<1>1. next.operation = c.operation /\ next.left = Tail(c.left) /\ next.view = Select(c.view, what)
  OBVIOUS
<1>2. DOMAIN next.view = DOMAIN c.view \cup {what}
  BY <1>1 DEF Select
<1>3. what \in Words \ DOMAIN c.view /\ InOrder(next)
  BY <1>1, <1>2, SelectFacts DEF CallIsSound
<1>4. /\ m2 \in Seq(Range(m2))
      /\ m2 # << >>
      /\ m = << >> => m2[1] = Answer(c.operation, Database)
      /\ m # << >> => m2[1] = m[1]
      /\ c.operation # "experience" => m2[Len(m2)] = Answer(c.operation, Database)
  <2>1. CASE c.operation = "experience" /\ m # << >>
    BY <2>1 DEF CallIsSound
  <2>2. CASE ~(c.operation = "experience" /\ m # << >>)
    <3>1. m2 = Append(m, Answer(c.operation, Database)) /\ m \in Seq(Range(m))
      BY <2>2 DEF CallIsSound
    <3>2. PICK answer : answer = Answer(c.operation, Database)
      OBVIOUS
    <3>3. /\ Append(m, answer) \in Seq(Range(Append(m, answer)))
          /\ Append(m, answer) # << >>
          /\ Append(m, answer)[Len(Append(m, answer))] = answer
          /\ Append(m, answer)[1] = IF m = << >> THEN answer ELSE m[1]
      BY <3>1, MomentFacts
    <3>4. m2 = Append(m, answer)
      BY <3>1, <3>2
    <3> QED
      BY <3>2, <3>3, <3>4
  <2> QED
    BY <2>1, <2>2
<1>5. ViewIsPast(next.view)
  BY <1>1, <1>3, ViewRead DEF CallIsSound
<1>6. IsSelect(c, what, next) /\ IsMoment(c, m, m2)
  BY <1>1, <1>3, <1>4, <1>5 DEF CallIsSound, IsSelect, IsMoment
<1>7. LaterCovers(c.operation, c.view) /\ BegunWhole(c, m) /\ PairsBracketed(c, m)
  BY DEF CallIsSound
<1>8. LaterCovers(c.operation, next.view) /\ BegunWhole(next, m2) /\ PairsBracketed(next, m2)
  BY <1>6, <1>7, CoverRead, BegunRead, PairsRead
<1> QED
  BY <1>1, <1>2, <1>3, <1>4, <1>5, <1>8 DEF CallIsSound

LEMMA FirstIsSound ==
    ASSUME NEW operation \in Operations
    PROVE  CallIsSound([operation |-> operation, left |-> Selects(operation), view |-> << >>], << >>)
<1> PICK c : c = [operation |-> operation, left |-> Selects(operation), view |-> << >>]
  OBVIOUS
<1>1. c.operation = operation /\ c.left = Selects(operation) /\ DOMAIN c.view = {}
  OBVIOUS
<1>2. InOrder(c)
  <2> DEFINE order == Selects(operation)
  <2>1. order = SubSeq(order, 1, Len(order)) /\ Len(order) \in Nat
    BY OrderFacts, SubSeqFull
  <2>2. {order[i] : i \in 1 .. 0} = {}
    OBVIOUS
  <2> HIDE DEF order
  <2>3. 0 \in 0 .. Len(order) /\ order = SubSeq(order, 0 + 1, Len(order))
    BY <2>1
  <2> QED
    BY <1>1, <2>2, <2>3 DEF InOrder, order
<1>3. ViewIsPast(c.view) /\ LaterCovers(c.operation, c.view)
  BY <1>1 DEF ViewIsPast, LaterCovers
<1>4. BegunWhole(c, << >>) /\ PairsBracketed(c, << >>)
  BY <1>1 DEF BegunWhole, PairsBracketed
<1>5. << >> \in Seq(Range(<< >>))
  OBVIOUS
<1> QED
  BY <1>1, <1>2, <1>3, <1>4, <1>5 DEF CallIsSound

(* The writers do not notice the readers. *)
LEMMA WritersAlone ==
    /\ AllInit => Init
    /\ [AllNext]_allVars => [Next]_vars
<1>1. AllNext => [Next]_vars
  BY DEF AllNext, Write, Read, BeginRead, ReadNext, Return
<1> QED
  BY <1>1 DEF AllInit, allVars

LEMMA ReadersStep ==
    ASSUME IInv, IInv', LogMatchesTables, LogMatchesTables', ReadersInv, [AllNext]_allVars
    PROVE  ReadersInv'
<1>1. Grown /\ TypeOK /\ TypeOK' /\ LinksResolve
  BY WritersAlone, WritesGrow DEF IInv
<1>2. \A c, m : CallIsSound(c, m) => CallIsSound(c, m)'
  BY <1>1, CallStaysSound
<1>3. ASSUME NEW r \in Readers, UNCHANGED << call[r], moments[r] >>
      PROVE  \A c \in {call'[r]}, m \in {moments'[r]} : (c = NoCall /\ m = << >>) \/ CallIsSound(c, m)'
  BY <1>2, <1>3 DEF ReadersInv
<1>4. CASE UNCHANGED << call, moments >>
  <2>1. \A r \in Readers : UNCHANGED << call[r], moments[r] >>
    BY <1>4
  <2> QED
    BY <1>3, <1>4, <2>1 DEF ReadersInv, NoCall
<1>5. ASSUME NEW r \in Readers, NEW c, NEW m,
             DOMAIN call' = Readers, call'[r] = c,
             DOMAIN moments' = Readers, moments'[r] = m,
             \A other \in Readers \ {r} : UNCHANGED << call[other], moments[other] >>,
             (c = NoCall /\ m = << >>) \/ CallIsSound(c, m)
      PROVE  ReadersInv'
  <2>1. (c = NoCall /\ m = << >>) \/ CallIsSound(c, m)'
    BY <1>2, <1>5
  <2>2. /\ DOMAIN call' = Readers /\ DOMAIN moments' = Readers
        /\ call'[r] = c /\ moments'[r] = m
        /\ \A other \in Readers \ {r} : UNCHANGED << call[other], moments[other] >>
    BY <1>5
  <2>3. ASSUME NEW other \in Readers
        PROVE  \A d \in {call'[other]}, n \in {moments'[other]} :
                  (d = NoCall /\ n = << >>) \/ CallIsSound(d, n)'
    <3>1. CASE other = r
      BY <2>1, <2>2, <3>1
    <3>2. CASE other # r
      BY <1>3, <2>2, <3>2
    <3> QED
      BY <3>1, <3>2
  <2> QED
    BY <2>2, <2>3 DEF ReadersInv, NoCall
<1>6. ASSUME NEW r \in Readers, BeginRead(r) PROVE ReadersInv'
  <2>1. PICK operation \in Operations :
          call' = [call EXCEPT ![r] = [operation |-> operation, left |-> Selects(operation), view |-> << >>]]
    BY <1>6 DEF BeginRead
  <2>2. moments[r] = << >>
    <3>1. call[r] = NoCall /\ call[r].operation \notin Operations
      BY <1>6, ReaderAssumption DEF BeginRead, NoCall
    <3> QED
      BY <3>1 DEF ReadersInv, CallIsSound
  <2>3. UNCHANGED moments /\ DOMAIN call = Readers /\ DOMAIN moments = Readers
    BY <1>6 DEF BeginRead, ReadersInv
  <2> QED
    BY <1>5, <2>1, <2>2, <2>3, FirstIsSound
<1>7. ASSUME NEW r \in Readers, ReadNext(r) PROVE ReadersInv'
  <2>1. PICK c, m : c = call[r] /\ m = moments[r]
    OBVIOUS
  <2>2. CallIsSound(c, m) /\ c.left # << >>
    BY <1>7, <2>1 DEF ReadNext, ReadersInv
  <2>3. PICK next : next = call'[r]
    OBVIOUS
  <2>4. PICK m2 : m2 = IF c.operation = "experience" /\ m # << >> THEN m
                       ELSE Append(m, Answer(c.operation, Database))
    OBVIOUS
  <2>5. DOMAIN call = Readers /\ DOMAIN moments = Readers
    BY DEF ReadersInv
  <2>6. /\ DOMAIN next = DOMAIN c /\ next.operation = c.operation
        /\ next.left = Tail(c.left) /\ next.view = Select(c.view, Head(c.left))
    <3>1. DOMAIN c = {"operation", "left", "view"}
      BY <2>2 DEF CallIsSound
    <3>2. call' = [call EXCEPT ![r].left = Tail(@), ![r].view = Select(@, Head(c.left))]
      BY <1>7, <2>1 DEF ReadNext
    <3> QED
      BY <2>1, <2>3, <2>5, <3>1, <3>2
  <2>7. moments' = [moments EXCEPT ![r] = m2]
    BY <1>7, <2>1, <2>4 DEF ReadNext
  <2>8. CallIsSound(next, m2)
    BY <1>1, <2>2, <2>4, <2>6, SelectKeepsSound
  <2>9. DOMAIN call' = Readers /\ \A other \in Readers \ {r} : UNCHANGED call[other]
    BY <1>7, <2>5 DEF ReadNext
  <2> QED
    BY <1>5, <2>3, <2>5, <2>7, <2>8, <2>9
<1>8. ASSUME NEW r \in Readers, Return(r) PROVE ReadersInv'
  BY <1>5, <1>8 DEF Return, ReadersInv
<1> QED
  BY <1>4, <1>6, <1>7, <1>8 DEF AllNext, Write, Read, allVars

----------------------------------------------------------------------------
(* What a sound call answers *)

LEMMA DoneSees ==
    ASSUME NEW c, c.operation \in Operations, InOrder(c), c.left = << >>
    PROVE  LET seen == DOMAIN c.view IN
           /\ c.operation \in {"state", "experience"} =>
                {"current", "log", "links", "roles", "rows"} \subseteq seen
           /\ c.operation = "timeline" => {"log", "links", "roles", "rows"} \subseteq seen
           /\ c.operation = "recall" => {"rows", "links", "roles"} \subseteq seen
           /\ c.operation \in {"conflicts", "open_conflicts", "experience"} =>
                {"pairs", "known"} \subseteq seen
           /\ c.operation = "open_conflicts" => "current" \in seen
           /\ c.operation = "experience" => {"attempted", "cited", "evidence"} \subseteq seen
<1>1. c.operation \in {"state", "timeline", "recall", "conflicts", "open_conflicts", "experience"}
  BY ReaderAssumption
<1>2. \A i \in DOMAIN Selects(c.operation) : Selects(c.operation)[i] \in DOMAIN c.view
  BY DoneFacts DEF Range
<1>3. CASE c.operation = "state"
  <2>1. \A i \in 1 .. 5 : << "current", "log", "links", "roles", "rows" >>[i] \in DOMAIN c.view
    BY <1>2, <1>3 DEF Selects, SelectOrder
  <2> QED
    BY <1>3, <2>1
<1>4. CASE c.operation = "timeline"
  <2>1. \A i \in 1 .. 4 : << "log", "links", "roles", "rows" >>[i] \in DOMAIN c.view
    BY <1>2, <1>4 DEF Selects, SelectOrder
  <2> QED
    BY <1>4, <2>1
<1>5. CASE c.operation = "recall"
  <2>1. \A i \in 1 .. 3 : << "rows", "links", "roles" >>[i] \in DOMAIN c.view
    BY <1>2, <1>5 DEF Selects, SelectOrder
  <2> QED
    BY <1>5, <2>1
<1>6. CASE c.operation = "conflicts"
  <2>1. \A i \in 1 .. 2 : << "pairs", "known" >>[i] \in DOMAIN c.view
    BY <1>2, <1>6 DEF Selects, SelectOrder
  <2> QED
    BY <1>6, <2>1
<1>7. CASE c.operation = "open_conflicts"
  <2>1. \A i \in 1 .. 3 : << "pairs", "known", "current" >>[i] \in DOMAIN c.view
    BY <1>2, <1>7 DEF Selects, SelectOrder
  <2> QED
    BY <1>7, <2>1
<1>8. CASE c.operation = "experience"
  <2>1. \A i \in 1 .. 10 : << "current", "log", "links", "roles", "rows", "pairs", "known",
                               "attempted", "cited", "evidence" >>[i] \in DOMAIN c.view
    BY <1>2, <1>8 DEF Selects, SelectOrder
  <2> QED
    BY <1>8, <2>1
<1> QED
  BY <1>1, <1>3, <1>4, <1>5, <1>6, <1>7, <1>8

LEMMA SoundIsNotCorrupt ==
    ASSUME NEW c, NEW m, CallIsSound(c, m), c.left = << >>
    PROVE  ~IsCorrupt(c)
<1>1. /\ c.operation \in {"state", "timeline", "recall", "conflicts", "open_conflicts", "experience"}
      /\ LaterCovers(c.operation, c.view) /\ c.operation \in Operations /\ InOrder(c)
  BY ReaderAssumption DEF CallIsSound
<1>2. c.operation \in {"state", "timeline", "experience"} => ~LogBroken(c.view)
  <2>1. c.operation \in {"state", "timeline", "experience"} => "rows" \in DOMAIN c.view
    BY <1>1, DoneSees
  <2> QED
    BY <1>1, <2>1 DEF LaterCovers, LogBroken
<1>3. c.operation \in {"conflicts", "open_conflicts", "experience"} => ~PairsBroken(c.view)
  <2>1. c.operation \in {"conflicts", "open_conflicts", "experience"} => "known" \in DOMAIN c.view
    BY <1>1, DoneSees
  <2> QED
    BY <1>1, <2>1 DEF LaterCovers
<1>4. c.operation = "experience" =>
        /\ Range(c.view.attempted) \subseteq DOMAIN c.view.cited
        /\ Needed(c.view) \subseteq c.view.evidence
  <2>1. c.operation = "experience" => "cited" \in DOMAIN c.view /\ "evidence" \in DOMAIN c.view
    BY <1>1, DoneSees
  <2> QED
    BY <1>1, <2>1 DEF LaterCovers
<1>5. CASE c.operation \in {"state", "timeline"}
  BY <1>2, <1>5 DEF IsCorrupt
<1>6. CASE c.operation \in {"conflicts", "open_conflicts"}
  BY <1>3, <1>6 DEF IsCorrupt
<1>7. CASE c.operation = "experience"
  BY <1>2, <1>3, <1>4, <1>7 DEF IsCorrupt
<1>8. CASE c.operation = "recall"
  BY <1>8 DEF IsCorrupt
<1> QED
  BY <1>1, <1>5, <1>6, <1>7, <1>8

(* Rows read at one moment, links at a later and roles at a third one are  *)
(* put together as they were written.                                      *)
LEMMA ReadIsWhole ==
    ASSUME TypeOK, LogMatchesTables, NEW view, ViewIsPast(view),
           {"links", "roles", "rows"} \subseteq DOMAIN view,
           NEW id, id \in DOMAIN view.links, id \in DOMAIN view.roles, id \in DOMAIN view.rows
    PROVE  Assembled(view, id) = Whole(id)
<1>1. /\ id \in DOMAIN memories
      /\ view.links[id] = memories[id].fact.evidence_ids
      /\ view.roles[id] = memories[id].fact.supporting_evidence_ids
      /\ view.rows[id] = memories[id]
  BY DEF ViewIsPast, IsRestriction
<1> QED
  BY <1>1, AssembledIsWhole

LEMMA LogIsWhole ==
    ASSUME TypeOK, LogMatchesTables, NEW c, NEW m, CallIsSound(c, m), c.left = << >>,
           c.operation \in {"state", "timeline", "experience"}
    PROVE  \A i \in DOMAIN c.view.log : Assembled(c.view, c.view.log[i]) = Whole(c.view.log[i])
<1>1. /\ ViewIsPast(c.view) /\ LaterCovers(c.operation, c.view)
      /\ {"log", "links", "roles", "rows"} \subseteq DOMAIN c.view
  BY DoneSees DEF CallIsSound
<1>2. /\ Range(c.view.log) \subseteq DOMAIN c.view.links
      /\ Range(c.view.log) \subseteq DOMAIN c.view.roles
      /\ Range(c.view.log) \subseteq DOMAIN c.view.rows
  BY <1>1 DEF LaterCovers
<1>3. \A i \in DOMAIN c.view.log : c.view.log[i] \in Range(c.view.log)
  BY DEF Range
<1> QED
  BY <1>1, <1>2, <1>3, ReadIsWhole

LEMMA SoundIsSnapshot ==
    ASSUME TypeOK, LogMatchesTables, NEW c, NEW m, CallIsSound(c, m), c.left = << >>
    PROVE  LET answer == Answer(c.operation, c.view) IN
           /\ c.operation \in {"state", "timeline", "recall", "conflicts"} =>
                answer = m[1] /\ m[1] \in Range(m)
           /\ c.operation = "experience" => answer.memories = m[1].memories
<1> DEFINE view == c.view
<1>1. /\ ViewIsPast(view) /\ LaterCovers(c.operation, view) /\ BegunWhole(c, m) /\ PairsBracketed(c, m)
      /\ c.operation \in Operations /\ InOrder(c) /\ m \in Seq(Range(m))
      /\ DOMAIN view = {} <=> m = << >>
  BY DEF CallIsSound
<1>2. m # << >> => m[1] \in Range(m)
  BY <1>1
<1>3. ASSUME c.operation \in {"state", "experience"}
      PROVE  [i \in DOMAIN Told(view) |-> Assembled(view, Told(view)[i])] = FirstTold(c, m)
  <2>1. {"current", "log", "links", "roles", "rows"} \subseteq DOMAIN view
    BY <1>1, <1>3, DoneSees
  <2>2. FirstTold(c, m) = [i \in DOMAIN Told(view) |-> Whole(Told(view)[i])]
    BY <1>1, <1>3, <2>1 DEF BegunWhole
  <2>3. \A i \in DOMAIN Told(view) : i \in DOMAIN view.log /\ Told(view)[i] = view.log[i]
    BY <1>1, <2>1, LoggedIds
  <2>4. \A i \in DOMAIN Told(view) : Assembled(view, Told(view)[i]) = Whole(Told(view)[i])
    BY <1>3, <2>3, LogIsWhole
  <2> QED
    BY <2>2, <2>4
<1>4. CASE c.operation = "state"
  <2>1. m # << >>
    BY <1>1, <1>4, DoneSees
  <2>2. Answer(c.operation, view) = [i \in DOMAIN Told(view) |-> Assembled(view, Told(view)[i])]
    BY <1>4 DEF Answer
  <2> QED
    BY <1>2, <1>3, <1>4, <2>1, <2>2 DEF FirstTold
<1>5. CASE c.operation = "experience"
  <2>1. Answer(c.operation, view).memories = [i \in DOMAIN Told(view) |-> Assembled(view, Told(view)[i])]
    BY <1>5 DEF Answer
  <2> QED
    BY <1>3, <1>5, <2>1 DEF FirstTold
<1>6. CASE c.operation = "timeline"
  <2>1. "log" \in DOMAIN view /\ m # << >>
    BY <1>1, <1>6, DoneSees
  <2>2. Answer(c.operation, view) = [i \in DOMAIN view.log |-> Assembled(view, view.log[i])]
    BY <1>6 DEF Answer
  <2>3. m[1] = [i \in DOMAIN view.log |-> Whole(view.log[i])]
    BY <1>1, <1>6, <2>1 DEF BegunWhole
  <2>4. \A i \in DOMAIN view.log : Assembled(view, view.log[i]) = Whole(view.log[i])
    BY <1>6, LogIsWhole
  <2> QED
    BY <1>2, <1>6, <2>1, <2>2, <2>3, <2>4
<1>7. CASE c.operation = "recall"
  <2>1. {"links", "roles", "rows"} \subseteq DOMAIN view /\ m # << >>
    BY <1>1, <1>7, DoneSees
  <2>2. Answer(c.operation, view) = {Assembled(view, id) : id \in CurrentIds(view.rows)}
    BY <1>7 DEF Answer
  <2>3. m[1] = {Whole(id) : id \in CurrentIds(view.rows)}
    BY <1>1, <1>7, <2>1 DEF BegunWhole
  <2>4. \A id \in CurrentIds(view.rows) : Assembled(view, id) = Whole(id)
    <3>1. CurrentIds(view.rows) \subseteq DOMAIN view.rows
      BY DEF CurrentIds
    <3>2. DOMAIN view.rows \subseteq DOMAIN view.links /\ DOMAIN view.rows \subseteq DOMAIN view.roles
      BY <1>1, <1>7, <2>1 DEF LaterCovers
    <3> QED
      BY <1>1, <2>1, <3>1, <3>2, ReadIsWhole
  <2> QED
    BY <1>2, <1>7, <2>1, <2>2, <2>3, <2>4
<1>8. CASE c.operation = "conflicts"
  <2>1. "pairs" \in DOMAIN view /\ m # << >>
    BY <1>1, <1>8, DoneSees
  <2>2. Answer(c.operation, view) = view.pairs
    BY <1>8 DEF Answer
  <2> QED
    BY <1>1, <1>2, <1>8, <2>1, <2>2 DEF PairsBracketed
<1> QED
  BY <1>4, <1>5, <1>6, <1>7, <1>8

LEMMA BothInWhole ==
    ASSUME NEW pairs, NEW ids, \A pair \in pairs : {pair[1], pair[2]} \subseteq ids
    PROVE  BothIn(pairs, ids) = pairs
BY DEF BothIn

LEMMA SoundIsBracketed ==
    ASSUME TypeOK, LogMatchesTables, NEW c, NEW m, CallIsSound(c, m), c.left = << >>
    PROVE  LET answer == Answer(c.operation, c.view) IN
           /\ c.operation = "open_conflicts" =>
                /\ answer \subseteq m[Len(m)]
                /\ m[1] \cap m[Len(m)] \subseteq answer
           /\ c.operation = "experience" =>
                /\ m[1].conflicts \subseteq answer.conflicts
                /\ BothIn(answer.conflicts, {told.id : told \in Range(answer.memories)})
                     = answer.conflicts
<1> DEFINE view == c.view
           answer == Answer(c.operation, view)
<1>1. /\ ViewIsPast(view) /\ LaterCovers(c.operation, view) /\ PairsBracketed(c, m)
      /\ c.operation \in Operations /\ InOrder(c)
  BY DEF CallIsSound
<1>2. CASE c.operation = "open_conflicts"
  <2>1. "pairs" \in DOMAIN view /\ "current" \in DOMAIN view
    BY <1>1, <1>2, DoneSees
  <2>2. answer = BothIn(view.pairs, view.current)
    BY <1>2 DEF Answer
  <2>3. /\ m[1] \subseteq view.pairs
        /\ BothIn(view.pairs, view.current) \subseteq m[Len(m)]
        /\ \A pair \in m[Len(m)] : {pair[1], pair[2]} \subseteq view.current
    BY <1>1, <1>2, <2>1 DEF PairsBracketed
  <2>4. m[1] \cap m[Len(m)] \subseteq BothIn(view.pairs, view.current)
    BY <2>3 DEF BothIn
  <2> QED
    BY <1>2, <2>2, <2>3, <2>4
<1>3. CASE c.operation = "experience"
  <2>1. {"current", "log", "links", "roles", "rows", "pairs"} \subseteq DOMAIN view
    BY <1>1, <1>3, DoneSees
  <2>2. /\ answer.conflicts = BothIn(view.pairs, view.current)
        /\ answer.memories = [i \in DOMAIN Told(view) |-> Assembled(view, Told(view)[i])]
    BY <1>3 DEF Answer
  <2>3. m[1].conflicts \subseteq answer.conflicts
    <3>1. /\ m[1].conflicts \subseteq view.pairs
          /\ \A pair \in m[1].conflicts : {pair[1], pair[2]} \subseteq view.current
      BY <1>1, <1>3, <2>1 DEF PairsBracketed
    <3> QED
      BY <2>2, <3>1 DEF BothIn
  <2>4. \A id \in view.current : \E told \in Range(answer.memories) : told.id = id
    <3> SUFFICES ASSUME NEW id \in view.current
                 PROVE  \E told \in Range(answer.memories) : told.id = id
      OBVIOUS
    <3>1. view.current \subseteq Range(view.log)
      BY <1>1, <1>3, <2>1 DEF LaterCovers
    <3>2. PICK i \in DOMAIN view.log : view.log[i] = id
      BY <3>1 DEF Range
    <3>3. i \in DOMAIN Told(view) /\ Told(view)[i] = id
      BY <3>2 DEF Told, Restrict
    <3>4. answer.memories[i] = Assembled(view, id) /\ i \in DOMAIN answer.memories
      BY <2>2, <3>3
    <3>5. Assembled(view, id).id = id
      BY DEF Assembled
    <3> QED
      BY <3>4, <3>5 DEF Range
  <2>5. \A pair \in answer.conflicts :
            {pair[1], pair[2]} \subseteq {told.id : told \in Range(answer.memories)}
    <3> SUFFICES ASSUME NEW pair \in answer.conflicts
                 PROVE  {pair[1], pair[2]} \subseteq {told.id : told \in Range(answer.memories)}
      OBVIOUS
    <3>1. {pair[1], pair[2]} \subseteq view.current
      BY <2>2 DEF BothIn
    <3>2. view.current \subseteq {told.id : told \in Range(answer.memories)}
      BY <2>4
    <3> QED
      BY <3>1, <3>2
  <2> QED
    BY <1>3, <2>3, <2>5, BothInWhole
<1> QED
  BY <1>2, <1>3

----------------------------------------------------------------------------
(* Theorems *)

(* The writers keep what they keep without readers. *)
LEMMA WritersInvariant == AllSpec => [](IInv /\ LogMatchesTables)
<1>1. AllInit => IInv /\ LogMatchesTables
  BY WritersAlone, InitInvariant, LegacyAssumption DEF Init, LogMatchesTables
<1>2. IInv /\ LogMatchesTables /\ [AllNext]_allVars => (IInv /\ LogMatchesTables)'
  BY WritersAlone, StepInvariant, NextKeepsLog
<1> QED
  BY <1>1, <1>2, PTL DEF AllSpec

(* What each reader holds is sound, whatever is committed between any two  *)
(* of its SELECTs.                                                         *)
THEOREM ReadersInvariant == AllSpec => []ReadersInv
<1>1. AllInit => ReadersInv
  BY DEF AllInit, ReadInit, ReadersInv
<1>2. /\ IInv /\ LogMatchesTables /\ (IInv /\ LogMatchesTables)'
      /\ ReadersInv /\ [AllNext]_allVars
      => ReadersInv'
  BY ReadersStep
<1> QED
  BY <1>1, <1>2, WritersInvariant, PTL DEF AllSpec

LEMMA DoneIsSound ==
    ASSUME ReadersInv, NEW r \in Readers, IsDone(r)
    PROVE  CallIsSound(call[r], moments[r]) /\ call[r].left = << >>
  BY DEF ReadersInv, IsDone

(* No read ever takes a sound store for a corrupt one. *)
THEOREM NeverCorrupt == AllSpec => []NoFalseCorruption
<1>1. ReadersInv => NoFalseCorruption
  BY DoneIsSound, SoundIsNotCorrupt DEF NoFalseCorruption
<1> QED
  BY <1>1, ReadersInvariant, PTL

(* state(), timeline(), recall() and conflicts() answer what was true at   *)
(* an instant of the call, and so do the memories preflight() and          *)
(* context() are made from.                                                *)
THEOREM Snapshots == AllSpec => []ReadsAreSnapshots
<1>1. IInv /\ LogMatchesTables /\ ReadersInv => ReadsAreSnapshots
  <2> SUFFICES ASSUME IInv, LogMatchesTables, ReadersInv, NEW r \in Readers, IsDone(r)
               PROVE  LET answer == Answer(call[r].operation, call[r].view)
                      IN  CASE call[r].operation = "open_conflicts" -> TRUE
                            [] call[r].operation = "experience" ->
                                  answer.memories = moments[r][1].memories
                            [] OTHER -> answer \in Range(moments[r])
    BY DEF ReadsAreSnapshots
  <2>1. PICK c, m : c = call[r] /\ m = moments[r]
    OBVIOUS
  <2>2. CallIsSound(c, m) /\ c.left = << >> /\ TypeOK
    BY <2>1, DoneIsSound DEF IInv
  <2>3. c.operation \in {"state", "timeline", "recall", "conflicts", "open_conflicts", "experience"}
    BY <2>2, ReaderAssumption DEF CallIsSound
  <2>4. /\ c.operation \in {"state", "timeline", "recall", "conflicts"} =>
             Answer(c.operation, c.view) \in Range(m)
        /\ c.operation = "experience" => Answer(c.operation, c.view).memories = m[1].memories
    BY <2>2, SoundIsSnapshot
  <2>5. CASE c.operation \in {"state", "timeline", "recall", "conflicts"}
    BY <2>1, <2>4, <2>5
  <2>6. CASE c.operation = "open_conflicts"
    BY <2>1, <2>6
  <2>7. CASE c.operation = "experience"
    BY <2>1, <2>4, <2>7
  <2> QED
    BY <2>3, <2>5, <2>6, <2>7
<1> QED
  BY <1>1, WritersInvariant, ReadersInvariant, PTL

(* open_conflicts(), preflight() and context() report what is open and     *)
(* miss nothing that stays open.                                           *)
THEOREM Bracketed == AllSpec => []OpenConflictsBracketed
<1>1. IInv /\ LogMatchesTables /\ ReadersInv => OpenConflictsBracketed
  <2> SUFFICES ASSUME IInv, LogMatchesTables, ReadersInv, NEW r \in Readers, IsDone(r)
               PROVE  LET answer == Answer(call[r].operation, call[r].view)
                          first == moments[r][1]
                          last == moments[r][Len(moments[r])]
                      IN  CASE call[r].operation = "open_conflicts" ->
                                  answer \subseteq last /\ first \cap last \subseteq answer
                            [] call[r].operation = "experience" ->
                                  /\ first.conflicts \subseteq answer.conflicts
                                  /\ BothIn(answer.conflicts, {told.id : told \in Range(answer.memories)})
                                       = answer.conflicts
                            [] OTHER -> TRUE
    BY DEF OpenConflictsBracketed
  <2>1. PICK c, m : c = call[r] /\ m = moments[r]
    OBVIOUS
  <2>2. CallIsSound(c, m) /\ c.left = << >> /\ TypeOK
    BY <2>1, DoneIsSound DEF IInv
  <2>3. CASE c.operation = "open_conflicts"
    BY <2>1, <2>2, <2>3, SoundIsBracketed
  <2>4. CASE c.operation = "experience"
    BY <2>1, <2>2, <2>4, SoundIsBracketed
  <2>5. CASE c.operation \notin {"open_conflicts", "experience"}
    BY <2>1, <2>5
  <2> QED
    BY <2>3, <2>4, <2>5
<1> QED
  BY <1>1, WritersInvariant, ReadersInvariant, PTL
=============================================================================
