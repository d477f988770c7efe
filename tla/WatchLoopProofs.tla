--------------------------- MODULE WatchLoopProofs ---------------------------
(***************************************************************************)
(* Theorems about WatchLoop, for any paths, texts and bound on edits: what *)
(* is not looked at again is known, and the watcher keeps the promise of   *)
(* Observation.                                                            *)
(***************************************************************************)
EXTENDS WatchLoop, TLAPS

----------------------------------------------------------------------------
(* The inductive invariant *)

(* What is on record was a document once, and is of the past.              *)
RecordIsPast ==
    \A path \in Tracked :
        record[path] \in DOMAIN past[path] /\ Says(path, record[path]) \in Texts

(* A fingerprint in the baseline was that of the file at some time: the    *)
(* file as it will be after its next change is not in it.                  *)
BaselineIsPast == \A path \in DOMAIN baseline : baseline[path] <= Len(past[path])

(* A seed reads what the file is after it was fingerprinted, and nothing   *)
(* that is older than what is on record.                                   *)
SeedReadsForward ==
    /\ watcher.step = "reading" => watcher.fingerprint <= Len(past[watcher.path])
    /\ watcher.step = "recording" =>
         /\ watcher.fingerprint <= watcher.read
         /\ watcher.read <= Len(past[watcher.path])
         /\ record[watcher.path] <= watcher.read
         /\ Says(watcher.path, watcher.read) \in Texts

IInv == TypeOK /\ RecordIsPast /\ BaselineIsPast /\ SeedReadsForward /\ BaselineIsKnown
----------------------------------------------------------------------------
(* Maps and what a watcher carries *)

IsMap(map) == DOMAIN map \subseteq Paths /\ map \in [DOMAIN map -> Fingerprints \ {0}]

LEMMA EmptyIsMap == IsMap(<< >>)
  BY DEF IsMap

LEMMA PutFacts ==
    ASSUME NEW map, IsMap(map), NEW path \in Paths, NEW fingerprint \in Fingerprints \ {0}
    PROVE  /\ IsMap(Put(map, path, fingerprint))
           /\ DOMAIN Put(map, path, fingerprint) = DOMAIN map \cup {path}
           /\ Put(map, path, fingerprint)[path] = fingerprint
           /\ \A other \in DOMAIN map \ {path} : Put(map, path, fingerprint)[other] = map[other]
  BY DEF IsMap, Put

LEMMA WithoutFacts ==
    ASSUME NEW map, IsMap(map), NEW paths
    PROVE  /\ IsMap(Without(map, paths))
           /\ DOMAIN Without(map, paths) = DOMAIN map \ paths
           /\ \A path \in DOMAIN map \ paths : Without(map, paths)[path] = map[path]
  BY DEF IsMap, Without, Restrict

(* What a watcher carries is told by its step.                             *)
LEMMA WatcherShapes ==
    ASSUME NEW state \in Watchers
    PROVE  /\ state.step = "off" <=> state = Off
           /\ state.step = "reconciling" =>
                state \in [step : {"reconciling"}, todo : SUBSET Paths, retro : SUBSET Paths]
           /\ state.step = "scanning" => state \in [step : {"scanning"}, todo : SUBSET Paths]
           /\ state.step = "reading" =>
                state \in [step : {"reading"}, path : Paths, fingerprint : Fingerprints \ {0},
                           resume : Loops]
           /\ state.step = "recording" =>
                state \in [step : {"recording"}, path : Paths, fingerprint : Fingerprints \ {0},
                           read : Fingerprints \ {0}, resume : Loops]
  BY DEF Watchers, Loops, Off, Asleep

(* A path is crossed off.                                                  *)
LEMMA CrossedOff ==
    ASSUME NEW loop \in Loops, NEW paths
    PROVE  /\ [loop EXCEPT !.todo = @ \ paths] \in Loops
           /\ [loop EXCEPT !.todo = @ \ paths].step \in {"reconciling", "scanning"}
  BY DEF Loops

(* A file has a state at least, and the fingerprint of one that is there   *)
(* is the number of its last.                                              *)
LEMMA PastFacts ==
    ASSUME TypeOK, NEW path \in Paths
    PROVE  /\ past[path] \in Seq(Contents)
           /\ Len(past[path]) \in Nat /\ Len(past[path]) >= 1
           /\ Len(past[path]) \in DOMAIN past[path]
           /\ DOMAIN past[path] = 1..Len(past[path])
           /\ Fingerprint(path) \in Fingerprints
           /\ Fingerprint(path) <= Len(past[path])
           /\ Seedable(path) => Fingerprint(path) = Len(past[path])
  <1>1. past[path] \in Seq(Contents) /\ past[path] # << >>
    BY DEF TypeOK
  <1>2. Len(past[path]) \in Nat /\ Len(past[path]) >= 1 /\ DOMAIN past[path] = 1..Len(past[path])
    BY <1>1
  <1> QED
    BY <1>1, <1>2, WatchAssumption DEF Fingerprint, Fingerprints, Seedable
----------------------------------------------------------------------------
(* Type correctness *)

LEMMA InitHasType == Init => TypeOK
  <1> SUFFICES ASSUME Init PROVE TypeOK
    OBVIOUS
  <1>1. past \in [Paths -> Seq(Contents) \ {<< >>}]
    <2>1. PICK first \in [Paths -> Contents] : past = [path \in Paths |-> << first[path] >>]
      BY DEF Init
    <2>2. \A path \in Paths : << first[path] >> \in Seq(Contents) \ {<< >>}
      OBVIOUS
    <2> QED
      BY <2>1, <2>2
  <1>2. record \in [Paths -> Fingerprints]
    BY DEF Init, Fingerprints
  <1> QED
    BY <1>1, <1>2, EmptyIsMap DEF Init, TypeOK, IsMap, Watchers

(* What is left to do once a seed is over. *)
LEMMA ResumeFacts ==
    ASSUME TypeOK, watcher.step \in {"reading", "recording"}, Resume
    PROVE  watcher' \in Loops /\ watcher'.step \in {"reconciling", "scanning"}
  <1>1. watcher.resume \in Loops
    BY WatcherShapes DEF TypeOK
  <1> QED
    BY <1>1, CrossedOff DEF Resume

(* The loop goes on from a path that needs no seed, or enters one.         *)
LEMMA DoneFacts ==
    ASSUME TypeOK, watcher.step \in {"reconciling", "scanning"}, NEW path, Done(path)
    PROVE  watcher' \in Loops /\ watcher'.step \in {"reconciling", "scanning"}
  <1>1. watcher \in Loops
    BY WatcherShapes DEF TypeOK, Loops
  <1> QED
    BY <1>1, CrossedOff DEF Done

LEMMA BeginSeedFacts ==
    ASSUME TypeOK, watcher.step \in {"reconciling", "scanning"}, NEW path \in Paths,
           Fingerprint(path) # 0, BeginSeed(path)
    PROVE  /\ watcher' \in Watchers
           /\ watcher'.step = "reading"
           /\ watcher'.path = path
           /\ watcher'.fingerprint = Fingerprint(path)
  <1>1. watcher \in Loops
    BY WatcherShapes DEF TypeOK, Loops
  <1>2. Fingerprint(path) \in Fingerprints \ {0}
    BY PastFacts
  <1> QED
    BY <1>1, <1>2 DEF BeginSeed, Watchers

LEMMA AdvanceKeepsType ==
    ASSUME TypeOK, watcher.step \in {"reading", "recording"}, Advance
    PROVE  /\ IsMap(baseline') /\ IsMap(pending')
           /\ watcher.path \in Paths
           /\ DOMAIN baseline' = DOMAIN baseline \cup {watcher.path}
           /\ baseline'[watcher.path] = watcher.fingerprint
           /\ \A path \in DOMAIN baseline \ {watcher.path} : baseline'[path] = baseline[path]
  <1>1. IsMap(baseline) /\ IsMap(pending)
    BY DEF TypeOK, IsMap
  <1>2. watcher.path \in Paths /\ watcher.fingerprint \in Fingerprints \ {0}
    BY WatcherShapes DEF TypeOK
  <1>3. IsMap(Without(pending, {watcher.path}))
    BY <1>1, WithoutFacts
  <1> DEFINE put == Put(baseline, watcher.path, watcher.fingerprint)
  <1>4. /\ IsMap(put)
        /\ DOMAIN put = DOMAIN baseline \cup {watcher.path}
        /\ put[watcher.path] = watcher.fingerprint
        /\ \A path \in DOMAIN baseline \ {watcher.path} : put[path] = baseline[path]
    BY <1>1, <1>2 DEF Put, IsMap
  <1> QED
    BY <1>2, <1>3, <1>4 DEF Advance

(* The parts of the type invariant that a step may touch.                  *)
LEMMA TypeFromParts ==
    ASSUME TypeOK,
           past' \in [Paths -> Seq(Contents) \ {<< >>}],
           record' \in [Paths -> Fingerprints],
           enabled' \in BOOLEAN,
           IsMap(baseline'), IsMap(pending'),
           discovered' \subseteq Discoverable,
           watcher' \in Watchers,
           waived' \subseteq Paths
    PROVE  TypeOK'
  BY DEF TypeOK, IsMap

LEMMA NextKeepsType ==
    ASSUME TypeOK, [Next]_vars
    PROVE  TypeOK'
  <1>m. /\ IsMap(baseline) /\ IsMap(pending)
        /\ watcher \in Watchers
        /\ Loops \subseteq Watchers
        /\ Discovered \subseteq Discoverable /\ Discovered \subseteq Paths
        /\ Tracked \subseteq Paths
    BY WatchAssumption DEF TypeOK, IsMap, Watchers, Discovered, Tracked
  <1>t. /\ past \in [Paths -> Seq(Contents) \ {<< >>}]
        /\ record \in [Paths -> Fingerprints]
        /\ enabled \in BOOLEAN
        /\ discovered \subseteq Discoverable
        /\ waived \subseteq Paths
    BY DEF TypeOK
  <1>1. ASSUME NEW path \in Paths, Edit(path) PROVE TypeOK'
    <2>1. PICK content \in Contents : past' = [past EXCEPT ![path] = Append(@, content)]
      BY <1>1 DEF Edit
    <2>2. Append(past[path], content) \in Seq(Contents) \ {<< >>}
      BY PastFacts
    <2>3. past' \in [Paths -> Seq(Contents) \ {<< >>}]
      BY <1>t, <2>1, <2>2
    <2> QED
      BY <1>1, <1>m, <1>t, <2>3, TypeFromParts DEF Edit, memory
  <1>2. ASSUME NEW retro \in SUBSET Paths, Begin(retro), enabled' \in BOOLEAN PROVE TypeOK'
    <2>1. watcher' \in Loops
      BY <1>2, <1>m DEF Begin, Loops
    <2> QED
      BY <1>2, <1>m, <1>t, <2>1, TypeFromParts DEF Begin
  <1>3. CASE StartFresh \/ Restart
    BY <1>2, <1>3, <1>m, <1>t DEF StartFresh, Restart
  <1>4. CASE Switch
    BY <1>4, <1>m, <1>t, TypeFromParts DEF Switch, memory
  <1>5. CASE CutShort
    <2>1. watcher \in [step : {"reconciling"}, todo : SUBSET Paths, retro : SUBSET Paths]
      BY <1>5, <1>m, WatcherShapes DEF CutShort
    <2>2. watcher' \in Loops
      BY <1>5, <2>1 DEF CutShort, Loops
    <2> QED
      BY <1>5, <1>m, <1>t, <2>2, TypeFromParts DEF CutShort, memory
  <1>6. ASSUME NEW path \in Paths, Reconcile(path) PROVE TypeOK'
    <2>1. watcher' \in Watchers
      BY <1>6, <1>m, DoneFacts, BeginSeedFacts DEF Reconcile
    <2>2. Fingerprint(path) # 0 => IsMap(Put(baseline, path, Fingerprint(path)))
      <3> SUFFICES ASSUME Fingerprint(path) # 0 PROVE IsMap(Put(baseline, path, Fingerprint(path)))
        OBVIOUS
      <3>1. Fingerprint(path) \in Fingerprints \ {0}
        BY PastFacts
      <3> QED
        BY <1>m, <3>1, PutFacts
    <2>3. IsMap(baseline') /\ waived' \subseteq Paths
      BY <1>6, <1>m, <1>t, <2>2 DEF Reconcile
    <2> QED
      BY <1>6, <1>m, <1>t, <2>1, <2>3, TypeFromParts DEF Reconcile
  <1>7. CASE Sleep
    BY <1>7, <1>m, <1>t, TypeFromParts DEF Sleep, memory, Watchers
  <1>8. ASSUME NEW found \in SUBSET Discoverable, NEW scope \in SUBSET Paths, Scope(found, scope)
        PROVE  TypeOK'
    <2>1. watcher' \in Loops
      BY <1>8 DEF Scope, Loops
    <2>2. IsMap(baseline') /\ IsMap(pending')
      BY <1>8, <1>m, WithoutFacts DEF Scope
    <2> QED
      BY <1>8, <1>m, <1>t, <2>1, <2>2, TypeFromParts DEF Scope
  <1>9. CASE Rescan \/ Rediscover \/ ScopeFails
    <2>1. DOMAIN baseline \in SUBSET Paths /\ Tracked \cup discovered \in SUBSET Paths
          /\ Tracked \cup Discovered \in SUBSET Paths
      BY <1>m, <1>t, WatchAssumption DEF IsMap
    <2> QED
      BY <1>8, <1>9, <1>m, <1>t, <2>1 DEF Rescan, Rediscover, ScopeFails
  <1>10. ASSUME NEW path \in Paths, Look(path) PROVE TypeOK'
    <2>1. Fingerprint(path) # 0 \/ Quiet(path)
      BY DEF Quiet
    <2>2. watcher' \in Watchers
      BY <1>10, <1>m, <2>1, DoneFacts, BeginSeedFacts DEF Look
    <2>3. IsMap(Without(pending, {path}))
      BY <1>m, WithoutFacts
    <2>4. Fingerprint(path) # 0 => IsMap(Put(pending, path, Fingerprint(path)))
      <3> SUFFICES ASSUME Fingerprint(path) # 0 PROVE IsMap(Put(pending, path, Fingerprint(path)))
        OBVIOUS
      <3>1. Fingerprint(path) \in Fingerprints \ {0}
        BY PastFacts
      <3> QED
        BY <1>m, <3>1, PutFacts
    <2>5. IsMap(pending')
      BY <1>10, <1>m, <2>1, <2>3, <2>4 DEF Look
    <2> QED
      BY <1>10, <1>m, <1>t, <2>2, <2>5, TypeFromParts DEF Look
  <1>11. CASE Read
    <2>1. watcher \in [step : {"reading"}, path : Paths, fingerprint : Fingerprints \ {0}, resume : Loops]
      BY <1>11, <1>m, WatcherShapes DEF Read
    <2>2. Len(past[watcher.path]) \in Fingerprints \ {0}
      BY <2>1, PastFacts DEF Fingerprints
    <2>3. watcher' \in Watchers
      BY <1>11, <2>1, <2>2 DEF Read, Watchers
    <2> QED
      BY <1>11, <1>m, <1>t, <2>3, TypeFromParts DEF Read, memory
  <1>12. CASE Refuse
    BY <1>12, <1>m, <1>t, ResumeFacts, AdvanceKeepsType, TypeFromParts DEF Refuse
  <1>13. CASE Record
    <2>1. watcher.read \in Fingerprints /\ watcher.path \in Paths
      BY <1>13, <1>m, WatcherShapes DEF Record
    <2>2. record' \in [Paths -> Fingerprints]
      BY <1>13, <1>t, <2>1 DEF Record
    <2> QED
      BY <1>13, <1>m, <1>t, <2>2, ResumeFacts, AdvanceKeepsType, TypeFromParts DEF Record
  <1>14. CASE Vanished \/ SeedFails
    BY <1>14, <1>m, <1>t, ResumeFacts, TypeFromParts DEF Vanished, SeedFails, memory
  <1>15. CASE Leave
    BY <1>15, <1>m, <1>t, EmptyIsMap, TypeFromParts DEF Leave, Watchers
  <1>16. CASE UNCHANGED vars
    BY <1>16, <1>m, <1>t, TypeFromParts DEF vars, memory
  <1> QED
    BY <1>1, <1>3, <1>4, <1>5, <1>6, <1>7, <1>9, <1>10, <1>11, <1>12, <1>13, <1>14, <1>15, <1>16
       DEF Next, Step, Seed, Obey, Die
----------------------------------------------------------------------------
(* The steps, by what they do to the baseline *)

Same(map, kept) == \A path \in DOMAIN kept : path \in DOMAIN map /\ kept[path] = map[path]

(* A step that changes no file and no record, and puts nothing in the      *)
(* baseline, keeps the invariant if a seed it begins reads forward.        *)
LEMMA ForgettingKeeps ==
    ASSUME IInv, TypeOK', UNCHANGED << past, record >>, waived \subseteq waived',
           Same(baseline, baseline'), SeedReadsForward'
    PROVE  IInv'
  <1>1. /\ \A path : Fingerprint(path)' = Fingerprint(path)
        /\ \A path : Seedable(path)' <=> Seedable(path)
        /\ \A path : IsKnown(path)' <=> IsKnown(path)
        /\ Tracked' = Tracked
    BY DEF Fingerprint, Seedable, IsKnown, Tracked, Disk, Says
  <1>2. RecordIsPast'
    BY <1>1 DEF IInv, RecordIsPast, Says
  <1>3. BaselineIsPast'
    BY DEF IInv, BaselineIsPast, Same
  <1>4. BaselineIsKnown'
    BY <1>1 DEF IInv, BaselineIsKnown, Same
  <1> QED
    BY <1>2, <1>3, <1>4 DEF IInv

(* What a file has been it has been for ever. *)
LEMMA EditKeeps ==
    ASSUME IInv, TypeOK', NEW path \in Paths, Edit(path)
    PROVE  IInv'
  <1>1. PICK content \in Contents :
          /\ ~(content = Missing /\ Disk(path) = Missing)
          /\ past' = [past EXCEPT ![path] = Append(@, content)]
    BY DEF Edit
  <1>2. waived' = waived \ {path} /\ UNCHANGED << record, enabled, baseline, pending, discovered, watcher >>
    BY DEF Edit, memory
  <1>3. /\ past[path] \in Seq(Contents)
        /\ past'[path] = Append(past[path], content)
        /\ \A other \in Paths \ {path} : past'[other] = past[other]
    BY <1>1, PastFacts DEF IInv, TypeOK
  <1>4. /\ Len(past'[path]) = Len(past[path]) + 1
        /\ Len(past[path]) \in Nat
        /\ \A i \in 1..Len(past[path]) : past'[path][i] = past[path][i]
        /\ DOMAIN past'[path] = 1..(Len(past[path]) + 1)
        /\ DOMAIN past[path] = 1..Len(past[path])
    BY <1>3
  <1>5. Tracked' = Tracked /\ Tracked \subseteq Paths
    BY <1>2 DEF Tracked
  <1>6. RecordIsPast'
    <2> SUFFICES ASSUME NEW other \in Tracked
                 PROVE  record[other] \in DOMAIN past'[other] /\ past'[other][record[other]] \in Texts
      BY <1>2, <1>5 DEF RecordIsPast, Says
    <2>1. record[other] \in DOMAIN past[other] /\ past[other][record[other]] \in Texts
      BY DEF IInv, RecordIsPast, Says
    <2> QED
      BY <1>3, <1>4, <1>5, <2>1
  <1>7. BaselineIsPast'
    <2> SUFFICES ASSUME NEW other \in DOMAIN baseline PROVE baseline[other] <= Len(past'[other])
      BY <1>2 DEF BaselineIsPast
    <2>1. other \in Paths /\ baseline[other] \in Nat
      BY DEF IInv, TypeOK, Fingerprints
    <2>2. baseline[other] <= Len(past[other])
      BY DEF IInv, BaselineIsPast
    <2> QED
      BY <1>3, <1>4, <2>1, <2>2
  <1>8. SeedReadsForward'
    <2>1. CASE watcher.step \notin {"reading", "recording"}
      BY <1>2, <2>1 DEF SeedReadsForward
    <2>2. CASE watcher.step = "reading"
      <3>1. watcher.path \in Paths /\ watcher.fingerprint \in Nat
        BY <2>2, WatcherShapes DEF IInv, TypeOK, Fingerprints
      <3>2. watcher.fingerprint <= Len(past[watcher.path])
        BY <2>2 DEF IInv, SeedReadsForward
      <3> QED
        BY <1>2, <1>3, <1>4, <2>2, <3>1, <3>2 DEF SeedReadsForward
    <2>3. CASE watcher.step = "recording"
      <3>1. watcher.path \in Paths /\ watcher.read \in Nat /\ watcher.read >= 1
        BY <2>3, WatcherShapes DEF IInv, TypeOK, Fingerprints
      <3>2. /\ watcher.fingerprint <= watcher.read
            /\ watcher.read <= Len(past[watcher.path])
            /\ record[watcher.path] <= watcher.read
            /\ past[watcher.path][watcher.read] \in Texts
        BY <2>3 DEF IInv, SeedReadsForward, Says
      <3>3. watcher.read <= Len(past'[watcher.path])
        BY <1>3, <1>4, <3>1, <3>2
      <3>4. past'[watcher.path][watcher.read] = past[watcher.path][watcher.read]
        BY <1>3, <1>4, <3>1, <3>2
      <3> QED
        BY <1>2, <2>3, <3>2, <3>3, <3>4 DEF SeedReadsForward, Says
    <2> QED
      BY <2>1, <2>2, <2>3
  <1>9. BaselineIsKnown'
    <2> SUFFICES ASSUME NEW other \in DOMAIN baseline,
                        baseline[other] = Fingerprint(other)', Seedable(other)'
                 PROVE  IsKnown(other)' \/ other \in waived'
      BY <1>2 DEF BaselineIsKnown
    <2>1. other \in Paths
      BY DEF IInv, TypeOK
    <2>2. CASE other = path
      <3>1. Fingerprint(path)' = Len(past[path]) + 1
        BY <1>4, <2>2, WatchAssumption DEF Fingerprint, Seedable
      <3>2. baseline[path] <= Len(past[path]) /\ baseline[path] \in Nat
        BY <2>2 DEF IInv, BaselineIsPast, TypeOK, Fingerprints
      <3> QED
        BY <1>4, <2>2, <3>1, <3>2
    <2>3. CASE other # path
      <3>1. /\ Fingerprint(other)' = Fingerprint(other)
            /\ Seedable(other)' <=> Seedable(other)
            /\ IsKnown(other)' <=> IsKnown(other)
        BY <1>2, <1>3, <1>5, <2>1, <2>3 DEF Fingerprint, Seedable, IsKnown, Disk, Says
      <3>2. IsKnown(other) \/ other \in waived
        BY <3>1 DEF IInv, BaselineIsKnown
      <3> QED
        BY <1>2, <2>3, <3>1, <3>2
    <2> QED
      BY <2>2, <2>3
  <1> QED
    BY <1>6, <1>7, <1>8, <1>9 DEF IInv

(* A path is taken over as it is, and said so.                             *)
LEMMA TakeOverKeeps ==
    ASSUME IInv, TypeOK', NEW path \in Paths, Fingerprint(path) # 0,
           UNCHANGED << past, record >>, SeedReadsForward',
           baseline' = Put(baseline, path, Fingerprint(path)), waived' = waived \cup {path}
    PROVE  IInv'
  <1>1. /\ \A other : Fingerprint(other)' = Fingerprint(other)
        /\ \A other : Seedable(other)' <=> Seedable(other)
        /\ \A other : IsKnown(other)' <=> IsKnown(other)
        /\ Tracked' = Tracked
    BY DEF Fingerprint, Seedable, IsKnown, Tracked, Disk, Says
  <1>2. RecordIsPast'
    BY <1>1 DEF IInv, RecordIsPast, Says
  <1>3. /\ DOMAIN baseline' = DOMAIN baseline \cup {path}
        /\ baseline'[path] = Fingerprint(path)
        /\ \A other \in DOMAIN baseline \ {path} : baseline'[other] = baseline[other]
    BY DEF Put
  <1>4. BaselineIsPast'
    BY <1>3, PastFacts DEF IInv, BaselineIsPast
  <1>5. BaselineIsKnown'
    BY <1>1, <1>3 DEF IInv, BaselineIsKnown
  <1> QED
    BY <1>2, <1>4, <1>5 DEF IInv

(* What is refused is no document, unless it has changed since it was      *)
(* fingerprinted.                                                          *)
LEMMA RefuseKeeps ==
    ASSUME IInv, TypeOK', Refuse
    PROVE  IInv'
  <1>1. /\ watcher.step = "reading" /\ Disk(watcher.path) = Refused /\ Advance
        /\ UNCHANGED << past, record, waived >>
        /\ watcher'.step \in {"reconciling", "scanning"}
    BY ResumeFacts DEF Refuse, IInv
  <1>2. /\ \A other : Fingerprint(other)' = Fingerprint(other)
        /\ \A other : Seedable(other)' <=> Seedable(other)
        /\ \A other : IsKnown(other)' <=> IsKnown(other)
        /\ Tracked' = Tracked
    BY <1>1 DEF Fingerprint, Seedable, IsKnown, Tracked, Disk, Says
  <1>3. /\ DOMAIN baseline' = DOMAIN baseline \cup {watcher.path}
        /\ baseline'[watcher.path] = watcher.fingerprint
        /\ \A path \in DOMAIN baseline \ {watcher.path} : baseline'[path] = baseline[path]
    BY <1>1, AdvanceKeepsType DEF IInv
  <1>4. RecordIsPast'
    BY <1>1, <1>2 DEF IInv, RecordIsPast, Says
  <1>5. BaselineIsPast'
    BY <1>1, <1>3 DEF IInv, BaselineIsPast, SeedReadsForward
  <1>6. ~Seedable(watcher.path)
    BY <1>1, WatchAssumption DEF Seedable
  <1>7. BaselineIsKnown'
    BY <1>1, <1>2, <1>3, <1>6 DEF IInv, BaselineIsKnown
  <1>8. SeedReadsForward'
    BY <1>1 DEF SeedReadsForward
  <1> QED
    BY <1>4, <1>5, <1>7, <1>8 DEF IInv
(* What is recorded was read when the file was fingerprinted, or later:    *)
(* if it has not changed since, it is known.                               *)
LEMMA RecordKeeps ==
    ASSUME IInv, TypeOK', Record
    PROVE  IInv'
  <1> DEFINE path == watcher.path
             read == watcher.read
  <1>1. /\ watcher.step = "recording" /\ Advance
        /\ UNCHANGED << past, waived >>
        /\ watcher'.step \in {"reconciling", "scanning"}
    BY ResumeFacts DEF Record, IInv
  <1>2. /\ path \in Paths /\ read \in Nat /\ read >= 1 /\ watcher.fingerprint \in Nat
        /\ watcher.fingerprint <= read /\ read <= Len(past[path])
        /\ past[path][read] \in Texts
    BY <1>1, WatcherShapes DEF IInv, TypeOK, SeedReadsForward, Says, Fingerprints
  <1>3. /\ Len(past[path]) \in Nat
        /\ DOMAIN past[path] = 1..Len(past[path])
    BY <1>2, PastFacts DEF IInv
  <1>4. /\ DOMAIN baseline' = DOMAIN baseline \cup {path}
        /\ baseline'[path] = watcher.fingerprint
        /\ \A other \in DOMAIN baseline \ {path} : baseline'[other] = baseline[other]
    BY <1>1, AdvanceKeepsType DEF IInv
  <1>5. /\ \A other \in Paths \ {path} : record'[other] = record[other]
        /\ record'[path] = read \/ (record'[path] = record[path] /\ path \in Tracked
                                     /\ past[path][record[path]] = past[path][read])
    BY <1>2 DEF Record, Says, IInv, TypeOK
  <1>6. path \in Tracked' /\ past[path][record'[path]] = past[path][read]
    BY <1>2, <1>5 DEF Tracked
  <1>7. Tracked' \subseteq Tracked \cup {path}
    BY <1>5 DEF Tracked
  <1>8. RecordIsPast'
    <2> SUFFICES ASSUME NEW other \in Tracked'
                 PROVE  record'[other] \in DOMAIN past[other] /\ past[other][record'[other]] \in Texts
      BY <1>1 DEF RecordIsPast, Says
    <2>1. other \in Tracked => record[other] \in DOMAIN past[other] /\ past[other][record[other]] \in Texts
      BY DEF IInv, RecordIsPast, Says
    <2>2. other \in Paths
      BY DEF Tracked
    <2>3. CASE other = path
      BY <1>2, <1>3, <1>5, <2>1, <2>3
    <2>4. CASE other # path
      BY <1>5, <1>7, <2>1, <2>2, <2>4
    <2> QED
      BY <2>3, <2>4
  <1>9. BaselineIsPast'
    <2>1. watcher.fingerprint <= Len(past[path])
      BY <1>2, <1>3
    <2> QED
      BY <1>1, <1>4, <2>1 DEF IInv, BaselineIsPast
  <1>10. BaselineIsKnown'
    <2> SUFFICES ASSUME NEW other \in DOMAIN baseline',
                        baseline'[other] = Fingerprint(other)', Seedable(other)'
                 PROVE  IsKnown(other)' \/ other \in waived'
      BY DEF BaselineIsKnown
    <2>1. Fingerprint(other)' = Fingerprint(other) /\ Disk(other)' = Disk(other)
      BY <1>1 DEF Fingerprint, Disk
    <2>2. CASE other = path
      <3>1. Fingerprint(path) = Len(past[path])
        BY <1>2, <2>1, <2>2, PastFacts DEF IInv, Seedable
      <3>2. read = Len(past[path])
        BY <1>2, <1>3, <1>4, <2>1, <2>2, <3>1
      <3> QED
        BY <1>1, <1>6, <2>2, <3>2 DEF IsKnown, Says, Disk
    <2>3. CASE other # path
      <3>1. other \in DOMAIN baseline /\ other \in Paths /\ baseline[other] = Fingerprint(other)
        BY <1>4, <2>1, <2>3 DEF IInv, TypeOK
      <3>2. IsKnown(other) \/ other \in waived
        BY <2>1, <3>1 DEF IInv, BaselineIsKnown, Seedable
      <3>3. IsKnown(other) => IsKnown(other)'
        BY <1>1, <1>5, <2>3, <3>1 DEF IsKnown, Says, Disk, Tracked
      <3> QED
        BY <1>1, <3>2, <3>3
    <2> QED
      BY <2>2, <2>3
  <1>11. SeedReadsForward'
    BY <1>1 DEF SeedReadsForward
  <1> QED
    BY <1>8, <1>9, <1>10, <1>11 DEF IInv

(* A file that is read is read as it is. *)
LEMMA ReadKeeps ==
    ASSUME IInv, TypeOK', Read
    PROVE  IInv'
  <1>1. /\ watcher.step = "reading" /\ Seedable(watcher.path)
        /\ watcher'.step = "recording" /\ watcher'.path = watcher.path
        /\ watcher'.fingerprint = watcher.fingerprint
        /\ watcher'.read = Len(past[watcher.path])
        /\ UNCHANGED << past, record, enabled, baseline, pending, discovered, waived >>
    BY DEF Read, memory
  <1>2. watcher.path \in Paths
    BY <1>1, WatcherShapes DEF IInv, TypeOK
  <1>3. /\ Len(past[watcher.path]) \in Nat /\ Len(past[watcher.path]) >= 1
        /\ DOMAIN past[watcher.path] = 1..Len(past[watcher.path])
    BY <1>2, PastFacts DEF IInv
  <1>4. record[watcher.path] <= Len(past[watcher.path])
    <2>1. CASE watcher.path \in Tracked
      <3>1. record[watcher.path] \in DOMAIN past[watcher.path]
        BY <2>1 DEF IInv, RecordIsPast
      <3> QED
        BY <1>3, <3>1
    <2>2. CASE watcher.path \notin Tracked
      BY <1>2, <1>3, <2>2 DEF Tracked
    <2> QED
      BY <2>1, <2>2
  <1>5. SeedReadsForward'
    BY <1>1, <1>2, <1>3, <1>4 DEF IInv, SeedReadsForward, Seedable, Disk, Says
  <1> QED
    BY <1>1, <1>5, ForgettingKeeps DEF Same

(* A seed that begins has the file's fingerprint. *)
LEMMA SeedBegins ==
    ASSUME IInv, watcher.step \in {"reconciling", "scanning"}, NEW path \in Paths,
           Fingerprint(path) # 0, BeginSeed(path), UNCHANGED past
    PROVE  SeedReadsForward'
  BY BeginSeedFacts, PastFacts DEF IInv, SeedReadsForward

LEMMA NextKeepsInvariant ==
    ASSUME IInv, [Next]_vars
    PROVE  IInv'
  <1>t. TypeOK /\ TypeOK'
    BY NextKeepsType DEF IInv
  <1>b. IsMap(baseline)
    BY <1>t DEF TypeOK, IsMap
  <1>1. CASE \E path \in Paths : Edit(path)
    BY <1>1, <1>t, EditKeeps
  <1>2. CASE Refuse
    BY <1>2, <1>t, RefuseKeeps
  <1>3. CASE Record
    BY <1>3, <1>t, RecordKeeps
  <1>4. CASE Read
    BY <1>4, <1>t, ReadKeeps
  <1>5. ASSUME NEW path \in Paths, Reconcile(path) PROVE IInv'
    <2>1. watcher.step \in {"reconciling", "scanning"} /\ UNCHANGED << past, record >>
      BY <1>5 DEF Reconcile
    <2>2. CASE Done(path)
      <3>1. SeedReadsForward'
        BY <1>t, <2>1, <2>2, DoneFacts DEF SeedReadsForward
      <3> QED
        BY <1>5, <1>t, <2>1, <2>2, <3>1, ForgettingKeeps, TakeOverKeeps DEF Reconcile, Same
    <2>3. CASE Fingerprint(path) # 0 /\ BeginSeed(path) /\ UNCHANGED << baseline, waived >>
      <3>1. SeedReadsForward'
        BY <2>1, <2>3, SeedBegins
      <3> QED
        BY <1>t, <2>1, <2>3, <3>1, ForgettingKeeps DEF Same
    <2> QED
      BY <1>5, <2>2, <2>3 DEF Reconcile
  <1>6. ASSUME NEW path \in Paths, Look(path) PROVE IInv'
    <2>1. watcher.step \in {"reconciling", "scanning"} /\ UNCHANGED << past, record, baseline, waived >>
      BY <1>6 DEF Look
    <2>2. ASSUME Done(path) PROVE SeedReadsForward'
      BY <1>t, <2>1, <2>2, DoneFacts DEF SeedReadsForward
    <2>3. ASSUME Fingerprint(path) # 0, BeginSeed(path) PROVE SeedReadsForward'
      BY <2>1, <2>3, SeedBegins
    <2>4. SeedReadsForward'
      BY <1>6, <2>2, <2>3 DEF Look, Quiet
    <2> QED
      BY <1>t, <2>1, <2>4, ForgettingKeeps DEF Same
  <1>7. CASE Vanished \/ SeedFails
    <2>1. watcher'.step \in {"reconciling", "scanning"}
      BY <1>7, <1>t, ResumeFacts DEF Vanished, SeedFails
    <2> QED
      BY <1>7, <1>t, <2>1, ForgettingKeeps DEF Vanished, SeedFails, memory, SeedReadsForward, Same
  <1>8. ASSUME NEW found, NEW scope, Scope(found, scope) PROVE IInv'
    <2>1. Same(baseline, Without(baseline, Paths \ scope))
      BY <1>b DEF Same, Without, Restrict
    <2>2. SeedReadsForward'
      BY <1>8 DEF Scope, SeedReadsForward
    <2> QED
      BY <1>8, <1>t, <2>1, <2>2, ForgettingKeeps DEF Scope
  <1>9. CASE Rescan \/ Rediscover \/ ScopeFails
    BY <1>8, <1>9 DEF Rescan, Rediscover, ScopeFails
  <1>10. CASE Leave
    <2>1. SeedReadsForward' /\ Same(baseline, baseline')
      BY <1>10 DEF Leave, SeedReadsForward, Off, Same
    <2> QED
      BY <1>10, <1>t, <2>1, ForgettingKeeps DEF Leave
  <1>11. ASSUME NEW retro, Begin(retro) PROVE IInv'
    BY <1>11, <1>t, ForgettingKeeps DEF Begin, SeedReadsForward, Same
  <1>12. CASE StartFresh \/ Restart
    BY <1>11, <1>12 DEF StartFresh, Restart
  <1>13. CASE Switch \/ UNCHANGED vars
    <2>1. UNCHANGED << past, record, watcher, baseline, waived >>
      BY <1>13 DEF Switch, vars, memory
    <2>2. SeedReadsForward'
      BY <2>1 DEF IInv, SeedReadsForward, Says
    <2> QED
      BY <1>t, <2>1, <2>2, ForgettingKeeps DEF Same
  <1>14. CASE CutShort
    <2>1. watcher'.step = "reconciling"
      <3>1. watcher \in [step : {"reconciling"}, todo : SUBSET Paths, retro : SUBSET Paths]
        BY <1>14, <1>t, WatcherShapes DEF CutShort, TypeOK
      <3> QED
        BY <1>14, <3>1 DEF CutShort
    <2> QED
      BY <1>14, <1>t, <2>1, ForgettingKeeps DEF CutShort, memory, SeedReadsForward, Same
  <1>15. CASE Sleep
    BY <1>15, <1>t, ForgettingKeeps DEF Sleep, memory, SeedReadsForward, Asleep, Same
  <1> QED
    BY <1>1, <1>2, <1>3, <1>4, <1>5, <1>6, <1>7, <1>9, <1>10, <1>12, <1>13, <1>14, <1>15
       DEF Next, Step, Seed, Obey, Die
----------------------------------------------------------------------------
(* Theorems *)

LEMMA InitHasInvariant == Init => IInv
  <1> SUFFICES ASSUME Init PROVE IInv
    OBVIOUS
  <1>1. PICK first \in [Paths -> Contents] : past = [path \in Paths |-> << first[path] >>]
    BY DEF Init
  <1>2. ASSUME NEW path \in Tracked
        PROVE  record[path] \in DOMAIN past[path] /\ Says(path, record[path]) \in Texts
    <2>1. path \in Paths /\ record[path] = 1
      BY <1>2 DEF Init, Tracked
    <2>2. Disk(path) \in Texts
      BY <1>2 DEF Init
    <2> QED
      BY <1>1, <2>1, <2>2 DEF Disk, Says
  <1>3. watcher.step = "off" /\ DOMAIN baseline = {}
    BY DEF Init, Off
  <1> QED
    BY <1>2, <1>3, InitHasType
       DEF IInv, RecordIsPast, BaselineIsPast, SeedReadsForward, BaselineIsKnown

(* What is on record, what is being read and what the baseline takes for   *)
(* dealt with are in order, whatever edits, failures and stops come in     *)
(* between.                                                                *)
THEOREM Invariant == Spec => []IInv
  <1>1. IInv /\ [Next]_vars => IInv'
    BY NextKeepsInvariant
  <1> QED
    BY InitHasInvariant, <1>1, PTL DEF Spec

(* Every variable has its type. *)
THEOREM TypeCorrect == Spec => []TypeOK
  <1>1. IInv => TypeOK
    BY DEF IInv
  <1> QED
    BY <1>1, Invariant, PTL

(* A document is not looked at again only if Urdyn holds what it says, or  *)
(* a fresh watcher took it over unread.                                    *)
THEOREM NothingIsPassedOver == Spec => []BaselineIsKnown
  <1>1. IInv => BaselineIsKnown
    BY DEF IInv
  <1> QED
    BY <1>1, Invariant, PTL

----------------------------------------------------------------------------
(* The watcher keeps the promise of Observation *)

SaidOf(path) == IF path \in Tracked THEN Says(path, record[path]) ELSE Missing
SinceOf(path) == {Says(path, i) : i \in {j \in DOMAIN past[path] : record[path] <= j}}

(* Where no file and no record changes, nothing happens to the promise.    *)
LEMMA StutterRefines ==
    ASSUME UNCHANGED << past, record >>
    PROVE  UNCHANGED Promised!vars
  BY DEF Promised!vars, Disk, Tracked, Says

LEMMA EditRefines ==
    ASSUME IInv, NEW path \in Paths, Edit(path)
    PROVE  Promised!Edit(path)
  <1>1. PICK content \in Contents : past' = [past EXCEPT ![path] = Append(@, content)]
    BY DEF Edit
  <1>2. UNCHANGED record /\ Tracked' = Tracked
    BY DEF Edit, Tracked
  <1>3. /\ past[path] \in Seq(Contents)
        /\ past'[path] = Append(past[path], content)
        /\ \A other \in Paths \ {path} : past'[other] = past[other]
    BY <1>1, PastFacts DEF IInv, TypeOK
  <1>4. /\ Len(past'[path]) = Len(past[path]) + 1
        /\ Len(past[path]) \in Nat
        /\ past'[path][Len(past[path]) + 1] = content
        /\ \A i \in 1..Len(past[path]) : past'[path][i] = past[path][i]
        /\ DOMAIN past'[path] = 1..(Len(past[path]) + 1)
        /\ DOMAIN past[path] = 1..Len(past[path])
    BY <1>3
  <1>5. record[path] \in Nat /\ record[path] <= Len(past[path])
    <2>1. record[path] \in Nat
      BY DEF IInv, TypeOK, Fingerprints
    <2>2. CASE path \in Tracked
      BY <1>4, <2>2 DEF IInv, RecordIsPast
    <2>3. CASE path \notin Tracked
      BY <1>4, <2>3 DEF Tracked
    <2> QED
      BY <2>1, <2>2, <2>3
  <1>6. \A other \in Paths : Disk(other)' = IF other = path THEN content ELSE Disk(other)
    BY <1>3, <1>4 DEF Disk
  <1>7. \A other \in Paths : SaidOf(other)' = SaidOf(other)
    <2> SUFFICES ASSUME NEW other \in Tracked PROVE Says(other, record[other])' = Says(other, record[other])
      BY <1>2 DEF SaidOf
    <2>1. other \in Paths /\ record[other] \in DOMAIN past[other]
      BY DEF IInv, RecordIsPast, Tracked
    <2> QED
      BY <1>2, <1>3, <1>4, <2>1 DEF Says
  <1>8. SinceOf(path)' = SinceOf(path) \cup {content}
    <2>1. ASSUME NEW text \in SinceOf(path)' PROVE text \in SinceOf(path) \cup {content}
      <3>1. PICK i \in DOMAIN past'[path] : record[path] <= i /\ text = past'[path][i]
        BY <1>2, <2>1 DEF SinceOf, Says
      <3> QED
        BY <1>4, <3>1 DEF SinceOf, Says
    <2>2. ASSUME NEW text \in SinceOf(path) PROVE text \in SinceOf(path)'
      <3>1. PICK i \in DOMAIN past[path] : record[path] <= i /\ text = past[path][i]
        BY <2>2 DEF SinceOf, Says
      <3>2. i \in DOMAIN past'[path] /\ text = past'[path][i]
        BY <1>4, <3>1
      <3> QED
        BY <1>2, <3>1, <3>2 DEF SinceOf, Says
    <2>3. content \in SinceOf(path)'
      <3>1. Len(past[path]) + 1 \in DOMAIN past'[path] /\ record[path] <= Len(past[path]) + 1
        BY <1>4, <1>5
      <3> QED
        BY <1>2, <1>4, <3>1 DEF SinceOf, Says
    <2> QED
      BY <2>1, <2>2, <2>3
  <1>9. \A other \in Paths \ {path} : SinceOf(other)' = SinceOf(other)
    BY <1>2, <1>3 DEF SinceOf, Says
  <1>10. [p \in Paths |-> Disk(p)]' = [[p \in Paths |-> Disk(p)] EXCEPT ![path] = content]
    BY <1>6
  <1>11. [p \in Paths |-> SinceOf(p)]'
           = [[p \in Paths |-> SinceOf(p)] EXCEPT ![path] = @ \cup {[p \in Paths |-> Disk(p)]'[path]}]
    BY <1>6, <1>8, <1>9
  <1>12. [p \in Paths |-> SaidOf(p)]' = [p \in Paths |-> SaidOf(p)]
    BY <1>7
  <1> QED
    BY <1>10, <1>11, <1>12 DEF Promised!Edit, SaidOf, SinceOf
(* A record is of something the file has said since the last one, and that *)
(* Urdyn did not hold; or nothing is written.                              *)
LEMMA RecordRefines ==
    ASSUME IInv, Record
    PROVE  (\E path \in Paths : Promised!Observe(path)) \/ UNCHANGED Promised!vars
  <1> PICK path, read, text : path = watcher.path /\ read = watcher.read /\ text = Says(path, read)
    OBVIOUS
  <1>1. watcher.step = "recording" /\ UNCHANGED past
    BY DEF Record
  <1>2. /\ path \in Paths /\ read \in Nat /\ read >= 1
        /\ read <= Len(past[path]) /\ record[path] <= read
        /\ text \in Texts
    BY <1>1, WatcherShapes DEF IInv, TypeOK, SeedReadsForward, Fingerprints
  <1>3. /\ Len(past[path]) \in Nat /\ Len(past[path]) >= 1
        /\ DOMAIN past[path] = 1..Len(past[path])
    BY <1>2, PastFacts DEF IInv
  <1>4. CASE record' = record
    BY <1>1, <1>4, StutterRefines
  <1>5. CASE record' # record
    <2>1. /\ record' = [record EXCEPT ![path] = read]
          /\ ~(path \in Tracked /\ Says(path, record[path]) = text)
      BY <1>5 DEF Record
    <2>2. record \in [Paths -> Nat]
      BY DEF IInv, TypeOK, Fingerprints
    <2>3. record'[path] = read /\ \A other \in Paths \ {path} : record'[other] = record[other]
      BY <1>2, <2>1, <2>2
    <2>4. Tracked' = Tracked \cup {path}
      BY <1>2, <2>3 DEF Tracked
    <2>5. SaidOf(path)' = text /\ \A other \in Paths \ {path} : SaidOf(other)' = SaidOf(other)
      BY <1>1, <2>3, <2>4 DEF SaidOf, Says
    <2>6. text # SaidOf(path)
      BY <1>2, <2>1, WatchAssumption DEF SaidOf
    <2>7. text \in SinceOf(path) /\ text \in SinceOf(path)' /\ Disk(path) \in SinceOf(path)'
      BY <1>1, <1>2, <1>3, <2>3 DEF SinceOf, Says, Disk
    <2>8. SinceOf(path)' \subseteq SinceOf(path)
      <3> SUFFICES ASSUME NEW said \in SinceOf(path)' PROVE said \in SinceOf(path)
        OBVIOUS
      <3>1. PICK i \in DOMAIN past[path] : read <= i /\ said = past[path][i]
        BY <1>1, <2>3 DEF SinceOf, Says
      <3>2. record[path] <= i
        BY <1>2, <1>3, <2>2, <3>1
      <3> QED
        BY <3>1, <3>2 DEF SinceOf, Says
    <2>9. \A other \in Paths \ {path} : SinceOf(other)' = SinceOf(other)
      BY <1>1, <2>3 DEF SinceOf, Says
    <2>10. [p \in Paths |-> SaidOf(p)]' = [[p \in Paths |-> SaidOf(p)] EXCEPT ![path] = text]
      BY <2>5
    <2>11. [p \in Paths |-> SinceOf(p)]' = [[p \in Paths |-> SinceOf(p)] EXCEPT ![path] = SinceOf(path)']
      BY <2>9
    <2>12. [p \in Paths |-> Disk(p)]' = [p \in Paths |-> Disk(p)]
      BY <1>1 DEF Disk
    <2>13. ([p \in Paths |-> SinceOf(p)])[path] = SinceOf(path)
           /\ ([p \in Paths |-> SaidOf(p)])[path] = SaidOf(path)
           /\ ([p \in Paths |-> Disk(p)])[path] = Disk(path)
      BY <1>2
    <2>14. /\ text \in (([p \in Paths |-> SinceOf(p)])[path] \cap Texts) \ {([p \in Paths |-> SaidOf(p)])[path]}
           /\ SinceOf(path)' \in SUBSET ([p \in Paths |-> SinceOf(p)])[path]
           /\ {text, ([p \in Paths |-> Disk(p)])[path]} \subseteq SinceOf(path)'
      BY <1>2, <2>6, <2>7, <2>8, <2>13
    <2>15. Promised!Observe(path)
      <3> DEFINE since == SinceOf(path)'
                 told == text
      <3>1. /\ told \in (([p \in Paths |-> SinceOf(p)])[path] \cap Texts) \ {([p \in Paths |-> SaidOf(p)])[path]}
            /\ since \in SUBSET ([p \in Paths |-> SinceOf(p)])[path]
            /\ {told, ([p \in Paths |-> Disk(p)])[path]} \subseteq since
            /\ [p \in Paths |-> SaidOf(p)]' = [[p \in Paths |-> SaidOf(p)] EXCEPT ![path] = told]
            /\ [p \in Paths |-> SinceOf(p)]' = [[p \in Paths |-> SinceOf(p)] EXCEPT ![path] = since]
        BY <2>10, <2>11, <2>14
      <3> HIDE DEF since, told
      <3> QED
        BY <2>12, <3>1 DEF Promised!Observe, SaidOf, SinceOf
    <2> QED
      BY <1>2, <2>15
  <1> QED
    BY <1>4, <1>5

LEMMA NextRefines ==
    ASSUME IInv, [Next]_vars
    PROVE  [Promised!Next]_(Promised!vars)
  <1>1. CASE \E path \in Paths : Edit(path)
    BY <1>1, EditRefines DEF Promised!Next
  <1>2. CASE Record
    BY <1>2, RecordRefines DEF Promised!Next
  <1>3. CASE ~Record /\ ~(\E path \in Paths : Edit(path))
    <2>1. UNCHANGED << past, record >>
      BY <1>3 DEF Next, Step, Seed, Obey, Die, Leave, StartFresh, Restart, Begin, Switch, CutShort, Reconcile,
         Look, Sleep, Rescan, Rediscover, ScopeFails, Scope, Read, Refuse, Vanished, SeedFails, vars
    <2> QED
      BY <2>1, StutterRefines
  <1> QED
    BY <1>1, <1>2, <1>3

LEMMA InitRefines == Init => Promised!Init
  <1> SUFFICES ASSUME Init PROVE Promised!Init
    OBVIOUS
  <1>1. PICK first \in [Paths -> Contents] : past = [path \in Paths |-> << first[path] >>]
    BY DEF Init
  <1>2. ASSUME NEW path \in Paths
        PROVE  /\ SinceOf(path) = {Disk(path)}
               /\ SaidOf(path) \in Texts => SaidOf(path) = Disk(path)
    <2>1. past[path] = << first[path] >> /\ record[path] \in {0, 1}
      BY <1>1 DEF Init
    <2>2. DOMAIN past[path] = {1} /\ Len(past[path]) = 1 /\ past[path][1] = first[path]
      BY <2>1
    <2>3. Disk(path) = first[path]
      BY <2>2 DEF Disk
    <2>4. SinceOf(path) = {first[path]}
      BY <2>1, <2>2 DEF SinceOf, Says
    <2>5. path \in Tracked => SaidOf(path) = first[path]
      BY <2>1, <2>2 DEF Tracked, SaidOf, Says
    <2>6. path \notin Tracked => SaidOf(path) \notin Texts
      BY WatchAssumption DEF SaidOf
    <2> QED
      BY <2>3, <2>4, <2>5, <2>6
  <1> QED
    BY <1>2 DEF Promised!Init, SaidOf, SinceOf

(* What the watcher records of a file, through edits at any moment, seeds  *)
(* that fail and watchers that die, is what Observation promises.          *)
THEOREM Refinement == Spec => KeepsPromise
  <1>1. IInv /\ [Next]_vars => [Promised!Next]_(Promised!vars)
    BY NextRefines
  <1> QED
    BY InitRefines, <1>1, Invariant, PTL DEF Spec, KeepsPromise, Promised!Spec
=============================================================================
