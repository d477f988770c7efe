------------------------------ MODULE WatchLoop ------------------------------
(***************************************************************************)
(* What the Dev watcher does while it runs (src/urdyn/_watcher.py,         *)
(* _reconcile_baseline() and _run_loop()): it stats the paths of its scope *)
(* again and again, waits for a changed one to settle, and seeds it.       *)
(*                                                                         *)
(* Files change at any moment, also between the stat, the reading and the  *)
(* recording of one path.  The baseline and the pending changes are in the *)
(* watcher's memory and die with it.  WatcherLifecycle has who starts and  *)
(* stops it and that there is one at a time; SourceStore has what a seed   *)
(* does, of which the one path, the reading and the recording are here.    *)
(*                                                                         *)
(* A file is the sequence of its states, and a fingerprint, (mtime, size), *)
(* is the number of the state: no two states have the same.  A scan takes   *)
(* its paths by name, here in any order.                                   *)
(***************************************************************************)
EXTENDS Naturals, Sequences, Functions

CONSTANTS Paths,          \* workspace-relative paths
          Discoverable,   \* those project discovery proposes if they can be seeded
          Texts,          \* what a document can say
          Missing,        \* no file, or one that cannot be read now
          Refused,        \* binary, empty, too large: no document
          MaxEdits        \* bound: how often each file changes

ASSUME WatchAssumption ==
    /\ Missing # Refused /\ {Missing, Refused} \cap Texts = {}
    /\ Discoverable \subseteq Paths
    /\ MaxEdits \in [Paths -> Nat]

VARIABLES past,        \* the states each file has been in; the last is the disk
          record,      \* the state its latest observation read, 0 if not tracked
          enabled,     \* the switch
          baseline,    \* fingerprints that have been dealt with
          pending,     \* fingerprints seen once, that may not have settled
          discovered,  \* what the last walk of the project proposed
          watcher,     \* what the watcher is doing
          waived       \* history: the paths taken over, unread, as they are now

memory == << baseline, pending, discovered >>
vars == << past, record, enabled, memory, watcher, waived >>

Contents == Texts \cup {Missing, Refused}

Disk(path) == past[path][Len(past[path])]

Tracked == {path \in Paths : record[path] # 0}

(* _stat_fingerprint(): 0 where there is nothing to stat. *)
Fingerprint(path) == IF Disk(path) = Missing THEN 0 ELSE Len(past[path])

Off == [step |-> "off"]
Asleep == [step |-> "asleep"]

Init ==
    /\ \E first \in [Paths -> Contents] : past = [path \in Paths |-> << first[path] >>]
    /\ record \in [Paths -> {0, 1}]
    /\ \A path \in Tracked : Disk(path) \in Texts
    /\ enabled = FALSE
    /\ baseline = << >> /\ pending = << >> /\ discovered = {}
    /\ watcher = Off
    /\ waived = {}

(* A file is written, perhaps as it was, or deleted.                       *)
Edit(path) ==
    /\ Len(past[path]) <= MaxEdits[path]
    /\ \E content \in Contents :
         /\ ~(content = Missing /\ Disk(path) = Missing)
         /\ past' = [past EXCEPT ![path] = Append(@, content)]
    /\ waived' = waived \ {path}
    /\ UNCHANGED << record, enabled, memory, watcher >>

----------------------------------------------------------------------------
(* The baseline *)

Seedable(path) == Disk(path) \in Texts

Discovered == {path \in Discoverable : Seedable(path)}

(* _child_main(): one walk of the project, and what is tracked by then. *)
Begin(retro) ==
    /\ discovered' = Discovered
    /\ watcher' = [step |-> "reconciling", todo |-> Tracked \cup Discovered, retro |-> retro]
    /\ UNCHANGED << past, record, baseline, pending, waived >>

(* enable_and_start(): the switch was off, and the watcher spawned is fresh. *)
StartFresh ==
    /\ watcher = Off
    /\ ~enabled
    /\ enabled' = TRUE
    /\ Begin({})

(* supervise(): any other watcher compares with the latest observations. *)
Restart ==
    /\ watcher = Off
    /\ enabled
    /\ Begin(Tracked)
    /\ UNCHANGED enabled

(* watch stop, and watch start while the watcher has not yet noticed. *)
Switch ==
    /\ watcher # Off
    /\ enabled' = ~enabled
    /\ UNCHANGED << past, record, memory, watcher, waived >>

Put(map, path, fingerprint) ==
    [p \in DOMAIN map \cup {path} |-> IF p = path THEN fingerprint ELSE map[p]]

Without(map, paths) == Restrict(map, DOMAIN map \ paths)

Done(path) == watcher' = [watcher EXCEPT !.todo = @ \ {path}]

(* _seed_one() begins, with the fingerprint that was read before. *)
BeginSeed(path) ==
    watcher' = [step |-> "reading", path |-> path, fingerprint |-> Fingerprint(path), resume |-> watcher]

(* should_stop() is polled before each path: a baseline is cut short. *)
CutShort ==
    /\ watcher.step = "reconciling"
    /\ ~enabled
    /\ watcher.todo # {}
    /\ watcher' = [watcher EXCEPT !.todo = {}]
    /\ UNCHANGED << past, record, enabled, memory, waived >>

(* A path that is not there, one that is taken over as it is, and one that *)
(* is read again because it is tracked.                                    *)
Reconcile(path) ==
    /\ watcher.step = "reconciling"
    /\ enabled
    /\ path \in watcher.todo
    /\ \/ /\ Fingerprint(path) = 0
          /\ Done(path)
          /\ UNCHANGED << baseline, waived >>
       \/ /\ Fingerprint(path) # 0 /\ path \notin watcher.retro
          /\ baseline' = Put(baseline, path, Fingerprint(path))
          /\ waived' = waived \cup {path}
          /\ Done(path)
       \/ /\ Fingerprint(path) # 0 /\ path \in watcher.retro
          /\ BeginSeed(path)
          /\ UNCHANGED << baseline, waived >>
    /\ UNCHANGED << past, record, enabled, pending, discovered >>

(* The baseline is fixed, or a scan is over. *)
Sleep ==
    /\ watcher.step \in {"reconciling", "scanning"}
    /\ watcher.todo = {}
    /\ watcher' = Asleep
    /\ UNCHANGED << past, record, enabled, memory, waived >>

----------------------------------------------------------------------------
(* The loop *)

(* _ScopeCache.scope(): what is tracked now and what was discovered by a   *)
(* walk that is repeated every ten seconds at most; what has left the      *)
(* scope is forgotten.                                                     *)
Scope(found, scope) ==
    /\ watcher.step = "asleep"
    /\ enabled
    /\ discovered' = found
    /\ baseline' = Without(baseline, Paths \ scope)
    /\ pending' = Without(pending, Paths \ scope)
    /\ watcher' = [step |-> "scanning", todo |-> scope]
    /\ UNCHANGED << past, record, enabled, waived >>

Rescan == Scope(discovered, Tracked \cup discovered)

Rediscover == Scope(Discovered, Tracked \cup Discovered)

(* What is tracked could not be read: the scope is the baseline. *)
ScopeFails == Scope(discovered, DOMAIN baseline)

(* Nothing to see, or nothing new. *)
Quiet(path) ==
    Fingerprint(path) = 0 \/ (path \in DOMAIN baseline /\ baseline[path] = Fingerprint(path))

(* Seen before as it is now.  Two scans are at least two seconds apart, a  *)
(* change is taken to have settled after one.                              *)
Settled(path) == path \in DOMAIN pending /\ pending[path] = Fingerprint(path)

Look(path) ==
    /\ watcher.step = "scanning"
    /\ path \in watcher.todo
    /\ \/ /\ Quiet(path)
          /\ pending' = Without(pending, {path})
          /\ Done(path)
       \/ /\ ~Quiet(path) /\ ~Settled(path)
          /\ pending' = Put(pending, path, Fingerprint(path))
          /\ Done(path)
       \/ /\ ~Quiet(path) /\ Settled(path)
          /\ BeginSeed(path)
          /\ UNCHANGED pending
    /\ UNCHANGED << past, record, enabled, baseline, discovered, waived >>

Resume == watcher' = [watcher.resume EXCEPT !.todo = @ \ {watcher.path}]

(* The baseline becomes the fingerprint that settled, whatever the file    *)
(* has become since.  The mutant takes a new one.                          *)
Advance_Restat ==
    /\ baseline' = Put(baseline, watcher.path, Fingerprint(watcher.path))
    /\ pending' = Without(pending, {watcher.path})

Advance ==
    /\ baseline' = Put(baseline, watcher.path, watcher.fingerprint)
    /\ pending' = Without(pending, {watcher.path})

(* seed() reads the file, by now perhaps another. *)
Read ==
    /\ watcher.step = "reading"
    /\ Seedable(watcher.path)
    /\ watcher' = [step |-> "recording", path |-> watcher.path, fingerprint |-> watcher.fingerprint,
                   read |-> Len(past[watcher.path]), resume |-> watcher.resume]
    /\ UNCHANGED << past, record, enabled, memory, waived >>

(* A refusal for what the file contains settles the matter; the mutant     *)
(* takes it for a passing failure.                                         *)
Refuse_Transient ==
    /\ watcher.step = "reading"
    /\ Disk(watcher.path) = Refused
    /\ Resume
    /\ UNCHANGED << past, record, enabled, memory, waived >>

Refuse ==
    /\ watcher.step = "reading"
    /\ Disk(watcher.path) = Refused
    /\ Advance
    /\ Resume
    /\ UNCHANGED << past, record, enabled, discovered, waived >>

Says(path, state) == past[path][state]

(* Mutant of Record: every reading is recorded.                            *)
Record_Always ==
    /\ watcher.step = "recording"
    /\ record' = [record EXCEPT ![watcher.path] = watcher.read]
    /\ Advance
    /\ Resume
    /\ UNCHANGED << past, enabled, discovered, waived >>

(* observe_source(): nothing is written if the latest observation says the *)
(* same.                                                                   *)
Record ==
    /\ watcher.step = "recording"
    /\ record' = IF /\ watcher.path \in Tracked
                    /\ Says(watcher.path, record[watcher.path]) = Says(watcher.path, watcher.read)
                 THEN record
                 ELSE [record EXCEPT ![watcher.path] = watcher.read]
    /\ Advance
    /\ Resume
    /\ UNCHANGED << past, enabled, discovered, waived >>

(* The file has gone: an OSError. *)
Vanished ==
    /\ watcher.step = "reading"
    /\ Disk(watcher.path) = Missing
    /\ Resume
    /\ UNCHANGED << past, record, enabled, memory, waived >>

(* EACCES, EIO, a locked store: nothing was recorded, and the change stays *)
(* pending, or out of the baseline.  The mutant takes it for dealt with.   *)
SeedFails_Handled ==
    /\ watcher.step \in {"reading", "recording"}
    /\ Advance
    /\ Resume
    /\ UNCHANGED << past, record, enabled, discovered, waived >>

SeedFails ==
    /\ watcher.step \in {"reading", "recording"}
    /\ Resume
    /\ UNCHANGED << past, record, enabled, memory, waived >>

Leave ==
    /\ baseline' = << >> /\ pending' = << >> /\ discovered' = {}
    /\ watcher' = Off
    /\ UNCHANGED << past, record, enabled, waived >>

(* should_stop(), before each scan and while asleep. *)
Obey == watcher.step = "asleep" /\ ~enabled /\ Leave

(* Killed, told to stop by a signal, or the workspace has gone. *)
Die == watcher # Off /\ Leave

----------------------------------------------------------------------------
Seed == Read \/ Refuse \/ Record \/ Vanished

Step ==
    \/ CutShort
    \/ \E path \in Paths : Reconcile(path) \/ Look(path)
    \/ Sleep \/ Rescan \/ Rediscover \/ Seed \/ Obey

Next ==
    \/ \E path \in Paths : Edit(path)
    \/ StartFresh \/ Restart \/ Switch
    \/ Step \/ ScopeFails \/ SeedFails \/ Die

Spec == Init /\ [][Next]_vars

(* A watcher that lives goes on; the project is walked again and again;    *)
(* and while the switch is on some command brings a dead watcher back.     *)
Fairness == WF_vars(Step) /\ SF_vars(Rediscover) /\ WF_vars(Restart)

FairSpec == Spec /\ Fairness

----------------------------------------------------------------------------
(* Properties *)

Fingerprints == Nat

Loops ==
    [step : {"reconciling"}, todo : SUBSET Paths, retro : SUBSET Paths]
    \cup [step : {"scanning"}, todo : SUBSET Paths]

Watchers ==
    {Off, Asleep} \cup Loops
    \cup [step : {"reading"}, path : Paths, fingerprint : Fingerprints \ {0}, resume : Loops]
    \cup [step : {"recording"}, path : Paths, fingerprint : Fingerprints \ {0},
          read : Fingerprints \ {0}, resume : Loops]

TypeOK ==
    /\ past \in [Paths -> Seq(Contents) \ {<< >>}]
    /\ record \in [Paths -> Fingerprints]
    /\ enabled \in BOOLEAN
    /\ \A map \in {baseline, pending} :
         DOMAIN map \subseteq Paths /\ map \in [DOMAIN map -> Fingerprints \ {0}]
    /\ discovered \subseteq Discoverable
    /\ watcher \in Watchers
    /\ waived \subseteq Paths

(* What Urdyn holds of the file is what the file says. *)
IsKnown(path) == path \in Tracked /\ Says(path, record[path]) = Disk(path)

(* A document is not looked at again only if Urdyn holds what it says, or  *)
(* it was taken over as it is, unread: between the stat and the record the *)
(* file may change, the seed may fail, and the watcher may be stopped.     *)
BaselineIsKnown ==
    \A path \in DOMAIN baseline :
        baseline[path] = Fingerprint(path) /\ Seedable(path)
            => IsKnown(path) \/ path \in waived

Behind(path) ==
    /\ path \in Tracked \cup Discoverable
    /\ Seedable(path)
    /\ ~IsKnown(path)
    /\ path \notin waived

(* What keeps a change from being recorded if it happens again and again:  *)
(* files that never settle, a document that cannot be read or recorded, a  *)
(* path that drops out of the scope, a watcher killed or switched off.     *)
Setback ==
    \/ \E path \in Paths : Edit(path)
    \/ SeedFails /\ (watcher.step = "recording" \/ Seedable(watcher.path))
    \/ ScopeFails /\ DOMAIN baseline # Tracked \cup discovered
    \/ Die \/ Switch

(* No change is lost: of a file that is tracked or proposed, Urdyn comes   *)
(* to hold what it says, also if it changed while no watcher ran.          *)
CatchesUp ==
    \A path \in Paths :
        []<>(~Behind(path)) \/ <>[](~enabled) \/ []<><<Setback>>_vars

(* A file that is refused for what it contains is not read for ever. *)
RefusalIsFinal == []<><<Refuse>>_vars => []<><<Setback>>_vars

(* The watcher is one of those that Observation describes.                 *)
Promised ==
    INSTANCE Observation WITH
        disk <- [path \in Paths |-> Disk(path)],
        said <- [path \in Paths |-> IF path \in Tracked THEN Says(path, record[path]) ELSE Missing],
        since <- [path \in Paths |->
                    {Says(path, i) : i \in {j \in DOMAIN past[path] : record[path] <= j}}]

KeepsPromise == Promised!Spec
=============================================================================
