----------------------- MODULE WatcherLifecycleProofs -----------------------
(* Proofs about WatcherLifecycle. *)
EXTENDS WatcherLifecycle, TLAPS

(* A watcher that works. *)
Works(w) == watcher[w].step \notin {"none", "starting"}

(* At most one watcher works: it has the lock. *)
WorkerOwnsLock == \A w \in Watchers : Works(w) => holder = w

(* What a stop has turned off is off until somebody turns it on. *)
StopStands == stopped => ~IsEnabled

IInv ==
    /\ TypeOK
    /\ WorkerOwnsLock
    /\ StopStands
    /\ NothingObservedAfterStop
    /\ PublishedIsReady

----------------------------------------------------------------------------
(* Types *)

(* A watcher that exists is a record of all its fields. *)
LEMMA LiveFacts ==
    ASSUME TypeOK, NEW w \in Watchers, watcher[w].step # "none"
    PROVE  watcher[w] \in LiveWatchers
  BY DEF TypeOK, NoWatcher

(* What a watcher does to itself leaves it one. *)
LEMMA BecomeKeeps ==
    ASSUME TypeOK, NEW w \in Watchers, NEW state \in {NoWatcher} \cup LiveWatchers, Become(w, state)
    PROVE  watcher' \in [Watchers -> {NoWatcher} \cup LiveWatchers]
  BY DEF TypeOK, Become

LEMMA DoKeeps ==
    ASSUME TypeOK, NEW k \in Commands, NEW state \in CommandStates, Do(k, state)
    PROVE  command' \in [Commands -> CommandStates]
  BY DEF TypeOK, Do

(* The next step of a watcher is a step. *)
LEMMA MoveKeeps ==
    ASSUME TypeOK, NEW w \in Watchers, watcher[w].step # "none",
           NEW step \in {"opening", "reconciling", "reconciling path", "running", "scanning"},
           Move(w, step)
    PROVE  watcher' \in [Watchers -> {NoWatcher} \cup LiveWatchers]
  <1>1. watcher[w] \in LiveWatchers
    BY LiveFacts
  <1>2. [watcher[w] EXCEPT !.step = step] \in LiveWatchers
    BY <1>1 DEF LiveWatchers
  <1> QED
    BY <1>2, BecomeKeeps DEF Move

(* What a command is doing tells what it carries. *)
LEMMA CommandKinds ==
    ASSUME TypeOK, NEW k \in Commands
    PROVE  /\ command[k].step \in WritingSteps => command[k] \in Writers
           /\ command[k].step \in Probing => command[k] \in Probers
           /\ command[k].step = "spawn" => command[k] \in Spawners
  <1> DEFINE c == command[k]
  <1>1. c \in Writers => c.step \in WritingSteps
    BY DEF Writers
  <1>2. c \in Probers => c.step \in Probing
    BY DEF Probers
  <1>3. c \in Spawners => c.step = "spawn"
    BY DEF Spawners
  <1>4. c = IdleCommand => c.step = "idle"
    BY DEF IdleCommand
  <1>5. c = Interrupted => c.step = "interrupted"
    BY DEF Interrupted
  <1>6. c \in CommandStates
    BY DEF TypeOK
  <1> HIDE DEF c
  <1>7. /\ c.step \in WritingSteps => c \in Writers
        /\ c.step \in Probing => c \in Probers
        /\ c.step = "spawn" => c \in Spawners
    BY <1>1, <1>2, <1>3, <1>4, <1>5, <1>6 DEF CommandStates, WritingSteps, Probing
  <1> QED
    BY <1>7 DEF c

(* A command that writes, by what it writes. *)
LEMMA WriterFacts ==
    ASSUME TypeOK, NEW k \in Commands, command[k].step \in WritingSteps
    PROVE  /\ command[k].value \in {"enabled", "disabled"}
           /\ \A step \in WritingSteps, file \in {"none", "tmp", "config", "gone"} :
                [command[k] EXCEPT !.step = step, !.file = file] \in Writers
  <1>1. command[k] \in Writers
    BY CommandKinds
  <1> QED
    BY <1>1 DEF Writers

(* A command that probes. *)
LEMMA ProberFacts ==
    ASSUME TypeOK, NEW k \in Commands, command[k].step \in Probing
    PROVE  \A step \in Probing : [command[k] EXCEPT !.step = step] \in Probers
  <1>1. command[k] \in Probers
    BY CommandKinds
  <1> QED
    BY <1>1 DEF Probers

CommandActions(k) ==
    \/ BeginSupervise(k) \/ BeginStart(k) \/ BeginStop(k)
    \/ CommandStep(k) \/ CommandDies(k)

WatcherActions(w) == WatcherStep(w) \/ OpenFails(w) \/ Fail(w) \/ Die(w)

LEMMA CommandKeepsType ==
    ASSUME TypeOK, NEW k \in Commands, CommandActions(k)
    PROVE  TypeOK'
  <1> USE DEF files
  <1>1. {IdleCommand, Interrupted} \cup Writers \cup Probers \cup Spawners \subseteq CommandStates
    BY DEF CommandStates
  <1>2. CASE BeginSupervise(k)
    <2>1. [step |-> "probe", op |-> "supervise"] \in Probers
      BY DEF Probers, Probing
    <2> QED
      BY <1>1, <1>2, <2>1, DoKeeps DEF BeginSupervise, TypeOK
  <1>3. CASE BeginStart(k)
    <2>1. Writing("start", "enabled") \in Writers
      BY DEF Writing, Writers, WritingSteps
    <2> QED
      BY <1>1, <1>3, <2>1, DoKeeps DEF BeginStart, TypeOK
  <1>4. CASE BeginStop(k)
    <2>1. Writing("stop", "disabled") \in Writers
      BY DEF Writing, Writers, WritingSteps
    <2> QED
      BY <1>1, <1>4, <2>1, DoKeeps DEF BeginStop, TypeOK
  <1>5. CASE OpenTmp(k)
    <2>1. [command[k] EXCEPT !.step = "fill tmp", !.file = "tmp"] \in Writers
      BY <1>5, WriterFacts DEF OpenTmp, WritingSteps
    <2> QED
      BY <1>1, <1>5, <2>1, DoKeeps DEF OpenTmp, TypeOK, Contents
  <1>6. CASE FillTmp(k)
    <2>1. /\ command[k].value \in {"enabled", "disabled"}
          /\ [command[k] EXCEPT !.step = "rename", !.file = "none"] \in Writers
      BY <1>6, WriterFacts DEF FillTmp, WritingSteps
    <2>2. command' \in [Commands -> CommandStates]
      BY <1>1, <1>6, <2>1, DoKeeps DEF FillTmp
    <2>3. config' \in Contents /\ tmp' \in Contents /\ stopped' \in BOOLEAN
      BY <1>6, <2>1 DEF FillTmp, SetConfig, TypeOK, Contents
    <2> QED
      BY <1>6, <2>2, <2>3 DEF FillTmp, TypeOK
  <1>7. CASE Rename(k)
    <2>1. CASE tmp = "absent"
      BY <1>1, <1>7, <2>1, DoKeeps DEF Rename, TypeOK
    <2>2. CASE tmp # "absent"
      <3>1. config' \in Contents /\ tmp' \in Contents /\ stopped' \in BOOLEAN
        BY <1>7, <2>2 DEF Rename, SetConfig, TypeOK, Contents
      <3>2. /\ [step |-> "spawn", fresh |-> TRUE] \in CommandStates
            /\ [step |-> "probe", op |-> "stop"] \in CommandStates
        BY <1>1 DEF Probers, Probing, Spawners
      <3>3. \A j \in Commands : command[j].step = "fill tmp" =>
              [command[j] EXCEPT !.file = Moved(@)] \in CommandStates
        <4> SUFFICES ASSUME NEW j \in Commands, command[j].step = "fill tmp"
                     PROVE  [command[j] EXCEPT !.file = Moved(@)] \in Writers
          BY <1>1
        <4>1. command[j] \in Writers
          BY CommandKinds DEF WritingSteps
        <4> QED
          BY <4>1 DEF Writers, Moved
      <3>4. \A j \in Commands : command[j] \in CommandStates
        BY DEF TypeOK
      <3>5. command' \in [Commands -> CommandStates]
        BY <1>7, <2>2, <3>2, <3>3, <3>4 DEF Rename
      <3> QED
        BY <1>7, <3>1, <3>5 DEF Rename, TypeOK
    <2> QED
      BY <2>1, <2>2
  <1>8. CASE ProbeAcquire(k)
    BY <1>8 DEF ProbeAcquire, TypeOK
  <1>9. Restart \in CommandStates
    BY <1>1 DEF Restart, Spawners
  <1>10. CASE ProbeFree(k)
    <2>1. command[k].step = "await" => [command[k] EXCEPT !.step = "final"] \in CommandStates
      BY <1>1, ProberFacts DEF Probing
    <2>2. command' \in [Commands -> CommandStates]
      BY <1>1, <1>9, <1>10, <2>1, DoKeeps DEF ProbeFree
    <2> QED
      BY <1>10, <2>2 DEF ProbeFree, TypeOK
  <1>11. CASE ProbeBusy(k)
    <2>1. /\ [command[k] EXCEPT !.step = "await"] \in CommandStates
          /\ [command[k] EXCEPT !.step = "final"] \in CommandStates
      BY <1>1, <1>11, ProberFacts DEF ProbeBusy, Probing
    <2>2. command' \in [Commands -> CommandStates]
      BY <1>1, <1>9, <1>11, <2>1, DoKeeps DEF ProbeBusy, Terminate
    <2>3. watcher' \in [Watchers -> {NoWatcher} \cup LiveWatchers]
      <3>1. watcher' = watcher \/ \E w : Signal(w)
        BY <1>11 DEF ProbeBusy, Terminate
      <3>2. ASSUME NEW w, Signal(w)
            PROVE  watcher' \in [Watchers -> {NoWatcher} \cup LiveWatchers]
        <4>1. CASE IsLive(w)
          <5>1. w \in Watchers /\ watcher[w] \in LiveWatchers
            BY <4>1 DEF IsLive, TypeOK
          <5>2. [watcher[w] EXCEPT !.signalled = TRUE] \in LiveWatchers
            BY <5>1 DEF LiveWatchers
          <5> QED
            BY <3>2, <4>1, <5>1, <5>2 DEF Signal, TypeOK
        <4> QED
          BY <3>2, <4>1 DEF Signal, TypeOK
      <3> QED
        BY <3>1, <3>2 DEF TypeOK
    <2> QED
      BY <1>11, <2>2, <2>3 DEF ProbeBusy, TypeOK
  <1>12. CASE AwaitTimeout(k)
    <2>1. [command[k] EXCEPT !.step = "final"] \in CommandStates
      BY <1>1, <1>12, ProberFacts DEF AwaitTimeout, Probing
    <2> QED
      BY <1>9, <1>12, <2>1, DoKeeps DEF AwaitTimeout, TypeOK
  <1>13. CASE StopTimeout(k)
    BY <1>1, <1>13, DoKeeps DEF StopTimeout, TypeOK
  <1>14. CASE Spawn(k)
    <2>1. command' \in [Commands -> CommandStates]
      BY <1>1, <1>14, DoKeeps DEF Spawn
    <2>2. command[k].fresh \in BOOLEAN
      <3>1. command[k] \in Spawners
        BY <1>14, CommandKinds DEF Spawn
      <3> QED
        BY <3>1 DEF Spawners
    <2>3. Version[k] \in Range(Version)
      BY LifecycleAssumption DEF LifecycleAssumption, Range
    <2>4. [step |-> "starting", fresh |-> command[k].fresh,
           version |-> Version[k], signalled |-> FALSE] \in LiveWatchers
      BY <2>2, <2>3 DEF LiveWatchers
    <2>5. watcher' \in [Watchers -> {NoWatcher} \cup LiveWatchers]
      BY <1>14, <2>4, BecomeKeeps DEF Spawn
    <2> QED
      BY <1>14, <2>1, <2>5 DEF Spawn, TypeOK
  <1>15. CASE CommandDies(k)
    <2>1. tmp' \in Contents
      BY <1>15 DEF CommandDies, TypeOK, Contents
    <2> QED
      BY <1>1, <1>15, <2>1, DoKeeps DEF CommandDies, TypeOK
  <1> QED
    BY <1>2, <1>3, <1>4, <1>5, <1>6, <1>7, <1>8, <1>10, <1>11, <1>12, <1>13, <1>14, <1>15
    DEF CommandActions, CommandStep, Supervise

LEMMA WatcherKeepsType ==
    ASSUME TypeOK, NEW w \in Watchers, WatcherActions(w)
    PROVE  TypeOK'
  <1> USE DEF files
  <1>1. CASE Acquire(w)
    BY <1>1, MoveKeeps DEF Acquire, At, TypeOK
  <1>2. CASE LoseLock(w)
    BY <1>2, BecomeKeeps DEF LoseLock, TypeOK
  <1>3. CASE Leave(w)
    BY <1>3, BecomeKeeps DEF Leave, TypeOK
  <1>4. CASE OpenWorkspace(w)
    BY <1>4, MoveKeeps DEF OpenWorkspace, At, TypeOK
  <1>5. CASE ReconcilePath(w)
    BY <1>5, MoveKeeps DEF ReconcilePath, At, TypeOK
  <1>6. CASE Publish(w)
    <2>1. watcher[w] \in LiveWatchers
      BY <1>6, LiveFacts DEF Publish, At
    <2>2. /\ [watcher[w] EXCEPT !.step = "running", !.fresh = FALSE] \in LiveWatchers
          /\ watcher[w].version \in Range(Version)
      BY <2>1 DEF LiveWatchers
    <2> QED
      BY <1>6, <2>2, BecomeKeeps DEF Publish, TypeOK
  <1>7. CASE Scan(w)
    BY <1>7, MoveKeeps DEF Scan, At, TypeOK
  <1>8. CASE EndSeeding(w)
    <2>1. watcher' \in [Watchers -> {NoWatcher} \cup LiveWatchers]
      BY <1>8, MoveKeeps DEF EndSeeding, At
    <2> QED
      BY <1>8, <2>1 DEF EndSeeding, TypeOK
  <1>9. CASE Obey(w) \/ Fail(w)
    <2>1. watcher[w] \in LiveWatchers
      BY <1>9, LiveFacts DEF Obey, Fail, At
    <2>2. Leaving(w) \in LiveWatchers
      BY <2>1 DEF Leaving, LiveWatchers
    <2> QED
      BY <1>9, <2>2, BecomeKeeps DEF Obey, Fail, TypeOK
  <1>10. CASE Release(w)
    BY <1>10, BecomeKeeps DEF Release, TypeOK
  <1>11. CASE Die(w)
    BY <1>11, BecomeKeeps DEF Die, TypeOK
  <1> QED
    BY <1>1, <1>2, <1>3, <1>4, <1>5, <1>6, <1>7, <1>8, <1>9, <1>10, <1>11
    DEF WatcherActions, WatcherStep, OpenFails

LEMMA NextCases ==
    ASSUME Next
    PROVE  \/ \E k \in Commands : CommandActions(k)
           \/ \E w \in Watchers : WatcherActions(w)
  BY DEF Next, CommandActions, WatcherActions

(* Every variable has its type: what a command is doing tells which fields *)
(* it carries, and what a watcher publishes names a watcher.               *)
THEOREM TypeCorrect == Spec => []TypeOK
  <1>1. Init => TypeOK
    BY DEF Init, TypeOK, Contents, CommandStates
  <1>2. TypeOK /\ [Next]_vars => TypeOK'
    <2> SUFFICES ASSUME TypeOK, [Next]_vars
                 PROVE  TypeOK'
      OBVIOUS
    <2>1. CASE Next
      BY <2>1, NextCases, CommandKeepsType, WatcherKeepsType
    <2>2. CASE UNCHANGED vars
      BY <2>2 DEF vars, files, TypeOK
    <2> QED
      BY <2>1, <2>2
  <1> QED
    BY <1>1, <1>2, PTL DEF Spec

----------------------------------------------------------------------------
(* The switch, the lock and what is published *)

(* A watcher that does not exist is known by its step. *)
LEMMA NoneFacts ==
    ASSUME NEW state \in {NoWatcher} \cup LiveWatchers
    PROVE  state.step = "none" <=> state = NoWatcher
  <1>1. NoWatcher.step = "none"
    BY DEF NoWatcher
  <1>2. state \in LiveWatchers => state.step # "none"
    BY DEF LiveWatchers
  <1> QED
    BY <1>1, <1>2

(* The files after a step of a command that does not end a stop. *)
LEMMA SetConfigKeeps ==
    ASSUME StopStands, NEW value, SetConfig(value)
    PROVE  (stopped' => stopped) /\ StopStands'
  BY DEF SetConfig, StopStands, IsEnabled

(* What commands do to watchers: they may signal one or spawn another,     *)
(* which is not the one that is published; they take the lock from no      *)
(* watcher; and a stop that answers has found no watcher at work.          *)
LEMMA CommandEffect ==
    ASSUME IInv, NEW k \in Commands, CommandActions(k)
    PROVE  /\ metadata' = metadata
           /\ \A v \in Watchers :
                \/ watcher'[v].step = watcher[v].step
                \/ watcher[v].step = "none" /\ watcher'[v].step = "starting" /\ metadata.pid # v
           /\ \A v \in Watchers : holder = v => holder' = v
           /\ StopStands'
           /\ stopped' => \A v \in Watchers : ~Observing(v)
  <1> USE DEF files
  <1>1. k \notin Watchers /\ Nobody \notin Watchers
    BY LifecycleAssumption DEF LifecycleAssumption
  <1>2. TypeOK /\ WorkerOwnsLock /\ StopStands /\ NothingObservedAfterStop
    BY DEF IInv
  <1>3. stopped => \A v \in Watchers : ~Observing(v)
    BY <1>2 DEF NothingObservedAfterStop
  <1>4. CASE UNCHANGED << files, stopped, holder, metadata, watcher >>
    BY <1>2, <1>3, <1>4 DEF StopStands, IsEnabled
  <1>5. BeginSupervise(k) \/ BeginStart(k) \/ BeginStop(k) \/ AwaitTimeout(k) \/ StopTimeout(k) =>
          UNCHANGED << files, stopped, holder, metadata, watcher >>
    BY DEF BeginSupervise, BeginStart, BeginStop, AwaitTimeout, StopTimeout
  <1>6. CASE OpenTmp(k)
    BY <1>2, <1>3, <1>6 DEF OpenTmp, StopStands, IsEnabled
  <1>7. CASE FillTmp(k)
    <2>1. UNCHANGED << holder, metadata, watcher >>
      BY <1>7 DEF FillTmp
    <2>2. UNCHANGED << config, stopped >> \/ SetConfig(command[k].value)
      BY <1>7 DEF FillTmp
    <2>3. (stopped' => stopped) /\ StopStands'
      BY <1>2, <2>2, SetConfigKeeps DEF StopStands, IsEnabled
    <2> QED
      BY <1>3, <2>1, <2>3
  <1>8. CASE Rename(k)
    <2>1. UNCHANGED << holder, metadata, watcher >>
      BY <1>8 DEF Rename
    <2>2. UNCHANGED << config, stopped >> \/ SetConfig(tmp)
      BY <1>8 DEF Rename
    <2>3. (stopped' => stopped) /\ StopStands'
      BY <1>2, <2>2, SetConfigKeeps DEF StopStands, IsEnabled
    <2> QED
      BY <1>3, <2>1, <2>3
  <1>9. CASE ProbeAcquire(k)
    BY <1>1, <1>2, <1>3, <1>9 DEF ProbeAcquire, StopStands, IsEnabled
  <1>10. CASE ProbeFree(k)
    <2>1. holder = k /\ UNCHANGED << config, metadata, watcher >>
      BY <1>10 DEF ProbeFree
    <2>2. \A v \in Watchers : ~Observing(v)
      BY <1>1, <1>2, <2>1 DEF WorkerOwnsLock, Works, Observing
    <2>3. UNCHANGED stopped \/ stopped' = ~IsEnabled
      BY <1>10 DEF ProbeFree
    <2>4. StopStands'
      <3>1. IsEnabled' <=> IsEnabled
        BY <2>1 DEF IsEnabled
      <3> QED
        BY <1>2, <2>3, <3>1, Zenon DEF StopStands
    <2>5. \A v \in Watchers : holder # v
      BY <1>1, <2>1
    <2> QED
      BY <2>1, <2>2, <2>4, <2>5
  <1>11. CASE ProbeBusy(k)
    <2>1. UNCHANGED << files, holder, metadata, stopped >>
      BY <1>11 DEF ProbeBusy
    <2>2. watcher' = watcher \/ \E w : Signal(w)
      BY <1>11 DEF ProbeBusy, Terminate
    <2>3. ASSUME NEW w, Signal(w), NEW v \in Watchers
          PROVE  watcher'[v].step = watcher[v].step
      <3>1. CASE IsLive(w)
        <4>1. watcher[w] \in LiveWatchers
          BY <1>2, <3>1 DEF IsLive, TypeOK
        <4>2. [watcher[w] EXCEPT !.signalled = TRUE].step = watcher[w].step
          BY <4>1 DEF LiveWatchers
        <4> QED
          BY <1>2, <2>3, <3>1, <4>2 DEF Signal, IsLive, TypeOK
      <3> QED
        BY <2>3, <3>1 DEF Signal
    <2> QED
      BY <1>2, <1>3, <2>1, <2>2, <2>3 DEF StopStands, IsEnabled
  <1>12. CASE Spawn(k)
    <2>1. UNCHANGED << files, holder, metadata, stopped >>
      BY <1>12 DEF Spawn
    <2>2. ASSUME NEW v \in Watchers
          PROVE  \/ watcher'[v].step = watcher[v].step
                 \/ watcher[v].step = "none" /\ watcher'[v].step = "starting" /\ metadata.pid # v
      BY <1>2, <1>12 DEF Spawn, Become, NoWatcher, TypeOK
    <2> QED
      BY <1>2, <1>3, <2>1, <2>2 DEF StopStands, IsEnabled
  <1>13. CASE CommandDies(k)
    BY <1>1, <1>2, <1>3, <1>13 DEF CommandDies, StopStands, IsEnabled
  <1> QED
    BY <1>4, <1>5, <1>6, <1>7, <1>8, <1>9, <1>10, <1>11, <1>12, <1>13
    DEF CommandActions, CommandStep, Supervise

LEMMA CommandKeepsInv ==
    ASSUME IInv, NEW k \in Commands, CommandActions(k)
    PROVE  IInv'
  <1>1. TypeOK /\ TypeOK'
    BY CommandKeepsType DEF IInv
  <1>2. WorkerOwnsLock /\ PublishedIsReady
    BY DEF IInv
  <1>3. WorkerOwnsLock'
    BY <1>2, CommandEffect DEF WorkerOwnsLock, Works
  <1>4. NothingObservedAfterStop'
    BY CommandEffect DEF NothingObservedAfterStop, Observing
  <1>5. PublishedIsReady'
    <2> SUFFICES ASSUME NEW v \in Watchers, metadata'.pid = v, watcher'[v].step # "none"
                 PROVE  holder' = v /\ watcher'[v].step \in {"running", "scanning", "leaving"}
      <3>1. \A v \in Watchers : IsLive(v)' => watcher'[v].step # "none"
        BY <1>1, NoneFacts DEF IsLive, TypeOK
      <3> QED
        BY <3>1 DEF PublishedIsReady
    <2>1. metadata.pid = v /\ watcher[v].step # "none" /\ watcher'[v].step = watcher[v].step
      BY CommandEffect
    <2>2. holder = v /\ watcher[v].step \in {"running", "scanning", "leaving"}
      BY <1>1, <1>2, <2>1 DEF PublishedIsReady, IsLive, NoWatcher
    <2> QED
      BY <2>1, <2>2, CommandEffect
  <1> QED
    BY <1>1, <1>3, <1>4, <1>5, CommandEffect DEF IInv

Seeding == {"reconciling path", "scanning"}

(* A step a watcher makes at work, holding the lock all along: others do   *)
(* not move, what it publishes it has reached, and it seeds only after it  *)
(* has found the switch on.                                                *)
AtWork(w) ==
    /\ UNCHANGED << config, stopped, holder >>
    /\ Works(w)
    /\ \A v \in Watchers \ {w} : watcher'[v] = watcher[v]
    /\ \/ metadata' = metadata /\ metadata.pid # w
       \/ watcher'[w].step \in {"running", "scanning", "leaving"} /\ metadata'.pid \in {metadata.pid, w}
    /\ watcher'[w].step \in Seeding => IsEnabled

LEMMA AtWorkKeeps ==
    ASSUME IInv, TypeOK', NEW w \in Watchers, AtWork(w)
    PROVE  IInv'
  <1>1. holder = w /\ holder' = w
    BY DEF IInv, WorkerOwnsLock, AtWork
  <1>2. StopStands'
    BY DEF IInv, StopStands, IsEnabled, AtWork
  <1>3. WorkerOwnsLock'
    BY <1>1 DEF IInv, WorkerOwnsLock, Works, AtWork
  <1>4. NothingObservedAfterStop'
    BY DEF IInv, NothingObservedAfterStop, StopStands, Observing, Seeding, AtWork
  <1>5. ASSUME NEW v \in Watchers, metadata'.pid = v, IsLive(v)'
        PROVE  holder' = v /\ watcher'[v].step \in {"running", "scanning", "leaving"}
    <2>1. CASE v = w
      BY <1>1, <1>5, <2>1 DEF AtWork
    <2>2. CASE v # w
      <3>1. metadata.pid = v /\ IsLive(v) /\ holder # v
        BY <1>1, <1>5, <2>2 DEF AtWork, IsLive
      <3> QED
        BY <3>1 DEF IInv, PublishedIsReady
    <2> QED
      BY <2>1, <2>2
  <1> QED
    BY <1>2, <1>3, <1>4, <1>5 DEF IInv, PublishedIsReady

(* A watcher that is gone, with the lock if it had it; the file may still  *)
(* name it, or name nobody.                                                *)
Gone(w) ==
    /\ UNCHANGED << config, stopped >>
    /\ holder' = holder \/ holder = w
    /\ Become(w, NoWatcher)
    /\ metadata' \in {metadata, NoMetadata}

LEMMA GoneKeeps ==
    ASSUME IInv, TypeOK', NEW w \in Watchers, Gone(w)
    PROVE  IInv'
  <1>1. /\ ~IsLive(w)' /\ watcher'[w].step = "none"
        /\ \A v \in Watchers \ {w} : watcher'[v] = watcher[v]
    BY DEF IInv, TypeOK, Gone, Become, IsLive, NoWatcher
  <1>2. StopStands'
    BY DEF IInv, StopStands, IsEnabled, Gone
  <1>3. WorkerOwnsLock'
    BY <1>1 DEF IInv, WorkerOwnsLock, Works, Gone
  <1>4. NothingObservedAfterStop'
    BY <1>1 DEF IInv, NothingObservedAfterStop, Observing, Gone
  <1>5. ASSUME NEW v \in Watchers, metadata'.pid = v, IsLive(v)'
        PROVE  holder' = v /\ watcher'[v].step \in {"running", "scanning", "leaving"}
    <2>1. v # w /\ IsLive(v)
      BY <1>1, <1>5 DEF IsLive
    <2>2. metadata.pid = v
      BY <1>5, LifecycleAssumption DEF LifecycleAssumption, NoMetadata, Gone
    <2> QED
      BY <1>1, <2>1, <2>2 DEF IInv, PublishedIsReady, Gone
  <1> QED
    BY <1>2, <1>3, <1>4, <1>5 DEF IInv, PublishedIsReady

(* A published watcher has reached its loop: one that has not is not       *)
(* published.                                                              *)
LEMMA Unpublished ==
    ASSUME IInv, NEW w \in Watchers, watcher[w].step \notin {"none", "running", "scanning", "leaving"}
    PROVE  metadata.pid # w
  BY DEF IInv, PublishedIsReady, IsLive, NoWatcher

(* What Move and Become do to the steps. *)
LEMMA BecomeEffect ==
    ASSUME TypeOK, NEW w \in Watchers, NEW state, Become(w, state)
    PROVE  watcher'[w] = state /\ \A v \in Watchers \ {w} : watcher'[v] = watcher[v]
  BY DEF TypeOK, Become

LEMMA MoveEffect ==
    ASSUME TypeOK, NEW w \in Watchers, watcher[w].step # "none", NEW step, Move(w, step)
    PROVE  watcher'[w].step = step /\ \A v \in Watchers \ {w} : watcher'[v] = watcher[v]
  <1>1. watcher[w] \in LiveWatchers
    BY LiveFacts
  <1>2. [watcher[w] EXCEPT !.step = step].step = step
    BY <1>1 DEF LiveWatchers
  <1> QED
    BY <1>2, BecomeEffect DEF Move

LEMMA WatcherKeepsInv ==
    ASSUME IInv, NEW w \in Watchers, WatcherActions(w)
    PROVE  IInv'
  <1> USE DEF files
  <1>1. TypeOK /\ TypeOK'
    BY WatcherKeepsType DEF IInv
  <1>2. CASE Acquire(w)
    <2>1. /\ UNCHANGED << config, stopped, metadata >>
          /\ holder = Nobody /\ holder' = w /\ watcher[w].step = "starting"
      BY <1>2 DEF Acquire, At
    <2>2. watcher'[w].step = "opening" /\ \A v \in Watchers \ {w} : watcher'[v] = watcher[v]
      BY <1>1, <1>2, <2>1, MoveEffect DEF Acquire
    <2>3. metadata.pid # w
      BY <2>1, Unpublished
    <2>4. \A v \in Watchers : ~Works(v)
      BY <2>1, LifecycleAssumption DEF IInv, WorkerOwnsLock, LifecycleAssumption
    <2>5. WorkerOwnsLock'
      BY <2>1, <2>2, <2>4 DEF WorkerOwnsLock, Works
    <2>6. NothingObservedAfterStop'
      BY <2>2, <2>4 DEF NothingObservedAfterStop, Observing, Works
    <2>7. PublishedIsReady'
      <3> SUFFICES ASSUME NEW v \in Watchers, metadata'.pid = v, IsLive(v)'
                   PROVE  FALSE
        BY DEF PublishedIsReady
      <3>1. v # w /\ IsLive(v)
        BY <2>1, <2>2, <2>3 DEF IsLive
      <3> QED
        BY <2>1, <3>1, LifecycleAssumption DEF IInv, PublishedIsReady, LifecycleAssumption
    <2> QED
      BY <1>1, <2>1, <2>5, <2>6, <2>7 DEF IInv, StopStands, IsEnabled
  <1>3. CASE LoseLock(w)
    BY <1>1, <1>3, GoneKeeps DEF LoseLock, Gone
  <1>4. CASE OpenFails(w)
    <2>1. holder = w
      BY <1>4 DEF OpenFails, At, IInv, WorkerOwnsLock, Works
    <2> QED
      BY <1>1, <1>4, <2>1, GoneKeeps DEF OpenFails, Leave, Gone
  <1>5. CASE OpenWorkspace(w) \/ ReconcilePath(w)
    <2>1. watcher[w].step \in {"opening", "reconciling"} /\ Works(w)
      BY <1>5 DEF OpenWorkspace, ReconcilePath, At, Works
    <2>2. metadata.pid # w
      BY <2>1, Unpublished
    <2>3. /\ \A v \in Watchers \ {w} : watcher'[v] = watcher[v]
          /\ watcher'[w].step \in Seeding => IsEnabled
      <3>1. ReconcilePath(w) => IsEnabled
        BY DEF ReconcilePath, ShouldStop
      <3>2. \/ Move(w, "reconciling")
            \/ Move(w, "reconciling path") /\ IsEnabled
        BY <1>5, <3>1 DEF OpenWorkspace, ReconcilePath
      <3>3. watcher[w].step # "none"
        BY <2>1
      <3>4. ASSUME NEW step, Move(w, step)
            PROVE  watcher'[w].step = step /\ \A v \in Watchers \ {w} : watcher'[v] = watcher[v]
        BY <1>1, <3>3, <3>4, MoveEffect
      <3>5. "reconciling" \notin Seeding
        BY DEF Seeding
      <3> QED
        BY <3>2, <3>4, <3>5
    <2>4. AtWork(w)
      BY <1>5, <2>1, <2>2, <2>3 DEF OpenWorkspace, ReconcilePath, AtWork
    <2> QED
      BY <1>1, <2>4, AtWorkKeeps
  <1>6. CASE Publish(w)
    <2>1. watcher[w].step = "reconciling" /\ metadata'.pid = w
      BY <1>6 DEF Publish, At
    <2>2. watcher[w] \in LiveWatchers
      BY <1>1, <2>1, LiveFacts
    <2>3. [watcher[w] EXCEPT !.step = "running", !.fresh = FALSE].step = "running"
      BY <2>2 DEF LiveWatchers
    <2>4. watcher'[w].step = "running" /\ \A v \in Watchers \ {w} : watcher'[v] = watcher[v]
      BY <1>1, <1>6, <2>3, BecomeEffect DEF Publish
    <2>5. AtWork(w)
      BY <1>6, <2>1, <2>4 DEF Publish, AtWork, Works, Seeding
    <2> QED
      BY <1>1, <2>5, AtWorkKeeps
  <1>7. CASE Scan(w)
    <2>1. watcher[w].step = "running" /\ IsEnabled
      BY <1>7 DEF Scan, At, ShouldStop
    <2>2. watcher'[w].step = "scanning" /\ \A v \in Watchers \ {w} : watcher'[v] = watcher[v]
      BY <1>1, <1>7, <2>1, MoveEffect DEF Scan
    <2>3. AtWork(w)
      BY <1>7, <2>1, <2>2 DEF Scan, AtWork, Works
    <2> QED
      BY <1>1, <2>3, AtWorkKeeps
  <1>8. CASE EndSeeding(w)
    <2>1. CASE At(w, "reconciling path") /\ Move(w, "reconciling")
      <3>1. watcher'[w].step = "reconciling" /\ \A v \in Watchers \ {w} : watcher'[v] = watcher[v]
        BY <1>1, <2>1, MoveEffect DEF At
      <3>2. metadata.pid # w
        BY <2>1, Unpublished DEF At
      <3>3. AtWork(w)
        BY <1>8, <2>1, <3>1, <3>2 DEF EndSeeding, AtWork, Works, At, Seeding
      <3> QED
        BY <1>1, <3>3, AtWorkKeeps
    <2>2. CASE At(w, "scanning") /\ Move(w, "running")
      <3>1. watcher'[w].step = "running" /\ \A v \in Watchers \ {w} : watcher'[v] = watcher[v]
        BY <1>1, <2>2, MoveEffect DEF At
      <3>2. AtWork(w)
        BY <1>8, <2>2, <3>1 DEF EndSeeding, AtWork, Works, At, Seeding
      <3> QED
        BY <1>1, <3>2, AtWorkKeeps
    <2> QED
      BY <1>8, <2>1, <2>2 DEF EndSeeding
  <1>9. CASE Obey(w) \/ Fail(w)
    <2>1. Works(w)
      BY <1>9 DEF Obey, Fail, At, Works
    <2>2. watcher[w] \in LiveWatchers
      BY <1>1, <2>1, LiveFacts DEF Works
    <2>3. Leaving(w).step = "leaving"
      BY <2>2 DEF Leaving, LiveWatchers
    <2>4. watcher'[w].step = "leaving" /\ \A v \in Watchers \ {w} : watcher'[v] = watcher[v]
      BY <1>1, <1>9, <2>3, BecomeEffect DEF Obey, Fail
    <2>5. AtWork(w)
      BY <1>9, <2>1, <2>4 DEF Obey, Fail, AtWork, Seeding
    <2> QED
      BY <1>1, <2>5, AtWorkKeeps
  <1>10. CASE Release(w)
    <2>1. holder = w
      BY <1>10 DEF Release, At, IInv, WorkerOwnsLock, Works
    <2> QED
      BY <1>1, <1>10, <2>1, GoneKeeps DEF Release, Gone
  <1>11. CASE Die(w)
    BY <1>1, <1>11, GoneKeeps DEF Die, Gone
  <1> QED
    BY <1>2, <1>3, <1>4, <1>5, <1>6, <1>7, <1>8, <1>9, <1>10, <1>11
    DEF WatcherActions, WatcherStep

(* The inductive invariant: whoever works has the lock, the switch a stop  *)
(* has left is off, and the two properties below.                          *)
THEOREM Invariant == Spec => []IInv
  <1>1. Init => IInv
    <2>1. Init => TypeOK
      BY DEF Init, TypeOK, Contents, CommandStates
    <2>2. Init => \A w \in Watchers : watcher[w] = NoWatcher /\ watcher[w].step = "none"
      BY DEF Init, NoWatcher
    <2>3. Init => WorkerOwnsLock /\ PublishedIsReady
      BY <2>2 DEF WorkerOwnsLock, Works, PublishedIsReady, IsLive
    <2>4. Init => StopStands /\ NothingObservedAfterStop
      BY DEF Init, StopStands, NothingObservedAfterStop
    <2> QED
      BY <2>1, <2>3, <2>4 DEF IInv
  <1>2. IInv /\ [Next]_vars => IInv'
    <2> SUFFICES ASSUME IInv, [Next]_vars
                 PROVE  IInv'
      OBVIOUS
    <2>1. CASE Next
      BY <2>1, NextCases, CommandKeepsInv, WatcherKeepsInv
    <2>2. CASE UNCHANGED vars
      BY <2>2 DEF vars, files, IInv, TypeOK, WorkerOwnsLock, Works, StopStands, IsEnabled,
                  NothingObservedAfterStop, Observing, PublishedIsReady, IsLive
    <2> QED
      BY <2>1, <2>2
  <1> QED
    BY <1>1, <1>2, PTL DEF Spec

(* A stop is not undone: once it has answered that nothing runs, nothing   *)
(* is observed until somebody enables the watcher, whatever commands had   *)
(* read the switch before it.                                              *)
THEOREM StopIsFinal == Spec => []NothingObservedAfterStop
  <1>1. IInv => NothingObservedAfterStop
    BY DEF IInv
  <1> QED
    BY <1>1, Invariant, PTL

(* What watcher.lock names, if it lives, has its baseline and the lock.    *)
THEOREM PublicationIsTrue == Spec => []PublishedIsReady
  <1>1. IInv => PublishedIsReady
    BY DEF IInv
  <1> QED
    BY <1>1, Invariant, PTL

(* There is one stream of observations: two watchers never work at once.   *)
THEOREM OneWatcherWorks ==
    Spec => [](\A v, w \in Watchers : Works(v) /\ Works(w) => v = w)
  <1>1. IInv => \A v, w \in Watchers : Works(v) /\ Works(w) => v = w
    BY DEF IInv, WorkerOwnsLock
  <1> QED
    BY <1>1, Invariant, PTL
=============================================================================
