-------------------------- MODULE WatcherLifecycle --------------------------
(***************************************************************************)
(* The Dev profile's watcher as a process (src/urdyn/_watcher.py): who     *)
(* starts it, who stops it, and how anybody knows whether it runs.         *)
(*                                                                         *)
(* Three files are all the processes share.  watcher.json is the switch.   *)
(* It is written to a temporary file of one fixed name, then renamed over  *)
(* the old one.  watcher.lock is an advisory lock whose owner is the       *)
(* watcher, and, for an instant, anybody who probes it; its content is     *)
(* what a watcher has published of itself, and stays when one dies.        *)
(*                                                                         *)
(* Commands run watch start, watch stop and supervise(), which every other *)
(* command begins with.  What they spawn are watchers.  A watcher observes *)
(* files by seed(), which is SourceStore; what matters here is when it may.*)
(***************************************************************************)
EXTENDS Functions

CONSTANTS Commands,    \* processes that run a command at a time
          Watchers,    \* processes spawned to watch: bound on how many live at once
          Nobody,
          Version      \* the urdyn each command is of

ASSUME LifecycleAssumption ==
    /\ Nobody \notin Commands \cup Watchers
    /\ Commands \cap Watchers = {}
    /\ DOMAIN Version = Commands

VARIABLES config,     \* watcher.json
          tmp,        \* .watcher.json.tmp
          holder,     \* who has watcher.lock
          metadata,   \* what is published in watcher.lock
          command,    \* what each command is doing
          watcher,    \* what each watcher is doing
          stopped     \* history: a stop has answered that nothing runs, and
                      \* nobody has enabled the watcher since

files == << config, tmp >>
vars == << config, tmp, holder, metadata, command, watcher, stopped >>

(* What a file can hold: "torn" is a file truncated and not yet written.   *)
Contents == {"absent", "torn", "enabled", "disabled"}

(* read_config(): absent or unreadable means disabled. *)
IsEnabled == config = "enabled"

IdleCommand == [step |-> "idle"]
Interrupted == [step |-> "interrupted"]
NoWatcher == [step |-> "none"]

(* A cleared file names nobody. *)
NoMetadata == [pid |-> Nobody]

Init ==
    /\ config = "absent"
    /\ tmp = "absent"
    /\ holder = Nobody
    /\ metadata = NoMetadata
    /\ command = [k \in Commands |-> IdleCommand]
    /\ watcher = [w \in Watchers |-> NoWatcher]
    /\ stopped = FALSE

Do(k, state) == command' = [command EXCEPT ![k] = state]
Become(w, state) == watcher' = [watcher EXCEPT ![w] = state]

----------------------------------------------------------------------------
(* write_config(): open with truncation, write, rename.  A file opened     *)
(* under the temporary name may be renamed, and then replaced, by another  *)
(* command before it is written.                                           *)

Writing(op, value) == [step |-> "open tmp", op |-> op, value |-> value, file |-> "none"]

OpenTmp(k) ==
    /\ command[k].step = "open tmp"
    /\ tmp' = "torn"
    /\ Do(k, [command[k] EXCEPT !.step = "fill tmp", !.file = "tmp"])
    /\ UNCHANGED << config, holder, metadata, watcher, stopped >>

(* The switch is what is in the file; turning it on ends a stop. *)
SetConfig(value) ==
    /\ config' = value
    /\ stopped' = (stopped /\ value # "enabled")

FillTmp(k) ==
    /\ command[k].step = "fill tmp"
    /\ CASE command[k].file = "tmp" -> tmp' = command[k].value /\ UNCHANGED << config, stopped >>
         [] command[k].file = "config" -> SetConfig(command[k].value) /\ UNCHANGED tmp
         [] OTHER -> UNCHANGED << files, stopped >>
    /\ Do(k, [command[k] EXCEPT !.step = "rename", !.file = "none"])
    /\ UNCHANGED << holder, metadata, watcher >>

(* Where a file opened earlier is after a rename. *)
Moved(file) == CASE file = "tmp" -> "config" [] OTHER -> "gone"

(* os.replace().  It raises, and the command dies, if another has renamed  *)
(* the temporary file already.                                             *)
Rename(k) ==
    /\ command[k].step = "rename"
    /\ IF tmp = "absent"
       THEN Do(k, IdleCommand) /\ UNCHANGED << files, stopped >>
       ELSE /\ SetConfig(tmp)
            /\ tmp' = "absent"
            /\ command' = [j \in Commands |->
                 IF j = k THEN IF command[k].op = "start"
                               THEN [step |-> "spawn", fresh |-> TRUE]
                               ELSE [step |-> "probe", op |-> "stop"]
                 ELSE IF command[j].step = "fill tmp"
                      THEN [command[j] EXCEPT !.file = Moved(@)]
                 ELSE command[j]]
    /\ UNCHANGED << holder, metadata, watcher >>

----------------------------------------------------------------------------
(* The commands *)

IsFree(k) == command[k] \in {IdleCommand, Interrupted}

(* supervise() goes on only if the switch is on. *)
BeginSupervise(k) ==
    /\ IsFree(k)
    /\ IsEnabled
    /\ Do(k, [step |-> "probe", op |-> "supervise"])
    /\ UNCHANGED << files, holder, metadata, watcher, stopped >>

(* enable_and_start(): it is supervise() if the switch is on. *)
BeginStart(k) ==
    /\ IsFree(k)
    /\ ~IsEnabled
    /\ Do(k, Writing("start", "enabled"))
    /\ UNCHANGED << files, holder, metadata, watcher, stopped >>

BeginStop(k) ==
    /\ IsFree(k)
    /\ Do(k, Writing("stop", "disabled"))
    /\ UNCHANGED << files, holder, metadata, watcher, stopped >>

Probing == {"probe", "await", "final"}

(* probe_lock(): the lock is free, and for an instant the command has it. *)
ProbeAcquire(k) ==
    /\ command[k].step \in Probing
    /\ holder = Nobody
    /\ holder' = k
    /\ UNCHANGED << files, metadata, command, watcher, stopped >>

Restart == [step |-> "spawn", fresh |-> FALSE]

(* Mutant of ProbeFree: only a watcher that died is restarted. *)
ProbeFree_StaleOnly(k) ==
    /\ holder = k
    /\ holder' = Nobody
    /\ IF command[k].op = "supervise"
       THEN Do(k, IF metadata = NoMetadata THEN IdleCommand ELSE Restart) /\ UNCHANGED stopped
       ELSE IF command[k].step = "await"
       THEN Do(k, [command[k] EXCEPT !.step = "final"]) /\ UNCHANGED stopped
       ELSE Do(k, IdleCommand) /\ stopped' = ~IsEnabled
    /\ UNCHANGED << files, metadata, watcher >>

(* ... and gives it back.  Nobody watches: supervise() restarts, whether   *)
(* the last watcher died or left in order, and stop has nothing to do.     *)
ProbeFree(k) ==
    /\ holder = k
    /\ holder' = Nobody
    /\ IF command[k].op = "supervise"
       THEN Do(k, Restart) /\ UNCHANGED stopped
       ELSE IF command[k].step = "await"
       THEN Do(k, [command[k] EXCEPT !.step = "final"]) /\ UNCHANGED stopped
       ELSE Do(k, IdleCommand) /\ stopped' = ~IsEnabled
    /\ UNCHANGED << files, metadata, watcher >>

IsLive(w) == w \in Watchers /\ watcher[w] # NoWatcher

(* What may be read of the metadata: it is not written in one step, and is *)
(* then unreadable.                                                        *)
Readable == {metadata} \cup (IF IsLive(holder) THEN {NoMetadata} ELSE {})

Signal(w) == watcher' = IF IsLive(w) THEN [watcher EXCEPT ![w].signalled = TRUE] ELSE watcher

(* After SIGTERM the command waits for the lock, unless there was no such  *)
(* process.                                                                *)
Terminate(k, w, otherwise) ==
    /\ Signal(w)
    /\ Do(k, IF IsLive(w) THEN [command[k] EXCEPT !.step = "await"] ELSE otherwise)

(* The lock is taken, by a watcher or by another probe: what is done       *)
(* depends on whom the metadata names, holder or not.                      *)
ProbeBusy(k) ==
    /\ command[k].step = "probe"
    /\ holder \notin {Nobody, k}
    /\ \E found \in Readable :
         IF command[k].op = "stop"
         THEN Terminate(k, found.pid, [command[k] EXCEPT !.step = "final"])
         ELSE IF found # NoMetadata /\ found.version = Version[k]
         THEN Do(k, IdleCommand) /\ UNCHANGED watcher
         ELSE Terminate(k, found.pid, Restart)
    /\ UNCHANGED << files, holder, metadata, stopped >>

(* _terminate_and_wait() gives up after five seconds. *)
AwaitTimeout(k) ==
    /\ command[k].step = "await"
    /\ holder # k
    /\ Do(k, IF command[k].op = "supervise" THEN Restart ELSE [command[k] EXCEPT !.step = "final"])
    /\ UNCHANGED << files, holder, metadata, watcher, stopped >>

(* stop answers that it timed out. *)
StopTimeout(k) ==
    /\ command[k].step = "final"
    /\ holder \notin {Nobody, k}
    /\ Do(k, IdleCommand)
    /\ UNCHANGED << files, holder, metadata, watcher, stopped >>

(* spawn_watcher().  A pid is not used again while watcher.lock names it.  *)
Spawn(k) ==
    /\ command[k].step = "spawn"
    /\ \E w \in Watchers :
         /\ watcher[w] = NoWatcher
         /\ metadata.pid # w
         /\ Become(w, [step |-> "starting", fresh |-> command[k].fresh,
                       version |-> Version[k], signalled |-> FALSE])
    /\ Do(k, IdleCommand)
    /\ UNCHANGED << files, holder, metadata, stopped >>

(* A command is interrupted, anywhere.  The temporary file it may leave is *)
(* truncated by whoever writes next, so that it is not kept here.          *)
CommandDies(k) ==
    /\ ~IsFree(k)
    /\ tmp' = IF \E j \in Commands \ {k} : command[j].step \in {"fill tmp", "rename"}
              THEN tmp
              ELSE "absent"
    /\ holder' = IF holder = k THEN Nobody ELSE holder
    /\ Do(k, Interrupted)
    /\ UNCHANGED << config, metadata, watcher, stopped >>

----------------------------------------------------------------------------
(* A watcher: _child_main(), _reconcile_baseline() and _run_loop(). *)

At(w, step) == watcher[w].step = step
Move(w, step) == Become(w, [watcher[w] EXCEPT !.step = step])

(* try_acquire_lock(): one attempt, and the loser exits. *)
Acquire(w) ==
    /\ At(w, "starting")
    /\ holder = Nobody
    /\ holder' = w
    /\ Move(w, "opening")
    /\ UNCHANGED << files, metadata, command, stopped >>

LoseLock(w) ==
    /\ At(w, "starting")
    /\ holder # Nobody
    /\ Become(w, NoWatcher)
    /\ UNCHANGED << files, holder, metadata, command, stopped >>

Leave(w) ==
    /\ holder' = Nobody
    /\ Become(w, NoWatcher)
    /\ UNCHANGED << files, metadata, command, stopped >>

(* Mutant of OpenWorkspace: the watcher makes itself known before it has a *)
(* baseline.                                                               *)
OpenWorkspace_Publishing(w) ==
    /\ At(w, "opening")
    /\ metadata' = [pid |-> w, version |-> watcher[w].version]
    /\ Move(w, "reconciling")
    /\ UNCHANGED << files, holder, command, stopped >>

(* Urdyn.open(); a workspace that cannot be opened is left at once, what   *)
(* the lock file says of the last watcher left as it is.                   *)
OpenWorkspace(w) ==
    /\ At(w, "opening")
    /\ Move(w, "reconciling")
    /\ UNCHANGED << files, holder, metadata, command, stopped >>

OpenFails(w) == At(w, "opening") /\ Leave(w)

(* _should_stop(), polled before each path of the baseline, before each    *)
(* scan and while asleep: SIGTERM, or the switch read again.  The mutant   *)
(* waits for the signal.                                                   *)
ShouldStop_SignalOnly(w) == watcher[w].signalled

ShouldStop(w) == watcher[w].signalled \/ ~IsEnabled

(* The next tracked path of the baseline is seeded, unless the watcher is  *)
(* fresh.                                                                  *)
ReconcilePath(w) ==
    /\ At(w, "reconciling")
    /\ ~ShouldStop(w)
    /\ ~watcher[w].fresh
    /\ Move(w, "reconciling path")
    /\ UNCHANGED << files, holder, metadata, command, stopped >>

(* The baseline is complete, or cut short, and the watcher makes itself    *)
(* known.                                                                  *)
Publish(w) ==
    /\ At(w, "reconciling")
    /\ metadata' = [pid |-> w, version |-> watcher[w].version]
    /\ Become(w, [watcher[w] EXCEPT !.step = "running", !.fresh = FALSE])
    /\ UNCHANGED << files, holder, command, stopped >>

(* A scan, in which settled paths are seeded. *)
Scan(w) ==
    /\ At(w, "running")
    /\ ~ShouldStop(w)
    /\ Move(w, "scanning")
    /\ UNCHANGED << files, holder, metadata, command, stopped >>

EndSeeding(w) ==
    /\ \/ At(w, "reconciling path") /\ Move(w, "reconciling")
       \/ At(w, "scanning") /\ Move(w, "running")
    /\ UNCHANGED << files, holder, metadata, command, stopped >>

(* The loop ends when it is told to stop.  What is left to do is the same   *)
(* however the watcher came here.                                          *)
Leaving(w) == [watcher[w] EXCEPT !.step = "leaving", !.fresh = FALSE, !.signalled = TRUE]

Obey(w) ==
    /\ At(w, "running")
    /\ ShouldStop(w)
    /\ Become(w, Leaving(w))
    /\ UNCHANGED << files, holder, metadata, command, stopped >>

(* The workspace has gone, or is another one, or an exception is raised. *)
Fail(w) ==
    /\ watcher[w].step \in {"reconciling", "reconciling path", "running", "scanning"}
    /\ Become(w, Leaving(w))
    /\ UNCHANGED << files, holder, metadata, command, stopped >>

(* clear_metadata() and release().  Between the two a probe finds the lock *)
(* taken and the file empty, which Readable allows of any live holder.     *)
Release(w) ==
    /\ At(w, "leaving")
    /\ metadata' = NoMetadata
    /\ holder' = Nobody
    /\ Become(w, NoWatcher)
    /\ UNCHANGED << files, command, stopped >>

(* kill -9, a reboot: the system frees the lock and nobody clears the file. *)
Die(w) ==
    /\ watcher[w] # NoWatcher
    /\ holder' = IF holder = w THEN Nobody ELSE holder
    /\ Become(w, NoWatcher)
    /\ UNCHANGED << files, metadata, command, stopped >>

----------------------------------------------------------------------------
Supervise(k) == ProbeAcquire(k) \/ ProbeFree(k) \/ ProbeBusy(k) \/ AwaitTimeout(k) \/ Spawn(k)

CommandStep(k) ==
    \/ OpenTmp(k) \/ FillTmp(k) \/ Rename(k)
    \/ Supervise(k) \/ StopTimeout(k)

WatcherStep(w) ==
    \/ Acquire(w) \/ LoseLock(w) \/ OpenWorkspace(w)
    \/ ReconcilePath(w) \/ Publish(w) \/ Scan(w) \/ EndSeeding(w)
    \/ Obey(w) \/ Release(w)

Next ==
    \/ \E k \in Commands :
         BeginSupervise(k) \/ BeginStart(k) \/ BeginStop(k) \/ CommandStep(k) \/ CommandDies(k)
    \/ \E w \in Watchers : WatcherStep(w) \/ OpenFails(w) \/ Fail(w) \/ Die(w)

Spec == Init /\ [][Next]_vars

(* Whoever runs keeps running, unless it dies; and people keep using urdyn *)
(* while its watcher is enabled.                                           *)
Fairness ==
    /\ \A k \in Commands : WF_vars(CommandStep(k))
    /\ \A w \in Watchers : WF_vars(WatcherStep(w))
    /\ WF_vars(\E k \in Commands : BeginSupervise(k))

FairSpec == Spec /\ Fairness

----------------------------------------------------------------------------
(* Properties *)

WritingSteps == {"open tmp", "fill tmp", "rename"}

Writers ==
    LET Files == {"none", "tmp", "config", "gone"}
    IN  [step : WritingSteps, op : {"start"}, value : {"enabled"}, file : Files]
        \cup [step : WritingSteps, op : {"stop"}, value : {"disabled"}, file : Files]

Probers == [step : Probing, op : {"supervise", "stop"}]

Spawners == [step : {"spawn"}, fresh : BOOLEAN]

CommandStates == {IdleCommand, Interrupted} \cup Writers \cup Probers \cup Spawners

LiveWatchers ==
    [step : {"starting", "opening", "reconciling", "reconciling path", "running", "scanning", "leaving"},
     fresh : BOOLEAN, version : Range(Version), signalled : BOOLEAN]

TypeOK ==
    /\ config \in Contents
    /\ tmp \in Contents
    /\ holder \in Commands \cup Watchers \cup {Nobody}
    /\ metadata \in {NoMetadata} \cup [pid : Watchers, version : Range(Version)]
    /\ command \in [Commands -> CommandStates]
    /\ watcher \in [Watchers -> {NoWatcher} \cup LiveWatchers]
    /\ stopped \in BOOLEAN

Observing(w) == watcher[w].step \in {"reconciling path", "scanning"}

(* Once a stop has answered that nothing runs, nothing observes a file     *)
(* until somebody enables the watcher again, although a command that read  *)
(* the switch before the stop may still spawn a watcher after it.          *)
NothingObservedAfterStop == stopped => \A w \in Watchers : ~Observing(w)

(* A watcher that is named in watcher.lock and lives has its baseline, so  *)
(* that whoever has seen it there may count on every later change.         *)
PublishedIsReady ==
    \A w \in Watchers :
        metadata.pid = w /\ IsLive(w) =>
            holder = w /\ watcher[w].step \in {"running", "scanning", "leaving"}

HoldsLock(w) == holder = w

(* A switch that stays off is obeyed, also by a watcher nobody could       *)
(* signal because it had not made itself known.                            *)
ObeysSwitch == <>[](~IsEnabled) => \A w \in Watchers : []<>(~HoldsLock(w))

(* What may go wrong for ever: a command is killed, or a watcher before it *)
(* has tried the lock, or it tries it at the instant of a probe and exits. *)
Thwarted ==
    \/ \E k \in Commands : CommandDies(k)
    \/ \E w \in Watchers : At(w, "starting") /\ (Die(w) \/ (LoseLock(w) /\ holder \in Commands))

(* While the switch stays on, watchers that die, fail or are replaced are  *)
(* followed by others for as long as commands are run; nothing else than   *)
(* the above keeps the project unwatched.                                  *)
Recovers ==
    <>[]IsEnabled => []<>(\E w \in Watchers : HoldsLock(w)) \/ []<><<Thwarted>>_vars

(* What a docstring claims and the code does not do: see the findings.     *)

(* "Write watcher.json atomically (tmp + os.replace)": whoever reads the   *)
(* switch reads what somebody wrote.                                       *)
SwitchIsWhole == config # "torn"
=============================================================================
