--------------------------- MODULE CoreLifecycle ---------------------------
(* The system daemon and the Core process it supervises: start, stop,        *)
(* promotion of a configuration (hot reload or full restart) with its        *)
(* rollback, adoption of a running Core through the PID file, and the death  *)
(* of either process at any point.  Lifecycle commands are serialized by     *)
(* OWNER_LIFECYCLE_LOCK; the shutdown of the daemon is not.                  *)
EXTENDS Naturals, FiniteSets, TLC

CONSTANTS Cores,        \* process ids, which may be reused
          Revs,         \* revisions of the configuration
          None, NoFile, \* no process or revision; an absent file
          MaxRequests, MaxFaults   \* bounds on what happens

ASSUME CoreAssumption == /\ None \notin Cores /\ None \notin Revs /\ NoFile \notin Revs
                         /\ None \notin [core : Cores, rev : Revs]
ASSUME BoundsAssumption == {MaxRequests, MaxFaults} \subseteq Nat

VARIABLES core,    \* what each process id is at present
          daemon,  \* DaemonState, and whether the daemon is up
          disk,    \* the target configuration, whether it is a TUN snapshot, the PID file
          op,      \* the lifecycle command in progress
          count    \* requests and faults so far

vars == <<core, daemon, disk, op, count>>

(***************************************************************************)
(* Processes.  "closing" is a Core that was told to exit (or was killed)   *)
(* and has not exited: it is alive and its API no longer answers.  A       *)
(* "stranger" is another program that got the id of a dead Core.  mark is  *)
(* history: "lost" for a Core whose daemon died before recording it,       *)
(* "misled" for one that was recorded before it served, on the answer of   *)
(* another, "reloaded" for one whose reload the daemon has not recorded.   *)
(***************************************************************************)
States == {"dead", "starting", "serving", "closing", "stranger"}
Process == [st : States, rev : Revs \cup {None}, tun : BOOLEAN,
            mark : {"known", "reloaded", "misled", "lost"}]
Dead == [st |-> "dead", rev |-> None, tun |-> FALSE, mark |-> "known"]

Is(c, states) == c # None /\ core[c].st \in states
Alive(c) == Is(c, {"starting", "serving", "closing", "stranger"})  \* process_alive
IsCore(c) == Is(c, {"starting", "serving", "closing"})  \* process_matches_core_metadata
Connectable(procs) == \E c \in Cores : procs[c].st = "serving"

PidRecord == [core : Cores, rev : Revs]
Listed == IF disk.pid = None THEN None ELSE disk.pid.core

Idle(reply) == [pc |-> "idle", leg |-> "none", rev |-> None, backup |-> NoFile,
                before |-> "unknown", had |-> FALSE, wasOn |-> FALSE,
                core |-> None, reply |-> reply]
Down == [up |-> "down", child |-> None, running |-> FALSE, endpoint |-> FALSE,
         launched |-> None]
Cleared(d) == [d EXCEPT !.child = None, !.running = FALSE, !.endpoint = FALSE,
                        !.launched = None]

TypeOK ==
  /\ core \in [Cores -> Process]
  /\ daemon \in [up : {"up", "exiting", "down"}, child : Cores \cup {None},
                 running : BOOLEAN, endpoint : BOOLEAN, launched : Revs \cup {None}]
  /\ disk \in [config : Revs \cup {NoFile}, tun : BOOLEAN, pid : PidRecord \cup {None}]
  /\ op \in [pc : {"idle", "reload", "reloaded", "stop", "start", "spawned", "check", "restore"},
             leg : {"none", "apply", "rollback", "stop", "boot"},
             rev : Revs \cup {None}, backup : Revs \cup {NoFile},
             before : {"on", "off", "unknown"}, had : BOOLEAN, wasOn : BOOLEAN,
             core : Cores \cup {None},
             reply : {"none", "ok", "warned", "rolled back", "error", "stopped"}]
  /\ count \in [requests : 0..MaxRequests, faults : 0..MaxFaults]

Init ==
  /\ core = [c \in Cores |-> Dead]
  /\ daemon = [Down EXCEPT !.up = "up"]
  /\ disk \in [config : Revs \cup {NoFile}, tun : BOOLEAN, pid : {None}]
  /\ disk.tun => disk.config # NoFile
  /\ op = Idle("none")
  /\ count = [requests |-> 0, faults |-> 0]

Fault == /\ count.faults < MaxFaults
         /\ count' = [count EXCEPT !.faults = @ + 1]

(***************************************************************************)
(* reap_exited_core: what the daemon makes of its child, or, without one,  *)
(* of the PID file.  Liveness is all it asks of the process listed there.  *)
(***************************************************************************)
Reaped ==
  LET d == daemon IN
  IF d.child # None
  THEN IF Alive(d.child) THEN [d EXCEPT !.running = TRUE] ELSE Cleared(d)
  ELSE IF Alive(Listed)
       THEN [d EXCEPT !.running = TRUE, !.endpoint = TRUE, !.launched = disk.pid.rev]
       ELSE [d EXCEPT !.running = FALSE, !.launched = None]

ReapedPid ==
  IF daemon.child # None THEN IF Alive(daemon.child) THEN disk.pid ELSE None
  ELSE IF Alive(Listed) THEN disk.pid ELSE None

\* GET /configs may fail or come too late.
Readings(c) ==
  {"unknown"} \cup
    IF Is(c, {"serving"}) THEN {IF core[c].tun THEN "on" ELSE "off"} ELSE {}

(***************************************************************************)
(* stop_core_with_proof: the ways a stop may end.  A child is killed and   *)
(* reaped.  An orphan is sent SIGTERM; when the signal fails, or the known *)
(* API endpoint still answers, it is not stopped; otherwise it counts as   *)
(* stopped, whatever was seen of its exit.                                 *)
(***************************************************************************)
Ended(procs, d, pid, ok) == [core |-> procs, daemon |-> d, pid |-> pid, ok |-> ok]
Stopped(procs) == Ended(procs, Cleared(daemon), None, TRUE)
NotStopped(procs) == Ended(procs, daemon, disk.pid, FALSE)
ByEndpoint(procs) ==
  IF daemon.endpoint /\ Connectable(procs) THEN NotStopped(procs) ELSE Stopped(procs)

\* (Mutant: whoever has the id is signalled.)
StopsAnyone ==
  IF daemon.child # None THEN {Stopped([core EXCEPT ![daemon.child] = Dead])}
  ELSE IF Alive(Listed) THEN {Stopped([core EXCEPT ![Listed].st = "closing"])}
  ELSE {ByEndpoint(core)}

Stops ==
  IF daemon.child # None
  THEN {Stopped([core EXCEPT ![daemon.child] = Dead]),
        Ended(core, [daemon EXCEPT !.running = TRUE], disk.pid, FALSE)}
  ELSE IF IsCore(Listed)
       THEN {Stopped([core EXCEPT ![Listed] = Dead]),
             ByEndpoint([core EXCEPT ![Listed].st = "closing"]),
             NotStopped(core)}
  ELSE IF Alive(Listed) THEN {NotStopped(core)}
  ELSE {ByEndpoint(core)}

\* That the child could not be reaped is a fault.
Unreaped(r) == daemon.child # None /\ ~r.ok
StopWith(r) ==
  /\ IF Unreaped(r) THEN Fault ELSE count' = count
  /\ core' = r.core
  /\ disk' = [disk EXCEPT !.pid = r.pid]

(***************************************************************************)
(* Lifecycle commands.  A promotion writes the target file, then reloads   *)
(* the running Core or stops it and starts another.                        *)
(***************************************************************************)
Running == daemon.up # "down"

StopCommand ==
  /\ daemon.up = "up" /\ op.pc = "idle"
  /\ count.requests < MaxRequests
  /\ count' = [count EXCEPT !.requests = @ + 1]
  /\ op' = [Idle("none") EXCEPT !.pc = "stop", !.leg = "stop"]
  /\ UNCHANGED <<core, daemon, disk>>

\* Start and Restart ask for a full restart; other changes may be reloaded,
\* unless the target is the TUN snapshot.
Promote(r, hot) ==
  /\ daemon.up = "up" /\ op.pc = "idle"
  /\ count.requests < MaxRequests
  /\ count' = [count EXCEPT !.requests = @ + 1]
  /\ hot => ~disk.tun /\ disk.config # NoFile
  /\ daemon' = Reaped
  /\ disk' = [disk EXCEPT !.config = r, !.pid = ReapedPid]
  /\ \E before \in IF Reaped.child # None /\ Reaped.endpoint
                   THEN Readings(Reaped.child) ELSE {"unknown"} :
       op' = [Idle("none") EXCEPT
                !.pc = IF hot /\ Reaped.child # None THEN "reload" ELSE "stop",
                !.leg = "apply", !.rev = r, !.backup = disk.config,
                !.before = before, !.had = Reaped.child # None,
                !.wasOn = Is(Reaped.child, {"serving"}) /\ core[Reaped.child].tun]
  /\ UNCHANGED core

\* The payload, or the new file, is rejected while the old Core still runs: the
\* file is put back.
PromoteRefused ==
  /\ daemon.up = "up" /\ op.pc = "idle"
  /\ count.requests < MaxRequests
  /\ count' = [count EXCEPT !.requests = @ + 1]
  /\ daemon' = Reaped
  /\ disk' = [disk EXCEPT !.pid = ReapedPid]
  /\ op' = Idle("error")
  /\ UNCHANGED core

\* The reload may turn TUN off, and its answer may be lost.
Reload ==
  /\ Running /\ op.pc = "reload"
  /\ UNCHANGED <<daemon, disk>>
  /\ \/ /\ Is(daemon.child, {"serving"})
        /\ \E tun \in {core[daemon.child].tun, FALSE} :
             core' = [core EXCEPT ![daemon.child] =
                        [@ EXCEPT !.rev = op.rev, !.tun = tun, !.mark = "reloaded"]]
        /\ \/ op' = [op EXCEPT !.pc = "reloaded"] /\ UNCHANGED count
           \/ op' = [op EXCEPT !.pc = "stop"] /\ Fault
     \/ /\ op' = [op EXCEPT !.pc = "stop"]
        /\ UNCHANGED <<core, count>>

\* tun_apply_requires_rollback.  (Mutant: only a TUN seen off is a loss.)
RollbackIfSeenOff(before, after) == before = "on" /\ after = "off"
RequiresRollback(before, after) == before = "on" /\ after # "on"

\* (Mutant: the PID file keeps the revision of the last start.)
RecordReloadInMemory ==
  /\ daemon' = [Reaped EXCEPT !.launched = op.rev]
  /\ disk' = [disk EXCEPT !.pid = ReapedPid]

RecordReload ==
  /\ daemon' = [Reaped EXCEPT !.launched = op.rev]
  /\ disk' = [disk EXCEPT !.pid = IF Reaped.child # None
                                  THEN [core |-> Reaped.child, rev |-> op.rev]
                                  ELSE ReapedPid]

Reloaded ==
  /\ Running /\ op.pc = "reloaded"
  /\ UNCHANGED count
  /\ \E after \in Readings(daemon.child) :
       \/ /\ RequiresRollback(op.before, after)
          /\ op' = [op EXCEPT !.pc = "restore"]
          /\ UNCHANGED <<core, daemon, disk>>
       \/ /\ ~RequiresRollback(op.before, after)
          /\ RecordReload
          /\ core' = [c \in Cores |-> IF c = daemon.child
                                     THEN [core[c] EXCEPT !.mark = "known"] ELSE core[c]]
          /\ op' = Idle(IF op.before = "unknown" THEN "warned" ELSE "ok")

Stop ==
  /\ Running /\ op.pc = "stop"
  /\ \E r \in Stops :
       /\ StopWith(r)
       /\ daemon' = r.daemon
       /\ op' = IF ~r.ok THEN Idle("error")
                ELSE IF op.leg = "stop" THEN Idle("stopped")
                ELSE [op EXCEPT !.pc = "start"]

(***************************************************************************)
(* start_core.  The state is locked from the first check to the answer of  *)
(* the new Core's API, so nothing else of the daemon moves meanwhile.      *)
(***************************************************************************)
StartFails == op' = IF op.leg = "apply" THEN [op EXCEPT !.pc = "restore", !.core = None]
                    ELSE Idle("error")

StartRefused ==
  /\ Running /\ op.pc = "start"
  /\ StartFails
  /\ UNCHANGED <<core, disk>>
  /\ \/ /\ Alive(daemon.child)
        /\ daemon' = [daemon EXCEPT !.running = TRUE]
        /\ UNCHANGED count
     \/ /\ ~Alive(daemon.child)
        /\ daemon' = [daemon EXCEPT !.child = None, !.running = FALSE]
        /\ Connectable(core) /\ UNCHANGED count
     \/ /\ ~Alive(daemon.child)   \* the preflight or the cache.db gate
        /\ daemon' = [daemon EXCEPT !.child = None, !.running = FALSE]
        /\ Fault

Spawn ==
  /\ Running /\ op.pc = "start"
  /\ ~Alive(daemon.child) /\ ~Connectable(core)
  /\ \E c \in Cores :
       /\ core[c] = Dead
       /\ core' = [core EXCEPT ![c] = [Dead EXCEPT !.st = "starting", !.rev = disk.config]]
       /\ op' = [op EXCEPT !.pc = "spawned", !.core = c]
  /\ daemon' = [daemon EXCEPT !.child = None, !.running = FALSE]
  /\ UNCHANGED <<disk, count>>

NoneStarted ==
  /\ daemon' = [daemon EXCEPT !.running = FALSE, !.endpoint = FALSE]
  /\ disk' = [disk EXCEPT !.pid = None]

\* Missing geo data is downloaded and the start retried.
FailedOrRetried == \/ StartFails /\ UNCHANGED count
                   \/ op' = [op EXCEPT !.pc = "start", !.core = None] /\ Fault

SpawnedExited ==
  /\ Running /\ op.pc = "spawned" /\ core[op.core].st = "dead"
  /\ NoneStarted /\ FailedOrRetried
  /\ UNCHANGED core

\* The deadline passed: the Core is killed, and not waited for.  (Mutant: it is
\* left alone.)
SpawnedLateLeft ==
  /\ Running /\ op.pc = "spawned" /\ Is(op.core, {"starting", "closing"})
  /\ NoneStarted /\ FailedOrRetried
  /\ UNCHANGED core

SpawnedLate ==
  /\ Running /\ op.pc = "spawned" /\ Is(op.core, {"starting", "closing"})
  /\ core' = [core EXCEPT ![op.core].st = "closing"]
  /\ NoneStarted /\ FailedOrRetried

\* Any answer at the endpoint counts.
SpawnedReady ==
  /\ Running /\ op.pc = "spawned" /\ IsCore(op.core) /\ Connectable(core)
  /\ daemon' = [daemon EXCEPT !.child = op.core, !.running = TRUE, !.endpoint = TRUE,
                              !.launched = disk.config]
  /\ disk' = [disk EXCEPT !.pid = [core |-> op.core, rev |-> disk.config]]
  /\ op' = CASE op.leg = "apply"    -> [op EXCEPT !.pc = "check", !.core = None]
             [] op.leg = "rollback" -> Idle("rolled back")
             [] op.leg = "boot"     -> Idle("none")
  /\ core' = [core EXCEPT ![op.core].mark = IF Is(op.core, {"serving"}) THEN @ ELSE "misled"]
  /\ UNCHANGED count

\* What a full restart has to show: the revision and, where it is due, TUN.
Check ==
  /\ Running /\ op.pc = "check"
  /\ daemon' = Reaped
  /\ disk' = [disk EXCEPT !.pid = ReapedPid]
  /\ UNCHANGED <<core, count>>
  /\ \E after \in Readings(Reaped.child) :
       op' = IF \/ Reaped.launched # op.rev
                \/ disk.tun /\ after # "on"
                \/ RequiresRollback(op.before, after)
             THEN [op EXCEPT !.pc = "restore"]
             ELSE Idle(IF ~disk.tun /\ op.had /\ op.before = "unknown"
                       THEN "warned" ELSE "ok")

\* restore_last_known_good.  (Mutants: the old bytes are not written back; the
\* rollback is rolled back in turn.)
RestoreInPlace ==
  /\ Running /\ op.pc = "restore"
  /\ op' = [op EXCEPT !.pc = "stop", !.leg = "rollback"]
  /\ UNCHANGED <<core, daemon, disk, count>>

RestoreAgain ==
  /\ Running /\ op.pc = "restore"
  /\ disk' = [disk EXCEPT !.config = op.backup]
  /\ op' = IF op.backup = NoFile THEN Idle("error") ELSE [op EXCEPT !.pc = "stop"]
  /\ UNCHANGED <<core, daemon, count>>

Restore ==
  /\ Running /\ op.pc = "restore"
  /\ disk' = [disk EXCEPT !.config = op.backup]
  /\ op' = IF op.backup = NoFile THEN Idle("error")
           ELSE [op EXCEPT !.pc = "stop", !.leg = "rollback"]
  /\ UNCHANGED <<core, daemon, count>>

OpStep == \/ Reload \/ Reloaded \/ Stop \/ StartRefused \/ Spawn \/ SpawnedExited
          \/ SpawnedLate \/ SpawnedReady \/ Check \/ Restore

(***************************************************************************)
(* The daemon comes and goes.                                              *)
(***************************************************************************)
Unlocked == op.pc # "spawned"

\* GetStatus, a selection, a sample: whatever asks whether the Core runs.
Observe ==
  /\ daemon.up = "up" /\ Unlocked /\ op.leg # "boot"
  /\ daemon' = Reaped
  /\ disk' = [disk EXCEPT !.pid = ReapedPid]
  /\ UNCHANGED <<core, op, count>>

\* SIGTERM: the Core is stopped without OWNER_LIFECYCLE_LOCK, and a command in
\* progress goes on until the process is gone.
Terminate ==
  /\ daemon.up = "up" /\ Unlocked /\ op.leg # "boot"
  /\ \E r \in Stops :
       /\ ~Unreaped(r)
       /\ core' = r.core
       /\ disk' = [disk EXCEPT !.pid = r.pid]
       /\ daemon' = [r.daemon EXCEPT !.up = "exiting"]
  /\ Fault
  /\ UNCHANGED op

Abandoned ==
  [c \in Cores |-> IF c = op.core /\ IsCore(c) THEN [core[c] EXCEPT !.mark = "lost"]
                   ELSE core[c]]
KilledWithDaemon == [c \in Cores |-> IF IsCore(c) THEN Dead ELSE core[c]]

\* The process ends.  A service manager that owns it takes the Core and the
\* runtime directory down too; otherwise the Core runs on.
Gone ==
  /\ daemon' = Down
  /\ op' = Idle("none")
  /\ \/ core' = KilledWithDaemon /\ disk' = [disk EXCEPT !.pid = None]
     \/ core' = Abandoned /\ UNCHANGED disk

Exit  == daemon.up = "exiting" /\ Gone /\ UNCHANGED count
Crash == daemon.up = "up" /\ Gone /\ Fault

\* run_daemon: a Core the PID file proves is taken over; autostart may follow.
Boot ==
  /\ daemon.up = "down"
  /\ IF IsCore(Listed)
     THEN /\ daemon' = [Down EXCEPT !.up = "up", !.running = TRUE, !.endpoint = TRUE,
                                    !.launched = disk.pid.rev]
          /\ UNCHANGED disk
     ELSE /\ daemon' = [Down EXCEPT !.up = "up"]
          /\ disk' = [disk EXCEPT !.pid = None]
  /\ \/ op' = op
     \/ disk.config # NoFile /\ op' = [op EXCEPT !.pc = "start", !.leg = "boot", !.reply = "none"]
  /\ UNCHANGED <<core, count>>

(***************************************************************************)
(* The Core, and everybody else.                                           *)
(***************************************************************************)
Serves(c) ==
  /\ core[c].st = "starting"
  /\ \E tun \in {disk.tun, FALSE} :
       core' = [core EXCEPT ![c].st = "serving", ![c].tun = tun]
  /\ UNCHANGED <<daemon, disk, op, count>>

Exits(c) ==
  /\ core' = [core EXCEPT ![c] = Dead]
  /\ \/ core[c].st \in {"starting", "serving"} /\ Fault
     \/ core[c].st \in {"closing", "stranger"} /\ UNCHANGED count
  /\ UNCHANGED <<daemon, disk, op>>

\* TUN is switched through the Core's own API.
Toggles(c) ==
  /\ core[c].st = "serving" /\ Fault
  /\ core' = [core EXCEPT ![c].tun = ~@]
  /\ UNCHANGED <<daemon, disk, op>>

Reused(c) ==
  /\ core[c].st = "dead" /\ c \notin {daemon.child, op.core}
  /\ \A other \in Cores : core[other].st # "stranger"   \* one is enough,
  /\ \E other \in Cores \ {c} : core[other] = Dead        \* and ids are left
  /\ core' = [core EXCEPT ![c].st = "stranger"]
  /\ UNCHANGED <<daemon, disk, op, count>>

Environment == \/ \E c \in Cores : Serves(c) \/ Exits(c) \/ Toggles(c) \/ Reused(c)
               \/ Terminate \/ Exit \/ Crash \/ Boot \/ Observe

\* A start and a restart are promotions that are not reloaded.
Commands == \/ \E r \in Revs, hot \in BOOLEAN : Promote(r, hot)
            \/ PromoteRefused \/ StopCommand

Next == \/ Commands
        \/ OpStep
        \/ Environment

Spec == Init /\ [][Next]_vars
\* The daemon runs what it was asked to.  A Core that was killed exits some day,
\* and so does a stranger: the few process ids of an instance never run out.
Leaves(c) == core[c].st \in {"closing", "stranger"} /\ Exits(c)
FairSpec == Spec /\ WF_vars(OpStep) /\ \A c \in Cores : WF_vars(Leaves(c))

(***************************************************************************)
(* Properties                                                              *)
(***************************************************************************)
\* Two Cores never run side by side, whatever stops, starts, rollbacks and
\* restarts of the daemon there were.  Not counted are a Core that is on its
\* way out, one whose daemon died between spawning and recording it, of which
\* nothing is left to know it by, and one the daemon recorded only because such
\* a Core answered in its place (start_core, settle_stop).
Counted == {c \in Cores : Is(c, {"starting", "serving"}) /\ core[c].mark \in {"known", "reloaded"}}
OneCore == Cardinality(Counted) <= 1

\* The revision the daemon reports as launched is the one the Core it tracks
\* has loaded, also after the daemon took the Core over from the PID file;
\* except when a reload was applied and the daemon died or failed before
\* recording it (launched_config_revision in promote_system_config,
\* write_pid_file, reap_exited_core).
Tracked == IF daemon.child # None THEN daemon.child ELSE Listed
LaunchedHonest ==
  \A c \in {Tracked} \ {None} :
    daemon.running /\ core[c].st = "serving" /\ core[c].mark \in {"known", "misled"}
      => daemon.launched \in {core[c].rev}

\* A promotion that reports that it was rolled back left the previous
\* configuration in the file, and a Core started from it (restore_last_known_good).
RolledBackRestores ==
  [][op.pc = "spawned" /\ op'.reply = "rolled back"
       => /\ disk'.config = op.backup
          /\ daemon'.launched = op.backup /\ core'[daemon'.child].rev = op.backup]_vars

\* A promotion that reports success without a warning has not taken TUN away
\* from the Core that was running as the daemon's child
\* (tun_apply_requires_rollback and the warnings of promote_system_config).
NoSilentTunLoss ==
  [][op.pc \in {"reloaded", "check"} /\ op'.reply = "ok" /\ op.wasOn
       => daemon'.child # None /\ core'[daemon'.child].tun]_vars

\* The daemon never signals a program that merely got the id of an old Core: a
\* stranger changes only by itself (stop_core_with_proof_timeout).
StrangersSafe ==
  [][\A c \in Cores : Is(c, {"stranger"}) /\ core'[c] # core[c]
       => UNCHANGED <<daemon, disk, op>>]_vars

\* Every lifecycle command ends: each wait of it has a deadline, and there is
\* one rollback at most.
LifecycleEnds == op.pc # "idle" ~> op.pc = "idle"

=============================================================================
