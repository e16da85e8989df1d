------------------------ MODULE CoreLifecycleProofs ------------------------
(* What holds of the daemon and its Core for any number of process ids,      *)
(* revisions, requests and faults.  The invariant has four parts: the types, *)
(* what a command has done by the step it is at, what the daemon knows of    *)
(* the Core it tracks, and which Cores can be running at all.  The second    *)
(* part of the module is about the Core's database (CacheDb).                *)
EXTENDS CoreLifecycle, EvidencePromises, FiniteSetTheorems, WellFoundedInduction, TLAPS

(***************************************************************************)
(* Types                                                                   *)
(***************************************************************************)
Daemons == [up : {"up", "exiting", "down"}, child : Cores \cup {None},
            running : BOOLEAN, endpoint : BOOLEAN, launched : Revs \cup {None}]
Disks == [config : Revs \cup {NoFile}, tun : BOOLEAN, pid : PidRecord \cup {None}]
Ops == [pc : {"idle", "reload", "reloaded", "stop", "start", "spawned", "check", "restore"},
        leg : {"none", "apply", "rollback", "stop", "boot"},
        rev : Revs \cup {None}, backup : Revs \cup {NoFile},
        before : {"on", "off", "unknown"}, had : BOOLEAN, wasOn : BOOLEAN,
        core : Cores \cup {None},
        reply : {"none", "ok", "warned", "rolled back", "error", "stopped"}]
Counts == [requests : 0..MaxRequests, faults : 0..MaxFaults]

CoreOK   == core \in [Cores -> Process]
DaemonOK == daemon \in Daemons
DiskOK   == disk \in Disks
OpOK     == op \in Ops
CountOK  == count \in Counts
Typed    == CoreOK /\ DaemonOK /\ DiskOK /\ OpOK /\ CountOK

LEMMA TypedIsTypeOK == Typed <=> TypeOK
BY DEF Typed, TypeOK, CoreOK, DaemonOK, DiskOK, OpOK, CountOK, Daemons, Disks, Ops, Counts

(***************************************************************************)
(* The other parts of the invariant                                        *)
(***************************************************************************)
\* What the step a command is at says of the command and of the files.
Staged ==
  /\ op.core # None <=> op.pc = "spawned"
  /\ op.leg = "none" <=> op.pc = "idle"
  /\ op.pc # "idle" => op.reply = "none"
  /\ op.leg = "stop" => op.pc = "stop"
  /\ op.pc \in {"reload", "reloaded", "check", "restore"} => op.leg = "apply"
  /\ op.leg = "boot" => op.pc \in {"start", "spawned"}
  /\ op.leg = "apply" => op.rev \in Revs
  /\ op.leg \in {"apply", "rollback", "boot"} => disk.config \in Revs
  /\ op.leg = "rollback" => disk.config = op.backup
  /\ op.wasOn => op.had /\ op.before \in {"on", "unknown"}

\* What the daemon holds on to: its child is no stranger, nor is the process it
\* has just spawned, whose revision is the one of the file.
Held ==
  /\ daemon.child # None => core[daemon.child].st # "stranger"
  /\ daemon.up = "down" => op.pc = "idle" /\ daemon.child = None
  /\ op.pc = "spawned" =>
       /\ daemon.child = None /\ ~daemon.running
       /\ core[op.core].st \in {"dead", "starting", "serving"}
       /\ IsCore(op.core) => core[op.core].rev = disk.config /\ core[op.core].mark = "known"

Live(c) == Is(c, {"starting", "serving"})

\* Which Cores can be running: the one just spawned, or else the one that the
\* daemon tracks, which the PID file lists.
Holder == IF op.pc = "spawned" THEN op.core ELSE Tracked
Alone ==
  /\ \A c \in Counted : c = Holder /\ (core[c].st = "starting" => op.core = c)
  /\ Live(daemon.child) => Listed = daemon.child

\* What the daemon, and after it the PID file, says of the Core it tracks.
Kept(c) == Live(c) /\ core[c].mark \in {"known", "misled"}
Truthful ==
  /\ Kept(Listed) /\ Listed # op.core => disk.pid.rev = core[Listed].rev
  /\ Kept(daemon.child) => daemon.launched = core[daemon.child].rev
  /\ daemon.child = None /\ daemon.running
       => disk.pid # None /\ daemon.launched = disk.pid.rev
  /\ op.pc \in {"reload", "reloaded"} /\ daemon.child = None => disk.pid = None
  /\ op.pc = "reloaded" /\ IsCore(daemon.child)
       => core[daemon.child].rev = op.rev /\ core[daemon.child].mark = "reloaded"

Inv == Typed /\ Staged /\ Held /\ Alone /\ Truthful

(***************************************************************************)
(* What the operators of the model do                                      *)
(***************************************************************************)
\* The fields of the state.
LEMMA Fields ==
  ASSUME Typed
  PROVE  /\ daemon.child \in Cores \cup {None} /\ op.core \in Cores \cup {None}
         /\ Listed \in Cores \cup {None}
         /\ disk.pid # None => disk.pid \in PidRecord /\ disk.pid.core \in Cores /\ disk.pid.rev \in Revs
         /\ \A c \in Cores : core[c] \in Process
         /\ disk.config \in Revs \cup {NoFile}
BY DEF Typed, CoreOK, DaemonOK, DiskOK, OpOK, Daemons, Disks, Ops, PidRecord, Listed

LEMMA DownTyped == Down \in Daemons
BY DEF Down, Daemons

Replies == {"none", "ok", "warned", "rolled back", "error", "stopped"}
Answered == \E reply \in Replies : op' = Idle(reply)
LEMMA IdleTyped == \A reply \in Replies : Idle(reply) \in Ops
BY DEF Replies, Idle, Ops
LEMMA AnsweredTyped == Answered => op' \in Ops
BY IdleTyped DEF Answered

\* A look at the child, or, without one, at the PID file.
LEMMA ReapedEffect ==
  ASSUME Typed
  PROVE  /\ Reaped \in Daemons /\ ReapedPid \in {disk.pid, None} /\ Reaped.up = daemon.up
         /\ daemon.child # None /\ Alive(daemon.child) =>
              /\ Reaped.child = daemon.child /\ Reaped.running
              /\ Reaped.launched = daemon.launched /\ ReapedPid = disk.pid
         /\ daemon.child # None /\ ~Alive(daemon.child) =>
              Reaped.child = None /\ ~Reaped.running /\ ReapedPid = None
         /\ daemon.child = None /\ Alive(Listed) =>
              /\ Reaped.child = None /\ Reaped.running /\ disk.pid # None
              /\ Reaped.launched = disk.pid.rev /\ ReapedPid = disk.pid
         /\ daemon.child = None /\ ~Alive(Listed) =>
              Reaped.child = None /\ ~Reaped.running /\ ReapedPid = None
<1>1. CASE daemon.child # None
  BY <1>1, CoreAssumption DEF Typed, DaemonOK, Daemons, Reaped, ReapedPid, Cleared
<1>2. CASE daemon.child = None
  <2>1. Alive(Listed) => disk.pid \in PidRecord
    BY Fields, CoreAssumption DEF Alive, Is, Listed
  <2> QED BY <1>2, <2>1, Fields, CoreAssumption DEF Typed, DaemonOK, Daemons, Reaped, ReapedPid, PidRecord
<1> QED BY <1>1, <1>2

\* The ways a stop ends, by what they leave.
LEMMA StopEffect ==
  ASSUME Typed, NEW r \in Stops
  PROVE  /\ r.core \in [Cores -> Process] /\ r.daemon \in Daemons /\ r.pid \in {disk.pid, None}
         /\ r.daemon.up = daemon.up
         /\ \A c \in Cores : \/ r.core[c] = core[c]
                             \/ IsCore(c) /\ r.core[c].st \in {"dead", "closing"}
                             \/ c = daemon.child /\ r.core[c].st = "dead"
         /\ r.ok => /\ r.daemon.child = None /\ ~r.daemon.running /\ r.pid = None
                    /\ daemon.child # None => r.core[daemon.child].st = "dead"
                    /\ daemon.child = None /\ IsCore(Listed)
                         => r.core[Listed].st \in {"dead", "closing"}
         /\ ~r.ok => /\ r.daemon.child = daemon.child /\ r.daemon.launched = daemon.launched
                     /\ r.pid = disk.pid
                     /\ daemon.child = None => r.daemon = daemon
                     /\ daemon.child # None => r.core = core
<1> USE DEF Ended
<1>1. \A s \in States : [core EXCEPT ![Listed].st = s] \in [Cores -> Process]
  BY DEF Typed, CoreOK, Process
<1>2. Dead \in Process
  BY DEF Dead, Process, States
<1>3. Cleared(daemon) \in Daemons /\ Cleared(daemon).child = None /\ ~Cleared(daemon).running
      /\ Cleared(daemon).up = daemon.up
  BY DEF Typed, DaemonOK, Daemons, Cleared
<1>4. CASE daemon.child # None
  <2>1. daemon.child \in Cores
    BY <1>4, Fields
  <2>2. CASE r = Stopped([core EXCEPT ![daemon.child] = Dead])
    BY <2>1, <2>2, <1>2, <1>3, <1>4 DEF Stopped, Typed, CoreOK, Dead
  <2>3. CASE r = Ended(core, [daemon EXCEPT !.running = TRUE], disk.pid, FALSE)
    BY <2>1, <2>3, <1>4 DEF Typed, CoreOK, DaemonOK, Daemons
  <2> QED BY <1>4, <2>2, <2>3 DEF Stops
<1>5. CASE daemon.child = None
  <2>1. \A procs : procs \in [Cores -> Process] =>
          /\ Stopped(procs).core = procs /\ Stopped(procs).daemon = Cleared(daemon)
          /\ Stopped(procs).pid = None /\ Stopped(procs).ok
          /\ NotStopped(procs).core = procs /\ NotStopped(procs).daemon = daemon
          /\ NotStopped(procs).pid = disk.pid /\ ~NotStopped(procs).ok
          /\ ByEndpoint(procs) \in {Stopped(procs), NotStopped(procs)}
    BY DEF Stopped, NotStopped, ByEndpoint
  <2>2. CASE ~IsCore(Listed)
    <3>1. r \in {NotStopped(core), Stopped(core)}
      BY <1>5, <2>2, <2>1 DEF Stops, Typed, CoreOK
    <3> QED BY <3>1, <2>1, <2>2, <1>3, <1>5 DEF Typed, CoreOK, DaemonOK
  <2>3. CASE IsCore(Listed)
    <3>1. Listed \in Cores
      BY <2>3, Fields DEF IsCore, Is
    <3> DEFINE killed == [core EXCEPT ![Listed] = Dead]
               closing == [core EXCEPT ![Listed].st = "closing"]
    <3>2. killed \in [Cores -> Process] /\ killed[Listed].st = "dead"
          /\ \A c \in Cores : c # Listed => killed[c] = core[c]
      BY <3>1, <1>2 DEF Typed, CoreOK, Dead
    <3>3. closing \in [Cores -> Process] /\ closing[Listed].st = "closing"
          /\ \A c \in Cores : c # Listed => closing[c] = core[c]
      BY <3>1, <1>1 DEF Typed, CoreOK, Process, States
    <3>4. r \in {Stopped(killed), Stopped(closing), NotStopped(closing), NotStopped(core)}
      BY <1>5, <2>3, <2>1, <3>3 DEF Stops
    <3> HIDE DEF killed, closing
    <3>5. r.core \in {killed, closing, core} /\ r.core \in [Cores -> Process]
      BY <3>2, <3>3, <3>4, <2>1 DEF Typed, CoreOK
    <3>6. \A c \in Cores : r.core[c] = core[c] \/ (IsCore(c) /\ r.core[c].st \in {"dead", "closing"})
      BY <3>2, <3>3, <3>5, <2>3
    <3> QED BY <3>2, <3>3, <3>4, <3>5, <3>6, <2>1, <1>3, <1>5 DEF Typed, CoreOK, DaemonOK
  <2> QED BY <2>2, <2>3
<1> QED BY <1>4, <1>5

(***************************************************************************)
(* The types are kept                                                      *)
(***************************************************************************)
LEMMA CoreTyped == ASSUME Typed, Staged, Next PROVE CoreOK'
<1> USE DEF CoreOK
<1>1. core \in [Cores -> Process] /\ Dead \in Process /\ op \in Ops
  BY DEF Typed, Dead, Process, States, OpOK
<1>2. CASE Reload
  <2>1. CASE core' = core
    BY <1>1, <2>1
  <2>2. CASE \E tun \in {core[daemon.child].tun, FALSE} :
               core' = [core EXCEPT ![daemon.child] =
                          [@ EXCEPT !.rev = op.rev, !.tun = tun, !.mark = "reloaded"]]
    <3>1. PICK tun \in {core[daemon.child].tun, FALSE} :
            core' = [core EXCEPT ![daemon.child] =
                       [core[daemon.child] EXCEPT !.rev = op.rev, !.tun = tun, !.mark = "reloaded"]]
      BY <2>2
    <3>2. CASE daemon.child \in Cores
      <4>1. [core[daemon.child] EXCEPT !.rev = op.rev, !.tun = tun, !.mark = "reloaded"] \in Process
        BY <1>1, <1>2, <3>2 DEF Reload, Process, Staged
      <4> QED BY <1>1, <3>1, <4>1
    <3> QED BY <1>1, <3>1, <3>2
  <2> QED BY <1>2, <2>1, <2>2 DEF Reload
<1>3. CASE Reloaded
  BY <1>1, <1>3 DEF Reloaded, Process
<1>4. CASE Stop
  BY <1>4, StopEffect DEF Stop, StopWith
<1>5. CASE Spawn
  <2>1. [Dead EXCEPT !.st = "starting", !.rev = disk.config] \in Process
    BY <1>1, <1>5, Fields, CoreAssumption DEF Spawn, Staged, Dead, Process, States, Ops
  <2> QED BY <1>1, <1>5, <2>1 DEF Spawn
<1>6. CASE SpawnedLate
  BY <1>1, <1>6, Fields DEF SpawnedLate, Process, States, Is
<1>7. CASE SpawnedReady
  BY <1>1, <1>7, Fields DEF SpawnedReady, Process, IsCore, Is
<1>8. CASE Terminate
  BY <1>8, StopEffect DEF Terminate
<1>9. CASE Exit \/ Crash
  BY <1>1, <1>9 DEF Exit, Crash, Gone, Abandoned, KilledWithDaemon, Process
<1>10. ASSUME NEW c \in Cores, Serves(c) \/ Exits(c) \/ Toggles(c) \/ Reused(c)
       PROVE  CoreOK'
  <2>1. [core EXCEPT ![c].st = "serving"] \in [Cores -> Process]
        /\ [core EXCEPT ![c].st = "stranger"] \in [Cores -> Process]
    BY <1>1 DEF Process, States
  <2>2. CASE Serves(c)
    <3>1. PICK tun \in {disk.tun, FALSE} :
            core' = [core EXCEPT ![c].st = "serving", ![c].tun = tun]
      BY <2>2 DEF Serves
    <3>2. tun \in BOOLEAN
      BY DEF Typed, DiskOK, Disks
    <3> QED BY <1>1, <2>1, <3>1, <3>2 DEF Process
  <2>3. CASE Toggles(c)
    BY <1>1, <2>3 DEF Toggles, Process
  <2> QED BY <1>1, <1>10, <2>1, <2>2, <2>3 DEF Exits, Reused
<1>11. CASE \/ Commands \/ StartRefused \/ SpawnedExited \/ Check \/ Restore
            \/ Observe \/ Boot
  BY <1>1, <1>11 DEF Commands, StopCommand, Promote, PromoteRefused, StartRefused,
       SpawnedExited, Check, Restore, Observe, Boot
<1> QED BY <1>2, <1>3, <1>4, <1>5, <1>6, <1>7, <1>8, <1>9, <1>10, <1>11
         DEF Next, OpStep, Environment

LEMMA DaemonTyped == ASSUME Typed, Staged, Next PROVE DaemonOK'
<1> USE DEF DaemonOK
<1>1. daemon \in Daemons /\ Reaped \in Daemons /\ op \in Ops
  BY ReapedEffect DEF Typed, OpOK
<1>2. CASE (\E r \in Revs, hot \in BOOLEAN : Promote(r, hot))
           \/ PromoteRefused \/ Observe \/ Check
  BY <1>1, <1>2 DEF Promote, PromoteRefused, Observe, Check
<1>3. CASE Reloaded
  BY <1>1, <1>3 DEF Reloaded, RecordReload, Daemons, Ops
<1>4. CASE Stop
  BY <1>4, StopEffect DEF Stop
<1>5. CASE StartRefused \/ Spawn \/ SpawnedExited \/ SpawnedLate
  BY <1>1, <1>5 DEF StartRefused, Spawn, SpawnedExited, SpawnedLate, NoneStarted, Daemons
<1>6. CASE SpawnedReady
  BY <1>1, <1>6, Fields DEF SpawnedReady, Daemons, Staged, Ops
<1>7. CASE Terminate
  BY <1>7, StopEffect DEF Terminate, Daemons
<1>8. CASE Exit \/ Crash
  BY <1>8, DownTyped DEF Exit, Crash, Gone
<1>9. CASE Boot
  BY <1>9, Fields DEF Boot, Down, Daemons, IsCore, Is, Listed
<1>10. CASE UNCHANGED daemon
  BY <1>1, <1>10
<1> QED BY <1>2, <1>3, <1>4, <1>5, <1>6, <1>7, <1>8, <1>9, <1>10
         DEF Next, Commands, StopCommand, OpStep, Reload, Restore, Environment,
             Serves, Exits, Toggles, Reused

LEMMA DiskTyped == ASSUME Typed, Staged, Held, Next PROVE DiskOK'
<1> USE DEF DiskOK
<1>1. disk \in Disks /\ op \in Ops /\ ReapedPid \in {disk.pid, None}
      /\ Reaped.child \in Cores \cup {None}
  BY ReapedEffect DEF Typed, OpOK, DiskOK, Daemons
<1>2. CASE (\E r \in Revs, hot \in BOOLEAN : Promote(r, hot)) \/ PromoteRefused
           \/ Observe \/ Check
  BY <1>1, <1>2 DEF Promote, PromoteRefused, Observe, Check, Disks
<1>3. CASE Reloaded
  BY <1>1, <1>3 DEF Reloaded, RecordReload, Disks, PidRecord, Staged
<1>4. CASE Stop
  BY <1>1, <1>4, StopEffect DEF Stop, StopWith, Disks
<1>5. CASE SpawnedExited \/ SpawnedLate
  BY <1>1, <1>5 DEF SpawnedExited, SpawnedLate, NoneStarted, Disks
<1>6. CASE SpawnedReady
  BY <1>1, <1>6, Fields DEF SpawnedReady, Disks, PidRecord, Staged, Ops
<1>7. CASE Terminate
  BY <1>1, <1>7, StopEffect DEF Terminate, Disks
<1>8. CASE Exit \/ Crash \/ Boot
  BY <1>1, <1>8 DEF Exit, Crash, Gone, Boot, Disks
<1>9. CASE Restore
  BY <1>1, <1>9 DEF Restore, Disks, Ops
<1>10. CASE UNCHANGED disk
  BY <1>1, <1>10
<1> QED BY <1>2, <1>3, <1>4, <1>5, <1>6, <1>7, <1>8, <1>9, <1>10
         DEF Next, Commands, StopCommand, OpStep, Reload, StartRefused, Spawn, Environment,
             Serves, Exits, Toggles, Reused

LEMMA OpTyped == ASSUME Typed, Staged, Next PROVE OpOK'
<1> USE DEF OpOK
<1>1. op \in Ops /\ disk \in Disks /\ NoFile \notin Revs
  BY CoreAssumption DEF Typed, DiskOK
<1>2. ASSUME NEW r \in Revs, NEW hot \in BOOLEAN, Promote(r, hot)
      PROVE  op' \in Ops
  <2>1. PICK before \in {"on", "off", "unknown"} :
          op' = [Idle("none") EXCEPT
                   !.pc = IF hot /\ Reaped.child # None THEN "reload" ELSE "stop",
                   !.leg = "apply", !.rev = r, !.backup = disk.config,
                   !.before = before, !.had = Reaped.child # None,
                   !.wasOn = Is(Reaped.child, {"serving"}) /\ core[Reaped.child].tun]
    BY <1>2 DEF Promote, Readings
  <2> DEFINE l == IF hot /\ Reaped.child # None THEN "reload" ELSE "stop"
             had == Reaped.child # None
             on == Is(Reaped.child, {"serving"}) /\ core[Reaped.child].tun
  <2>2. l \in {"reload", "stop"} /\ had \in BOOLEAN /\ on \in BOOLEAN /\ disk.config \in Revs \cup {NoFile}
    BY <1>1 DEF Disks
  <2>3. op' = [Idle("none") EXCEPT !.pc = l, !.leg = "apply", !.rev = r, !.backup = disk.config,
                                   !.before = before, !.had = had, !.wasOn = on]
    BY <2>1
  <2> HIDE DEF l, had, on
  <2> QED BY <2>2, <2>3 DEF Idle, Ops
<1>3. CASE StopCommand
  BY <1>1, <1>3 DEF StopCommand, Idle, Ops
<1>4. CASE PromoteRefused \/ Exit \/ Crash
  <2>1. Answered
    BY <1>4 DEF PromoteRefused, Exit, Crash, Gone, Answered, Replies
  <2> QED BY <2>1, AnsweredTyped
<1>5. CASE Reload
  BY <1>1, <1>5 DEF Reload, Ops
<1>6. CASE Reloaded
  <2>1. op' = [op EXCEPT !.pc = "restore"] \/ Answered
    BY <1>6 DEF Reloaded, Answered, Replies
  <2> QED BY <1>1, <2>1, AnsweredTyped DEF Ops
<1>7. CASE Stop
  <2>1. op' = [op EXCEPT !.pc = "start"] \/ Answered
    BY <1>7 DEF Stop, Answered, Replies
  <2> QED BY <1>1, <2>1, AnsweredTyped DEF Ops
<1>8. CASE Check
  <2>1. op' = [op EXCEPT !.pc = "restore"] \/ Answered
    BY <1>8 DEF Check, Answered, Replies
  <2> QED BY <1>1, <2>1, AnsweredTyped DEF Ops
<1>9. CASE Restore
  <2>1. op' = [op EXCEPT !.pc = "stop", !.leg = "rollback"] \/ Answered
    BY <1>9 DEF Restore, Answered, Replies
  <2> QED BY <1>1, <2>1, AnsweredTyped DEF Ops
<1>10. CASE StartRefused \/ SpawnedExited \/ SpawnedLate
  <2>1. \/ op' = [op EXCEPT !.pc = "restore", !.core = None]
        \/ op' = [op EXCEPT !.pc = "start", !.core = None] \/ Answered
    BY <1>10 DEF StartRefused, SpawnedExited, SpawnedLate, FailedOrRetried, StartFails,
         Answered, Replies
  <2> QED BY <1>1, <2>1, AnsweredTyped DEF Ops
<1>11. CASE Spawn
  BY <1>1, <1>11 DEF Spawn, Ops
<1>12. CASE SpawnedReady
  <2>1. CASE op.leg \in {"apply", "rollback", "boot"}
    <3>1. op' = [op EXCEPT !.pc = "check", !.core = None] \/ Answered
      BY <1>12, <2>1 DEF SpawnedReady, Answered, Replies
    <3> QED BY <1>1, <3>1, AnsweredTyped DEF Ops
  <2> QED BY <1>1, <2>1, <1>12 DEF Staged, SpawnedReady, Ops
<1>13. CASE Boot
  BY <1>1, <1>13 DEF Boot, Ops
<1>14. CASE UNCHANGED op
  BY <1>1, <1>14
<1> QED BY <1>2, <1>3, <1>4, <1>5, <1>6, <1>7, <1>8, <1>9, <1>10, <1>11, <1>12, <1>13, <1>14
         DEF Next, Commands, OpStep, Environment, Observe, Terminate, Serves, Exits, Toggles, Reused

\* No step but a request or a fault counts, and neither beyond its bound.
LEMMA CountTyped == ASSUME Typed, Next PROVE CountOK'
<1> USE DEF CountOK, Counts
<1>1. count \in Counts /\ MaxRequests \in Nat /\ MaxFaults \in Nat
  BY BoundsAssumption DEF Typed
<1>2. Fault => count' \in Counts
  BY <1>1 DEF Fault
<1>3. CASE Commands
  <2>1. count.requests < MaxRequests /\ count' = [count EXCEPT !.requests = @ + 1]
    BY <1>3 DEF Commands, StopCommand, Promote, PromoteRefused
  <2> QED BY <1>1, <2>1
<1>4. CASE OpStep
  BY <1>1, <1>2, <1>4 DEF OpStep, Reload, Reloaded, Stop, StopWith, StartRefused, Spawn,
       SpawnedExited, SpawnedLate, SpawnedReady, FailedOrRetried, Check, Restore
<1>5. CASE Environment
  BY <1>1, <1>2, <1>5 DEF Environment, Serves, Exits, Toggles, Reused, Terminate, Exit, Crash,
       Boot, Observe
<1> QED BY <1>3, <1>4, <1>5 DEF Next

(***************************************************************************)
(* The steps of a command follow each other                                *)
(***************************************************************************)
\* An answer ends the command, and says nothing of the next one.
LEMMA AnsweredStaged ==
  ASSUME Answered
  PROVE  /\ op'.core = None /\ op'.pc = "idle" /\ op'.leg = "none" /\ op'.wasOn = FALSE
         /\ op'.reply \in Replies
BY DEF Answered, Idle

LEMMA StagedStep == ASSUME Typed, Staged, Held, Next PROVE Staged'
<1> USE DEF Staged
<1>1. /\ op \in Ops /\ disk \in Disks /\ None \notin Cores /\ None \notin Revs /\ NoFile \notin Revs
  BY CoreAssumption DEF Typed, DiskOK, OpOK
<1>2. ASSUME NEW r \in Revs, NEW hot \in BOOLEAN, Promote(r, hot)
      PROVE  Staged'
  <2>1. /\ op'.core = None /\ op'.pc \in {"reload", "stop"} /\ op'.leg = "apply" /\ op'.rev = r
        /\ op'.reply = "none"
    BY <1>2 DEF Promote, Idle
  <2>2. disk'.config = r
    BY <1>1, <1>2 DEF Promote, Disks
  <2>3. op'.wasOn => op'.had /\ op'.before \in {"on", "unknown"}
    BY <1>2 DEF Promote, Idle, Readings, Is
  <2> QED BY <1>1, <2>1, <2>2, <2>3
<1>3. CASE StopCommand
  BY <1>3 DEF StopCommand, Idle
<1>4. CASE Answered
  BY <1>4, AnsweredStaged
<1>5. CASE Reload
  BY <1>1, <1>5 DEF Reload, Ops
<1>6. CASE Reloaded
  <2>1. CASE op' = [op EXCEPT !.pc = "restore"] /\ UNCHANGED disk
    BY <1>1, <1>6, <2>1 DEF Reloaded, Ops
  <2> QED BY <1>4, <1>6, <2>1 DEF Reloaded, Answered, Replies
<1>7. CASE Stop
  <2>1. CASE op' = [op EXCEPT !.pc = "start"] /\ op.leg # "stop"
    BY <1>1, <1>7, <2>1 DEF Stop, StopWith, Ops, Disks
  <2> QED BY <1>4, <1>7, <2>1 DEF Stop, Answered, Replies
<1>8. CASE StartRefused \/ SpawnedExited \/ SpawnedLate
  <2>1. disk'.config = disk.config
    BY <1>1, <1>8 DEF StartRefused, SpawnedExited, SpawnedLate, NoneStarted, Disks
  <2>2. CASE StartFails
    <3>1. CASE op.leg = "apply"
      BY <1>1, <1>8, <2>1, <2>2, <3>1 DEF StartFails, Ops
    <3> QED BY <1>4, <2>2, <3>1 DEF StartFails, Answered, Replies
  <2>3. CASE op' = [op EXCEPT !.pc = "start", !.core = None] /\ op.pc = "spawned"
    BY <1>1, <2>1, <2>3 DEF Ops
  <2> QED BY <1>8, <2>2, <2>3 DEF StartRefused, SpawnedExited, SpawnedLate, FailedOrRetried
<1>9. CASE Spawn
  <2>1. PICK c \in Cores : op' = [op EXCEPT !.pc = "spawned", !.core = c]
    BY <1>9 DEF Spawn
  <2>2. op.pc = "start" /\ UNCHANGED disk
    BY <1>9 DEF Spawn
  <2> QED BY <1>1, <2>1, <2>2 DEF Ops
<1>10. CASE SpawnedReady
  <2>1. disk'.config = disk.config
    BY <1>1, <1>10 DEF SpawnedReady, Disks
  <2>2. CASE op.leg = "apply"
    BY <1>1, <1>10, <2>1, <2>2 DEF SpawnedReady, Ops
  <2>3. CASE op.leg \in {"rollback", "boot"}
    BY <1>4, <1>10, <2>3 DEF SpawnedReady, Answered, Replies
  <2> QED BY <1>1, <1>10, <2>2, <2>3 DEF SpawnedReady, Ops
<1>11. CASE Check
  <2>1. CASE op' = [op EXCEPT !.pc = "restore"]
    BY <1>1, <1>11, <2>1 DEF Check, Ops, Disks
  <2> QED BY <1>4, <1>11, <2>1 DEF Check, Answered, Replies
<1>12. CASE Restore
  <2>1. CASE op' = [op EXCEPT !.pc = "stop", !.leg = "rollback"] /\ op.backup # NoFile
    BY <1>1, <1>12, <2>1 DEF Restore, Ops, Disks
  <2> QED BY <1>4, <1>12, <2>1 DEF Restore, Answered, Replies
<1>13. CASE Boot
  <2>1. op.pc = "idle" /\ disk'.config = disk.config
    BY <1>1, <1>13 DEF Boot, Held, Disks
  <2> QED BY <1>1, <1>13, <2>1 DEF Boot, Ops, Disks
<1>14. CASE op' = op /\ disk'.config = disk.config
  BY <1>14
<1>15. CASE PromoteRefused \/ Exit \/ Crash
  BY <1>4, <1>15 DEF PromoteRefused, Exit, Crash, Gone, Answered, Replies
<1>16. CASE Observe \/ Terminate \/ \E c \in Cores : Serves(c) \/ Exits(c) \/ Toggles(c) \/ Reused(c)
  BY <1>1, <1>14, <1>16 DEF Observe, Terminate, Serves, Exits, Toggles, Reused, Disks
<1> QED BY <1>2, <1>3, <1>5, <1>6, <1>7, <1>8, <1>9, <1>10, <1>11, <1>12, <1>13, <1>15, <1>16
         DEF Next, Commands, OpStep, Environment

(***************************************************************************)
(* What a step makes of a process, of the child and of the spawned Core    *)
(***************************************************************************)
Moves == \E c \in Cores : Serves(c) \/ Exits(c) \/ Toggles(c) \/ Reused(c)

\* A process by itself begins to serve, exits, turns its TUN, or takes an id that
\* neither the child nor the Core just spawned has.
Moved(c) ==
  \/ core'[c] = core[c]
  \/ /\ core[c].st \in {"starting", "serving"} /\ core'[c].st = "serving"
     /\ core'[c].rev = core[c].rev /\ core'[c].mark = core[c].mark
  \/ core'[c].st = "dead"
  \/ core[c].st = "dead" /\ core'[c].st = "stranger" /\ c \notin {daemon.child, op.core}

LEMMA MovesEffect ==
  ASSUME Typed, Moves
  PROVE  UNCHANGED <<daemon, disk, op>> /\ \A c \in Cores : Moved(c)
<1>1. PICK c \in Cores : Serves(c) \/ Exits(c) \/ Toggles(c) \/ Reused(c)
  BY DEF Moves
<1>2. core \in [Cores -> Process]
  BY DEF Typed, CoreOK
<1>3. UNCHANGED <<daemon, disk, op>> /\ \A d \in Cores \ {c} : core'[d] = core[d]
  BY <1>1, <1>2 DEF Serves, Exits, Toggles, Reused
<1>4. CASE Serves(c)
  <2>1. PICK tun \in {disk.tun, FALSE} :
          core' = [core EXCEPT ![c].st = "serving", ![c].tun = tun]
    BY <1>4 DEF Serves
  <2>2. core'[c].st = "serving" /\ core'[c].rev = core[c].rev /\ core'[c].mark = core[c].mark
    BY <1>2, <2>1 DEF Process
  <2> QED BY <1>3, <1>4, <2>2 DEF Serves, Moved
<1>5. CASE Exits(c)
  BY <1>2, <1>3, <1>5 DEF Exits, Dead, Moved
<1>6. CASE Toggles(c)
  BY <1>2, <1>3, <1>6 DEF Toggles, Process, Moved
<1>7. CASE Reused(c)
  BY <1>2, <1>3, <1>7 DEF Reused, Process, Moved
<1> QED BY <1>1, <1>4, <1>5, <1>6, <1>7

\* What the daemon does to processes.  (The Core that it spawns apart.)
Handled(c) ==
  \/ core'[c] = core[c]
  \/ IsCore(c) /\ core'[c].st \in {"dead", "closing"}
  \/ c = daemon.child /\ core'[c].st = "dead"
  \/ IsCore(c) /\ core'[c].st = core[c].st /\ core'[c].rev = core[c].rev
       /\ core'[c].mark = "lost" /\ c = op.core

LEMMA ReloadEffect ==
  ASSUME Typed, Reload
  PROVE  /\ \A c \in Cores : \/ core'[c] = core[c]
                             \/ /\ c = daemon.child /\ core[c].st = "serving"
                                /\ core'[c].st = "serving" /\ core'[c].rev = op.rev
                                /\ core'[c].mark = "reloaded"
         /\ op'.rev = op.rev
         /\ op'.pc = "reloaded" /\ daemon.child # None
              => core'[daemon.child].rev = op.rev /\ core'[daemon.child].mark = "reloaded"
<1>1. core \in [Cores -> Process] /\ op \in Ops /\ daemon.child \in Cores \cup {None}
  BY Fields DEF Typed, CoreOK, OpOK
<1>2. CASE core' = core /\ op' = [op EXCEPT !.pc = "stop"]
  BY <1>1, <1>2 DEF Ops
<1>3. CASE /\ Is(daemon.child, {"serving"})
           /\ \E tun \in {core[daemon.child].tun, FALSE} :
             core' = [core EXCEPT ![daemon.child] =
                        [@ EXCEPT !.rev = op.rev, !.tun = tun, !.mark = "reloaded"]]
           /\ op' = [op EXCEPT !.pc = "reloaded"] \/ op' = [op EXCEPT !.pc = "stop"]
  <2>1. PICK tun \in {core[daemon.child].tun, FALSE} :
          core' = [core EXCEPT ![daemon.child] =
                     [core[daemon.child] EXCEPT !.rev = op.rev, !.tun = tun, !.mark = "reloaded"]]
    BY <1>3
  <2>2. daemon.child \in Cores /\ core[daemon.child].st = "serving" /\ core[daemon.child] \in Process
    BY <1>1, <1>3 DEF Is
  <2>3. core'[daemon.child] = [core[daemon.child] EXCEPT !.rev = op.rev, !.tun = tun, !.mark = "reloaded"]
        /\ \A c \in Cores \ {daemon.child} : core'[c] = core[c]
    BY <1>1, <2>1, <2>2
  <2>4. core'[daemon.child].st = "serving" /\ core'[daemon.child].rev = op.rev
        /\ core'[daemon.child].mark = "reloaded"
    BY <2>2, <2>3 DEF Process
  <2>5. op'.rev = op.rev
    BY <1>1, <1>3 DEF Ops
  <2> QED BY <2>2, <2>3, <2>4, <2>5
<1> QED BY <1>2, <1>3 DEF Reload

LEMMA ReloadedEffect ==
  ASSUME Typed, Reloaded
  PROVE  \A c \in Cores : \/ core'[c] = core[c]
                          \/ /\ c = daemon.child /\ core'[c].st = core[c].st
                             /\ core'[c].rev = core[c].rev /\ core'[c].mark = "known"
<1>1. core \in [Cores -> Process]
  BY DEF Typed, CoreOK
<1>2. CASE UNCHANGED core
  BY <1>2
<1>3. CASE core' = [c \in Cores |-> IF c = daemon.child
                                     THEN [core[c] EXCEPT !.mark = "known"] ELSE core[c]]
  BY <1>1, <1>3 DEF Process
<1> QED BY <1>2, <1>3 DEF Reloaded

LEMMA SpawnEffect ==
  ASSUME Typed, Spawn
  PROVE  /\ op'.core \in Cores /\ op'.pc = "spawned" /\ core[op'.core] = Dead
         /\ core'[op'.core].st = "starting" /\ core'[op'.core].rev = disk.config
         /\ core'[op'.core].mark = "known"
         /\ \A c \in Cores \ {op'.core} : core'[c] = core[c]
         /\ daemon'.child = None /\ ~daemon'.running /\ daemon'.up = daemon.up /\ disk' = disk
<1>1. core \in [Cores -> Process] /\ op \in Ops /\ daemon \in Daemons
  BY DEF Typed, CoreOK, OpOK, DaemonOK
<1>2. PICK c \in Cores :
        /\ core[c] = Dead
        /\ core' = [core EXCEPT ![c] = [Dead EXCEPT !.st = "starting", !.rev = disk.config]]
        /\ op' = [op EXCEPT !.pc = "spawned", !.core = c]
  BY DEF Spawn
<1>3. op'.core = c /\ op'.pc = "spawned"
  BY <1>1, <1>2 DEF Ops
<1>4. /\ core'[c].st = "starting" /\ core'[c].rev = disk.config /\ core'[c].mark = "known"
      /\ \A d \in Cores \ {c} : core'[d] = core[d]
  BY <1>1, <1>2 DEF Dead
<1>5. daemon'.child = None /\ ~daemon'.running /\ daemon'.up = daemon.up /\ disk' = disk
  BY <1>1 DEF Spawn, Daemons
<1> QED BY <1>2, <1>3, <1>4, <1>5

LEMMA ReadyEffect ==
  ASSUME Typed, Staged, SpawnedReady
  PROVE  /\ op.core \in Cores /\ daemon'.child = op.core /\ daemon'.running /\ op'.pc # "spawned"
         /\ daemon'.up = daemon.up /\ daemon'.launched = disk.config
         /\ disk'.pid = [core |-> op.core, rev |-> disk.config] /\ disk'.config = disk.config
         /\ core'[op.core].st = core[op.core].st /\ core'[op.core].rev = core[op.core].rev
         /\ core'[op.core].mark = IF core[op.core].st = "serving" THEN core[op.core].mark
                                                                  ELSE "misled"
         /\ \A c \in Cores \ {op.core} : core'[c] = core[c]
<1>1. /\ core \in [Cores -> Process] /\ op \in Ops /\ daemon \in Daemons /\ disk \in Disks
      /\ op.core \in Cores
  BY Fields DEF Typed, CoreOK, OpOK, DaemonOK, DiskOK, SpawnedReady, IsCore, Is
<1>2. daemon'.child = op.core /\ daemon'.running /\ daemon'.up = daemon.up
      /\ daemon'.launched = disk.config
  BY <1>1 DEF SpawnedReady, Daemons
<1>3. disk'.pid = [core |-> op.core, rev |-> disk.config] /\ disk'.config = disk.config
  BY <1>1 DEF SpawnedReady, Disks
<1>4. /\ core'[op.core].st = core[op.core].st /\ core'[op.core].rev = core[op.core].rev
      /\ core'[op.core].mark = IF core[op.core].st = "serving" THEN core[op.core].mark ELSE "misled"
      /\ \A c \in Cores \ {op.core} : core'[c] = core[c]
  BY <1>1, CoreAssumption DEF SpawnedReady, Process, Is
<1>5. op'.pc # "spawned"
  <2>1. CASE op.leg = "apply"
    BY <1>1, <2>1 DEF SpawnedReady, Ops
  <2>2. CASE op.leg \in {"rollback", "boot"}
    BY <2>2, AnsweredStaged DEF SpawnedReady, Answered, Replies
  <2> QED BY <1>1, <2>1, <2>2 DEF Staged, SpawnedReady, Ops
<1> QED BY <1>1, <1>2, <1>3, <1>4, <1>5

\* Every other step of the daemon leaves processes alone or ends them.
LEMMA HandledEffect ==
  ASSUME Typed, Staged, Next, ~Moves, ~Reload, ~Reloaded, ~Spawn, ~SpawnedReady
  PROVE  \A c \in Cores : Handled(c)
<1>1. core \in [Cores -> Process]
  BY DEF Typed, CoreOK
<1>2. CASE UNCHANGED core
  BY <1>2 DEF Handled
<1>3. CASE Stop \/ Terminate
  BY <1>3, StopEffect DEF Stop, StopWith, Terminate, Handled
<1>4. CASE SpawnedLate
  BY <1>1, <1>4, Fields DEF SpawnedLate, Process, Is, IsCore, Handled
<1>5. CASE Exit \/ Crash
  BY <1>1, <1>5 DEF Exit, Crash, Gone, Abandoned, KilledWithDaemon, Process, Dead, Handled
<1> QED BY <1>2, <1>3, <1>4, <1>5
         DEF Next, Commands, StopCommand, Promote, PromoteRefused, OpStep, StartRefused,
             SpawnedExited, Check, Restore, Environment, Observe, Boot, Moves

\* The child changes by being forgotten, unless a Core was started.
LEMMA ChildEffect ==
  ASSUME Typed, Next, ~SpawnedReady
  PROVE  daemon'.child \in {None, daemon.child}
<1>1. daemon \in Daemons /\ Reaped \in Daemons /\ Reaped.child \in {None, daemon.child}
  BY ReapedEffect DEF Typed, DaemonOK
<1>2. CASE (\E r \in Revs, hot \in BOOLEAN : Promote(r, hot)) \/ PromoteRefused \/ Observe \/ Check
  BY <1>1, <1>2 DEF Promote, PromoteRefused, Observe, Check
<1>3. CASE Reloaded
  BY <1>1, <1>3 DEF Reloaded, RecordReload, Daemons
<1>4. CASE Stop
  BY <1>4, StopEffect DEF Stop
<1>5. CASE Terminate
  <2>1. PICK r \in Stops : daemon' = [r.daemon EXCEPT !.up = "exiting"]
    BY <1>5 DEF Terminate
  <2> QED BY <2>1, StopEffect DEF Daemons
<1>6. CASE StartRefused \/ Spawn \/ SpawnedExited \/ SpawnedLate
  BY <1>1, <1>6 DEF StartRefused, Spawn, SpawnedExited, SpawnedLate, NoneStarted, Daemons
<1>7. CASE Exit \/ Crash
  BY <1>7 DEF Exit, Crash, Gone, Down
<1>8. CASE Boot
  BY <1>8 DEF Boot, Down
<1>9. CASE UNCHANGED daemon
  BY <1>9
<1> QED BY <1>2, <1>3, <1>4, <1>5, <1>6, <1>7, <1>8, <1>9
         DEF Next, Commands, StopCommand, OpStep, Reload, Restore, Environment,
             Serves, Exits, Toggles, Reused

\* While a Core has been spawned and not answered, nothing but processes moves.
LEMMA SpawnedEffect ==
  ASSUME Typed, Staged, Held, Next, op'.pc = "spawned"
  PROVE  Spawn \/ (op.pc = "spawned" /\ Moves)
<1>1. op \in Ops
  BY DEF Typed, OpOK
<1>2. CASE Answered \/ SpawnedReady
  BY <1>2, ReadyEffect, AnsweredStaged
<1>3. CASE Commands
  <2>1. CASE \E r \in Revs, hot \in BOOLEAN : Promote(r, hot)
    BY <2>1 DEF Promote, Idle
  <2>2. CASE StopCommand
    BY <2>2 DEF StopCommand, Idle
  <2>3. CASE PromoteRefused
    BY <2>3 DEF PromoteRefused, Idle
  <2> QED BY <1>3, <2>1, <2>2, <2>3 DEF Commands
<1>4. CASE Reload \/ StartRefused \/ SpawnedExited \/ SpawnedLate
  <2>1. ~Answered => op'.pc # "spawned"
    BY <1>1, <1>4 DEF Reload, StartRefused, SpawnedExited, SpawnedLate, FailedOrRetried,
         StartFails, Ops, Answered, Replies
  <2> QED BY <1>2, <2>1
<1>5. CASE Reloaded \/ Check
  <2>1. op' = [op EXCEPT !.pc = "restore"] \/ Answered
    BY <1>5 DEF Reloaded, Check, Answered, Replies
  <2> QED BY <1>1, <1>2, <2>1 DEF Ops
<1>6. CASE Stop \/ Restore
  <2>1. op' = [op EXCEPT !.pc = "stop", !.leg = "rollback"] \/ op' = [op EXCEPT !.pc = "start"] \/ Answered
    BY <1>6 DEF Stop, Restore, Answered, Replies
  <2> QED BY <1>1, <1>2, <2>1 DEF Ops
<1>7. CASE Observe \/ Terminate
  BY <1>7 DEF Observe, Terminate, Unlocked
<1>8. CASE Exit \/ Crash
  <2>1. Answered
    BY <1>8 DEF Exit, Crash, Gone, Answered, Replies
  <2> QED BY <1>2, <2>1
<1>9. CASE Boot
  BY <1>1, <1>9 DEF Boot, Held, Ops
<1>10. CASE Moves
  BY <1>10, MovesEffect
<1> QED BY <1>2, <1>3, <1>4, <1>5, <1>6, <1>7, <1>8, <1>9, <1>10
         DEF Next, OpStep, Environment, Moves

\* A daemon that is gone has no command and no child.
LEMMA GoneEffect ==
  ASSUME Typed, Staged, Held, Next, daemon'.up = "down"
  PROVE  op'.pc = "idle" /\ daemon'.child = None
<1>1. CASE Exit \/ Crash
  BY <1>1 DEF Exit, Crash, Gone, Idle, Down
<1>2. CASE Moves
  BY <1>2, MovesEffect DEF Held
<1>3. CASE Boot
  BY <1>3 DEF Boot, Down
<1>4. CASE SpawnedReady \/ Spawn
  BY <1>4, ReadyEffect, SpawnEffect DEF SpawnedReady, Spawn, Running
<1>5. CASE Terminate
  <2>1. PICK r \in Stops : daemon' = [r.daemon EXCEPT !.up = "exiting"]
    BY <1>5 DEF Terminate
  <2> QED BY <2>1, StopEffect DEF Daemons
<1>6. CASE Stop
  BY <1>6, StopEffect DEF Stop, Running
<1>7. CASE Commands \/ Observe \/ Check \/ Reloaded \/ StartRefused \/ SpawnedExited \/ SpawnedLate
           \/ Reload \/ Restore
  <2>1. daemon \in Daemons /\ Reaped \in Daemons /\ Reaped.up = daemon.up
    BY ReapedEffect DEF Typed, DaemonOK
  <2>2. daemon.up # "down"
    BY <1>7 DEF Commands, StopCommand, Promote, PromoteRefused, Observe, Check, Reloaded,
         StartRefused, SpawnedExited, SpawnedLate, Reload, Restore, Running
  <2>3. daemon'.up = daemon.up
    BY <1>7, <2>1 DEF Commands, StopCommand, Promote, PromoteRefused, Observe, Check, Reloaded,
         RecordReload, StartRefused, SpawnedExited, SpawnedLate, NoneStarted, Reload, Restore, Daemons
  <2> QED BY <2>2, <2>3
<1> QED BY <1>1, <1>2, <1>3, <1>4, <1>5, <1>6, <1>7 DEF Next, OpStep, Environment, Moves

LEMMA HeldStep == ASSUME Typed, Staged, Held, Next PROVE Held'
<1>1. /\ daemon.child \in Cores \cup {None} /\ op.core \in Cores \cup {None}
      /\ op.pc = "spawned" => op.core \in Cores
  BY Fields DEF Staged
<1>2. daemon'.child # None => core'[daemon'.child].st # "stranger"
  <2>1. CASE SpawnedReady
    BY <2>1, ReadyEffect DEF SpawnedReady, IsCore, Is
  <2>2. CASE ~SpawnedReady
    <3> SUFFICES ASSUME daemon.child # None, daemon'.child = daemon.child
                 PROVE  core'[daemon.child].st # "stranger"
      BY <2>2, ChildEffect
    <3>1. daemon.child \in Cores /\ core[daemon.child].st # "stranger"
      BY <1>1 DEF Held
    <3>2. CASE Moves
      BY <3>1, <3>2, MovesEffect DEF Moved
    <3>3. CASE Reload \/ Reloaded
      BY <3>1, <3>3, ReloadEffect, ReloadedEffect
    <3>4. CASE Spawn
      BY <3>4, SpawnEffect
    <3>5. CASE ~Moves /\ ~Reload /\ ~Reloaded /\ ~Spawn
      <4>1. Handled(daemon.child)
        BY <2>2, <3>1, <3>5, HandledEffect
      <4> QED BY <3>1, <4>1 DEF Handled
    <3> QED BY <3>2, <3>3, <3>4, <3>5
  <2> QED BY <2>1, <2>2
<1>3. daemon'.up = "down" => op'.pc = "idle" /\ daemon'.child = None
  BY GoneEffect
<1>4. ASSUME op'.pc = "spawned"
      PROVE  /\ daemon'.child = None /\ ~daemon'.running
             /\ core'[op'.core].st \in {"dead", "starting", "serving"}
             /\ IsCore(op.core)' => core'[op'.core].rev = disk'.config /\ core'[op'.core].mark = "known"
  <2>1. CASE Spawn
    BY <2>1, SpawnEffect
  <2>2. CASE op.pc = "spawned" /\ Moves
    <3>1. op.core \in Cores /\ Moved(op.core) /\ UNCHANGED <<daemon, disk, op>>
      BY <1>1, <2>2, MovesEffect
    <3>2. /\ daemon.child = None /\ ~daemon.running
          /\ core[op.core].st \in {"dead", "starting", "serving"}
          /\ core[op.core].st \in {"starting", "serving", "closing"}
                => core[op.core].rev = disk.config /\ core[op.core].mark = "known"
      BY <1>1, <2>2, CoreAssumption DEF Held, IsCore, Is
    <3>3. core'[op.core].st \in {"dead", "starting", "serving"}
          /\ (core'[op.core].st \in {"starting", "serving", "closing"}
                => core'[op.core].rev = disk.config /\ core'[op.core].mark = "known")
      BY <3>1, <3>2 DEF Moved
    <3> QED BY <3>1, <3>2, <3>3 DEF IsCore, Is
  <2> QED BY <1>4, <2>1, <2>2, SpawnedEffect
<1> QED BY <1>2, <1>3, <1>4 DEF Held

(***************************************************************************)
(* Which Cores can be running                                              *)
(***************************************************************************)
\* A process becomes a running Core by being spawned only.
LEMMA NoRevival ==
  ASSUME Typed, Staged, Next, ~Spawn, NEW c \in Cores, core'[c].st \in {"starting", "serving"}
  PROVE  /\ core[c].st \in {"starting", "serving"}
         /\ core'[c].rev = core[c].rev \/ core'[c].mark = "reloaded"
         /\ core'[c].st = "starting" => core[c].st = "starting"
         /\ \/ core'[c].mark = core[c].mark \/ core'[c].mark = "lost"
            \/ Reload /\ c = daemon.child /\ core'[c].st = "serving" /\ core'[c].mark = "reloaded"
            \/ Reloaded /\ c = daemon.child
            \/ SpawnedReady /\ c = op.core /\ core[c].st = "starting" /\ core'[c].mark = "misled"
<1>1. CASE Moves
  BY <1>1, MovesEffect DEF Moved
<1>2. CASE Reload
  BY <1>2, ReloadEffect
<1>3. CASE Reloaded
  BY <1>3, ReloadedEffect
<1>4. CASE SpawnedReady
  BY <1>4, ReadyEffect
<1>5. CASE ~Moves /\ ~Reload /\ ~Reloaded /\ ~SpawnedReady
  BY <1>5, HandledEffect DEF Handled
<1> QED BY <1>1, <1>2, <1>3, <1>4, <1>5

\* A command that leaves the Core it has spawned has ended it, or loses it.
LEMMA Dropped ==
  ASSUME Typed, Staged, Held, Next, op.pc = "spawned", ~Moves, ~SpawnedReady
  PROVE  /\ core'[op.core].st \notin {"starting", "serving"} \/ core'[op.core].mark = "lost"
         /\ \A c \in Cores \ {op.core} : core'[c] = core[c] \/ core'[c].st = "dead"
         /\ daemon'.child = None /\ ~daemon'.running
         /\ disk'.pid \in {disk.pid, None} /\ op'.pc \notin {"reload", "reloaded"}
<1>1. /\ core \in [Cores -> Process] /\ op \in Ops /\ daemon \in Daemons /\ disk \in Disks
      /\ op.core \in Cores /\ daemon.child = None /\ ~daemon.running
      /\ core[op.core].st \in {"dead", "starting", "serving"}
  BY Fields DEF Typed, CoreOK, OpOK, DaemonOK, DiskOK, Held, Staged
<1>2. CASE SpawnedExited \/ SpawnedLate
  <2>1. core'[op.core].st \in {"dead", "closing"} /\ \A c \in Cores \ {op.core} : core'[c] = core[c]
    BY <1>1, <1>2 DEF SpawnedExited, SpawnedLate, Process
  <2>2. daemon'.child = None /\ ~daemon'.running /\ disk'.pid = None
    BY <1>1, <1>2 DEF SpawnedExited, SpawnedLate, NoneStarted, Daemons, Disks
  <2>3. \/ op' = [op EXCEPT !.pc = "restore", !.core = None]
        \/ op' = [op EXCEPT !.pc = "start", !.core = None] \/ Answered
    BY <1>2 DEF SpawnedExited, SpawnedLate, FailedOrRetried, StartFails, Answered, Replies
  <2>4. op'.pc \notin {"reload", "reloaded"}
    BY <1>1, <2>3, AnsweredStaged DEF Ops
  <2> QED BY <2>1, <2>2, <2>4
<1>3. CASE Exit \/ Crash
  <2>1. Answered /\ daemon' = Down /\ disk'.pid \in {disk.pid, None}
    BY <1>1, <1>3 DEF Exit, Crash, Gone, Answered, Replies, Disks
  <2>2. op'.pc \notin {"reload", "reloaded"} /\ daemon'.child = None /\ ~daemon'.running
    BY <2>1, AnsweredStaged DEF Down
  <2>3. CASE core' = KilledWithDaemon
    BY <1>1, <2>1, <2>2, <2>3, CoreAssumption DEF KilledWithDaemon, IsCore, Is, Dead
  <2>4. CASE core' = Abandoned
    BY <1>1, <2>1, <2>2, <2>4, CoreAssumption DEF Abandoned, IsCore, Is, Process
  <2> QED BY <1>3, <2>3, <2>4 DEF Exit, Crash, Gone
<1> QED BY <1>1, <1>2, <1>3
        DEF Next, Commands, StopCommand, Promote, PromoteRefused, OpStep, Reload, Reloaded, Stop,
            StartRefused, Spawn, Check, Restore, Environment, Observe, Terminate, Unlocked, Boot,
            Held, Moves

\* The Core that the daemon tracks stays the one it tracks for as long as it runs.
LEMMA TrackEffect ==
  ASSUME Typed, Staged, Held, Next, op.pc # "spawned", NEW c \in Cores, c = Tracked,
         core[c].st \in {"starting", "serving"}, core'[c].st \in {"starting", "serving"}
  PROVE  \/ /\ daemon.child = c /\ daemon'.child = c
            /\ \/ disk'.pid = disk.pid /\ daemon'.launched = daemon.launched
               \/ /\ Reloaded /\ disk'.pid = [core |-> c, rev |-> op.rev]
                  /\ daemon'.launched = op.rev
         \/ daemon'.child = None /\ disk'.pid = disk.pid
<1>1. /\ op \in Ops /\ daemon \in Daemons /\ disk \in Disks /\ Reaped \in Daemons
      /\ Alive(c) /\ IsCore(c)
      /\ daemon.child = None => c = Listed
      /\ daemon.child # None => c = daemon.child
  BY ReapedEffect, CoreAssumption DEF Typed, OpOK, DaemonOK, DiskOK, Alive, IsCore, Is, Tracked
<1>2. /\ Reaped.child = daemon.child /\ ReapedPid = disk.pid
      /\ daemon.child # None => Reaped.launched = daemon.launched
  BY <1>1, ReapedEffect
<1>3. CASE (\E r \in Revs, hot \in BOOLEAN : Promote(r, hot)) \/ PromoteRefused \/ Observe \/ Check
  <2>1. daemon' = Reaped /\ disk'.pid = ReapedPid
    BY <1>1, <1>3 DEF Promote, PromoteRefused, Observe, Check, Disks
  <2> QED BY <1>1, <1>2, <2>1
<1>4. CASE Reloaded
  <2>1. CASE UNCHANGED <<daemon, disk>>
    BY <1>1, <2>1
  <2>2. CASE RecordReload
    <3>1. daemon'.child = Reaped.child /\ daemon'.launched = op.rev
      BY <1>1, <2>2 DEF RecordReload, Daemons
    <3>2. disk'.pid = IF Reaped.child # None THEN [core |-> Reaped.child, rev |-> op.rev]
                                             ELSE ReapedPid
      BY <1>1, <2>2 DEF RecordReload, Disks
    <3> QED BY <1>1, <1>2, <1>4, <3>1, <3>2
  <2> QED BY <1>4, <2>1, <2>2 DEF Reloaded
<1>5. CASE Stop \/ Terminate
  <2>1. PICK r \in Stops : /\ core' = r.core /\ disk' = [disk EXCEPT !.pid = r.pid]
                           /\ daemon' = r.daemon \/ daemon' = [r.daemon EXCEPT !.up = "exiting"]
    BY <1>5 DEF Stop, StopWith, Terminate
  <2>2. r.daemon \in Daemons /\ ~r.ok /\ r.pid = disk.pid /\ r.daemon.child = daemon.child
        /\ r.daemon.launched = daemon.launched
    BY <1>1, <2>1, StopEffect
  <2>3. daemon'.child = daemon.child /\ daemon'.launched = daemon.launched /\ disk'.pid = disk.pid
    BY <1>1, <2>1, <2>2 DEF Daemons, Disks
  <2> QED BY <1>1, <2>3
<1>6. CASE StartRefused \/ Spawn
  <2>1. CASE daemon.child = None
    <3>1. daemon'.child = None /\ disk' = disk
      BY <1>1, <1>6, <2>1 DEF StartRefused, Spawn, Alive, Is, Daemons
    <3> QED BY <3>1
  <2>2. CASE daemon.child # None
    <3>1. daemon'.child = daemon.child /\ daemon'.launched = daemon.launched /\ disk' = disk
      BY <1>1, <1>6, <2>2 DEF StartRefused, Spawn, Daemons
    <3> QED BY <1>1, <2>2, <3>1
  <2> QED BY <2>1, <2>2
<1>7. CASE Exit \/ Crash
  <2>1. daemon'.child = None
    BY <1>7 DEF Exit, Crash, Gone, Down
  <2>2. core' # KilledWithDaemon
    BY <1>1 DEF KilledWithDaemon, Dead
  <2> QED BY <1>7, <2>1, <2>2 DEF Exit, Crash, Gone
<1>8. CASE Boot
  BY <1>1, <1>8 DEF Boot, Down, Held
<1>9. CASE UNCHANGED <<daemon, disk>>
  BY <1>1, <1>9
<1>10. CASE Restore
  <2>1. UNCHANGED daemon /\ disk'.pid = disk.pid
    BY <1>1, <1>10 DEF Restore, Disks
  <2> QED BY <1>1, <2>1
<1> QED BY <1>3, <1>4, <1>5, <1>6, <1>7, <1>8, <1>9, <1>10
        DEF Next, Commands, StopCommand, OpStep, Reload, SpawnedExited, SpawnedLate, SpawnedReady,
            Environment, Serves, Exits, Toggles, Reused

LEMMA AloneStep == ASSUME Typed, Staged, Held, Alone, Truthful, Next PROVE Alone'
<1>1. /\ daemon.child \in Cores \cup {None} /\ op.core \in Cores \cup {None} /\ None \notin Cores
      /\ (op.pc = "spawned" <=> op.core # None) /\ (op.pc = "spawned" => op.core \in Cores)
      /\ Counted \subseteq Cores
  BY Fields, CoreAssumption DEF Staged, Counted
<1>2. \A c \in Cores : c \in Counted
        <=> core[c].st \in {"starting", "serving"} /\ core[c].mark \in {"known", "reloaded"}
  BY <1>1 DEF Counted, Is
<1>3. \A c \in Cores : c \in Counted'
        <=> core'[c].st \in {"starting", "serving"} /\ core'[c].mark \in {"known", "reloaded"}
  BY <1>1 DEF Counted, Is
<1>4. (op'.pc = "spawned" <=> op'.core # None) /\ Counted' \subseteq Cores
  BY StagedStep DEF Staged, Counted
<1>5. CASE Spawn
  <2>1. Counted = {}
    BY <1>1, <1>2, <1>5, CoreAssumption DEF Alone, Spawn, Connectable
  <2>2. Counted' = {op'.core}
    BY <1>2, <1>3, <1>4, <1>5, <2>1, SpawnEffect
  <2> QED BY <1>4, <1>5, <2>2, SpawnEffect DEF Alone, Holder, Live, Is
<1>6. CASE SpawnedReady
  <2>1. \A c \in Counted' : c = op.core /\ core'[c].st = "serving"
    <3>1. ASSUME NEW c \in Cores \ {op.core} PROVE c \notin Counted'
      <4>1. core'[c] = core[c] /\ op.pc = "spawned"
        BY <1>6, ReadyEffect DEF SpawnedReady
      <4>2. c \notin Counted
        BY <4>1 DEF Alone, Holder
      <4> QED BY <1>2, <1>3, <4>1, <4>2
    <3>2. op.core \in Cores /\ core'[op.core].st = core[op.core].st
          /\ (core[op.core].st # "serving" => core'[op.core].mark = "misled")
      BY <1>6, ReadyEffect
    <3>3. op.core \in Counted' => core'[op.core].st = "serving"
      BY <1>3, <3>2
    <3> QED BY <1>4, <3>1, <3>3
  <2>2. Tracked' = op.core /\ Listed' = op.core /\ daemon'.child = op.core /\ op'.pc # "spawned"
    <3>1. [core |-> op.core, rev |-> disk.config] # None
      <4>1. op.core \in Cores /\ disk.config \in Revs
        BY <1>1, <1>6, ReadyEffect DEF Staged, SpawnedReady, Typed, OpOK, Ops
      <4> QED BY <4>1, CoreAssumption
    <3> QED BY <1>1, <1>6, <3>1, ReadyEffect DEF Tracked, Listed
  <2> QED BY <2>1, <2>2 DEF Alone, Holder
<1>7. CASE op.pc = "spawned" /\ Moves
  <2>1. UNCHANGED <<daemon, disk, op>> /\ \A c \in Cores : Moved(c)
    BY <1>7, MovesEffect
  <2>2. \A c \in Counted' : c \in Counted /\ (core'[c].st = "starting" => core[c].st = "starting")
    BY <1>2, <1>3, <1>4, <2>1 DEF Moved
  <2>3. daemon'.child = None /\ op'.core = op.core /\ Holder' = Holder
    BY <1>7, <2>1 DEF Held, Holder, Tracked, Listed
  <2> QED BY <1>1, <2>2, <2>3 DEF Alone, Live, Is
<1>8. CASE op.pc = "spawned" /\ ~Moves /\ ~SpawnedReady
  <2>1. Counted' = {}
    <3>1. \A c \in Counted : c = op.core
      BY <1>8 DEF Alone, Holder
    <3> QED BY <1>1, <1>2, <1>3, <1>4, <1>8, <3>1, Dropped
  <2> QED BY <1>8, <2>1, Dropped DEF Alone, Live, Is
<1>9. CASE op.pc # "spawned" /\ ~Spawn
  <2>1. ~SpawnedReady /\ op'.pc # "spawned" /\ op.core = None
    BY <1>1, <1>9, SpawnedEffect DEF SpawnedReady
  <2>2. ASSUME NEW c \in Cores, c = Tracked, core[c].st \in {"starting", "serving"},
               core'[c].st \in {"starting", "serving"}
        PROVE  Tracked' = c
    <3>1. \/ /\ daemon.child = c /\ daemon'.child = c
             /\ \/ disk'.pid = disk.pid /\ daemon'.launched = daemon.launched
                \/ /\ Reloaded /\ disk'.pid = [core |-> c, rev |-> op.rev]
                   /\ daemon'.launched = op.rev
          \/ daemon'.child = None /\ disk'.pid = disk.pid
      BY <1>9, <2>1, <2>2, TrackEffect
    <3>2. daemon.child = c => Listed = c
      BY <1>1, <2>2 DEF Alone, Live, Is
    <3> QED BY <1>1, <2>2, <3>1, <3>2 DEF Tracked, Listed
  <2>3. ASSUME NEW c \in Counted'
        PROVE  c = Holder' /\ core'[c].st # "starting"
    <3>1. /\ c \in Cores /\ core'[c].st \in {"starting", "serving"} /\ core[c].st \in {"starting", "serving"}
          /\ core'[c].st = "starting" => core[c].st = "starting"
      BY <1>3, <1>4, <1>9, <2>3, NoRevival
    <3>2. \/ c \in Counted
          \/ Reload /\ c = daemon.child /\ core'[c].st = "serving"
          \/ Reloaded /\ c = daemon.child
      BY <1>2, <1>3, <1>4, <1>9, <2>1, <2>3, <3>1, NoRevival
    <3>3. Reloaded /\ c = daemon.child => c \in Counted
      BY <1>1, <1>2, <3>1 DEF Truthful, Reloaded, IsCore, Is
    <3>4. c = Tracked
      BY <1>1, <1>9, <3>1, <3>2, <3>3 DEF Alone, Holder, Tracked
    <3>5. core'[c].st # "starting"
      BY <1>1, <2>1, <3>1, <3>2, <3>3 DEF Alone
    <3> QED BY <2>1, <2>2, <3>1, <3>4, <3>5 DEF Holder
  <2>4. ASSUME daemon'.child # None, core'[daemon'.child].st \in {"starting", "serving"}
        PROVE  Listed' = daemon'.child
    <3>1. daemon'.child = daemon.child /\ daemon.child \in Cores
      BY <1>1, <2>1, <2>4, ChildEffect
    <3>2. core[daemon.child].st \in {"starting", "serving"}
      BY <1>9, <2>4, <3>1, NoRevival
    <3>3. Listed = daemon.child /\ daemon.child = Tracked
      BY <1>1, <3>1, <3>2 DEF Alone, Live, Is, Tracked
    <3>4. \/ disk'.pid = disk.pid
          \/ Reloaded /\ disk'.pid = [core |-> daemon.child, rev |-> op.rev]
      BY <1>9, <2>1, <2>4, <3>1, <3>2, <3>3, TrackEffect
    <3>5. Reloaded => [core |-> daemon.child, rev |-> op.rev] # None
      <4>1. Reloaded => op.rev \in Revs
        BY DEF Reloaded, Staged
      <4> QED BY <3>1, <4>1, CoreAssumption
    <3> QED BY <3>1, <3>3, <3>4, <3>5 DEF Listed
  <2> QED BY <2>1, <2>3, <2>4 DEF Alone, Live, Is
<1> QED BY <1>5, <1>6, <1>7, <1>8, <1>9

(***************************************************************************)
(* What the daemon says of the Core it tracks                              *)
(***************************************************************************)
\* Without a child, a daemon that says a Core runs has it from the PID file.
LEMMA OrphanStep ==
  ASSUME Typed, Staged, Held, Truthful, Next, ~SpawnedReady,
         daemon'.child = None, daemon'.running
  PROVE  disk'.pid # None /\ daemon'.launched = disk'.pid.rev
<1>1. /\ op \in Ops /\ daemon \in Daemons /\ disk \in Disks /\ Reaped \in Daemons
  BY ReapedEffect DEF Typed, OpOK, DaemonOK, DiskOK
<1>2. Reaped.child = None /\ Reaped.running
        => Reaped.launched = disk.pid.rev /\ ReapedPid = disk.pid /\ disk.pid # None /\ daemon.child = None
  BY ReapedEffect
<1>3. daemon.child = None /\ daemon.running => disk.pid # None /\ daemon.launched = disk.pid.rev
  BY DEF Truthful
<1>4. CASE (\E r \in Revs, hot \in BOOLEAN : Promote(r, hot)) \/ PromoteRefused \/ Observe \/ Check
  <2>1. daemon' = Reaped /\ disk'.pid = ReapedPid
    BY <1>1, <1>4 DEF Promote, PromoteRefused, Observe, Check, Disks
  <2> QED BY <1>2, <2>1
<1>5. CASE Reloaded
  <2>1. CASE UNCHANGED <<daemon, disk>>
    BY <1>3, <2>1
  <2>2. CASE RecordReload
    <3>1. Reaped.child = None /\ Reaped.running
      BY <1>1, <2>2 DEF RecordReload, Daemons
    <3>2. disk.pid = None
      BY <1>2, <1>5, <3>1 DEF Truthful, Reloaded
    <3> QED BY <1>2, <3>1, <3>2
  <2> QED BY <1>5, <2>1, <2>2 DEF Reloaded
<1>6. CASE Stop \/ Terminate
  <2>1. PICK r \in Stops : /\ disk' = [disk EXCEPT !.pid = r.pid]
                           /\ daemon' = r.daemon \/ daemon' = [r.daemon EXCEPT !.up = "exiting"]
    BY <1>6 DEF Stop, StopWith, Terminate
  <2>2. r.daemon \in Daemons
    BY StopEffect
  <2>3. /\ disk'.pid = r.pid /\ r.daemon.child = None /\ r.daemon.running
        /\ daemon'.launched = r.daemon.launched
    BY <1>1, <2>1, <2>2 DEF Daemons, Disks
  <2>4. ~r.ok /\ daemon.child = None /\ r.daemon = daemon /\ r.pid = disk.pid
    BY <2>3, StopEffect
  <2> QED BY <1>3, <2>3, <2>4
<1>7. CASE StartRefused
  <2>1. daemon'.running => daemon'.child = daemon.child /\ Alive(daemon.child)
    BY <1>1, <1>7 DEF StartRefused, Daemons
  <2> QED BY <2>1 DEF Alive, Is
<1>8. CASE Spawn \/ SpawnedExited \/ SpawnedLate
  BY <1>1, <1>8 DEF Spawn, SpawnedExited, SpawnedLate, NoneStarted, Daemons
<1>9. CASE Exit \/ Crash
  BY <1>9 DEF Exit, Crash, Gone, Down
<1>10. CASE Boot
  <2>1. CASE IsCore(Listed)
    BY <1>10, <2>1, CoreAssumption DEF Boot, Down, IsCore, Is, Listed
  <2> QED BY <1>10, <2>1 DEF Boot, Down
<1>11. CASE UNCHANGED <<daemon, disk>>
  BY <1>3, <1>11
<1>12. CASE Restore
  <2>1. UNCHANGED daemon /\ disk'.pid = disk.pid
    BY <1>1, <1>12 DEF Restore, Disks
  <2> QED BY <1>3, <2>1
<1> QED BY <1>4, <1>5, <1>6, <1>7, <1>8, <1>9, <1>10, <1>11, <1>12
        DEF Next, Commands, StopCommand, OpStep, Reload, Environment, Serves, Exits, Toggles, Reused

\* Between a reload and its record, the child is the Core that was reloaded, and
\* a child that is gone has left the PID file with it.
LEMMA ReloadingStep ==
  ASSUME Typed, Staged, Held, Truthful, Next, op'.pc \in {"reload", "reloaded"}
  PROVE  /\ daemon'.child = None => disk'.pid = None
         /\ op'.pc = "reloaded" /\ daemon'.child # None
              /\ core'[daemon'.child].st \in {"starting", "serving", "closing"}
              => core'[daemon'.child].rev = op'.rev /\ core'[daemon'.child].mark = "reloaded"
<1>1. /\ op \in Ops /\ daemon \in Daemons /\ disk \in Disks /\ Reaped \in Daemons
      /\ daemon.child \in Cores \cup {None} /\ None \notin Cores
  BY ReapedEffect, Fields, CoreAssumption DEF Typed, OpOK, DaemonOK, DiskOK
<1>2. ASSUME NEW r \in Revs, NEW hot \in BOOLEAN, Promote(r, hot)
      PROVE  op'.pc = "reload" /\ daemon'.child # None
  BY <1>2 DEF Promote, Idle
<1>3. CASE Reload
  <2>1. op.pc = "reload" /\ UNCHANGED <<daemon, disk>>
    BY <1>3 DEF Reload
  <2>2. daemon.child = None => disk.pid = None
    BY <2>1 DEF Truthful
  <2> QED BY <1>3, <2>1, <2>2, ReloadEffect
<1>4. CASE op' = op /\ (Moves \/ Observe \/ Terminate)
  <2>1. /\ daemon.child = None => disk.pid = None
        /\ op.pc = "reloaded" /\ daemon.child # None
             /\ core[daemon.child].st \in {"starting", "serving", "closing"}
             => core[daemon.child].rev = op.rev /\ core[daemon.child].mark = "reloaded"
    BY <1>4 DEF Truthful, IsCore, Is
  <2>2. CASE Moves
    <3>1. UNCHANGED <<daemon, disk, op>> /\ \A c \in Cores : Moved(c)
      BY <2>2, MovesEffect
    <3> QED BY <1>1, <2>1, <3>1 DEF Moved
  <2>3. CASE Observe
    <3>1. daemon' = Reaped /\ disk'.pid = ReapedPid /\ UNCHANGED core
      BY <1>1, <2>3 DEF Observe, Disks
    <3>2. daemon.child = None => ~Alive(Listed)
      BY <2>1 DEF Listed, Alive, Is
    <3> QED BY <1>4, <2>1, <3>1, <3>2, ReapedEffect
  <2>4. CASE Terminate
    <3>1. PICK r \in Stops : /\ core' = r.core /\ disk' = [disk EXCEPT !.pid = r.pid]
                             /\ daemon' = [r.daemon EXCEPT !.up = "exiting"]
      BY <2>4 DEF Terminate
    <3>2. daemon'.child = r.daemon.child /\ disk'.pid = r.pid
      BY <1>1, <3>1, StopEffect DEF Daemons, Disks
    <3>3. CASE r.ok
      BY <3>2, <3>3, StopEffect
    <3>4. CASE ~r.ok
      BY <1>4, <2>1, <3>1, <3>2, <3>4, StopEffect
    <3> QED BY <3>3, <3>4
  <2> QED BY <1>4, <2>2, <2>3, <2>4
<1>5. ~Answered
  BY AnsweredStaged
<1>6. ~(StopCommand \/ PromoteRefused \/ Exit \/ Crash)
  BY <1>5 DEF StopCommand, PromoteRefused, Exit, Crash, Gone, Answered, Replies, Idle
<1>7. ~(Reloaded \/ Check)
  <2>1. Reloaded \/ Check => op' = [op EXCEPT !.pc = "restore"] \/ Answered
    BY DEF Reloaded, Check, Answered, Replies
  <2> QED BY <1>1, <1>5, <2>1 DEF Ops
<1>8. ~(Stop \/ Restore)
  <2>1. Stop \/ Restore => \/ op' = [op EXCEPT !.pc = "start"] \/ Answered
                           \/ op' = [op EXCEPT !.pc = "stop", !.leg = "rollback"]
    BY DEF Stop, Restore, Answered, Replies
  <2> QED BY <1>1, <1>5, <2>1 DEF Ops
<1>9. ~(StartRefused \/ SpawnedExited \/ SpawnedLate)
  <2>1. StartRefused \/ SpawnedExited \/ SpawnedLate
          => \/ op' = [op EXCEPT !.pc = "restore", !.core = None]
             \/ op' = [op EXCEPT !.pc = "start", !.core = None] \/ Answered
    BY DEF StartRefused, SpawnedExited, SpawnedLate, FailedOrRetried, StartFails, Answered, Replies
  <2> QED BY <1>1, <1>5, <2>1 DEF Ops
<1>10. ~Spawn
  BY SpawnEffect
<1>11. ~SpawnedReady
  <2>1. SpawnedReady /\ op.leg = "apply" => op' = [op EXCEPT !.pc = "check", !.core = None]
    BY DEF SpawnedReady
  <2>2. SpawnedReady /\ op.leg \in {"rollback", "boot"} => Answered
    BY DEF SpawnedReady, Answered, Replies
  <2>3. SpawnedReady => op.leg \in {"apply", "rollback", "boot"}
    BY <1>1 DEF SpawnedReady, Staged, Ops
  <2> QED BY <1>1, <1>5, <2>1, <2>2, <2>3 DEF Ops
<1>12. ~Boot
  BY <1>1 DEF Boot, Held, Ops
<1>13. Moves \/ Observe \/ Terminate => op' = op
  BY MovesEffect DEF Observe, Terminate
<1> QED BY <1>2, <1>3, <1>4, <1>6, <1>7, <1>8, <1>9, <1>10, <1>11, <1>12, <1>13
        DEF Next, Commands, OpStep, Environment, Moves

\* The PID file names a Core once it has answered or been reloaded.
LEMMA PidEffect ==
  ASSUME Typed, Next, ~SpawnedReady, disk'.pid \notin {disk.pid, None}
  PROVE  /\ Reloaded /\ daemon.child # None /\ Alive(daemon.child)
         /\ disk'.pid = [core |-> daemon.child, rev |-> op.rev] /\ daemon'.launched = op.rev
<1>1. /\ daemon \in Daemons /\ disk \in Disks /\ Reaped \in Daemons
      /\ ReapedPid \in {disk.pid, None}
      /\ Reaped.child # None
           => Reaped.child = daemon.child /\ daemon.child # None /\ Alive(daemon.child)
  BY ReapedEffect DEF Typed, DaemonOK, DiskOK
<1>2. CASE (\E r \in Revs, hot \in BOOLEAN : Promote(r, hot)) \/ PromoteRefused \/ Observe \/ Check
  BY <1>1, <1>2 DEF Promote, PromoteRefused, Observe, Check, Disks
<1>3. CASE Reloaded
  <2>1. RecordReload
    BY <1>1, <1>3 DEF Reloaded
  <2>2. /\ daemon'.launched = op.rev
        /\ disk'.pid = IF Reaped.child # None THEN [core |-> Reaped.child, rev |-> op.rev]
                                             ELSE ReapedPid
    BY <1>1, <2>1 DEF RecordReload, Daemons, Disks
  <2> QED BY <1>1, <1>3, <2>2
<1>4. CASE Stop \/ Terminate
  BY <1>1, <1>4, StopEffect DEF Stop, StopWith, Terminate, Disks
<1>5. CASE SpawnedExited \/ SpawnedLate
  BY <1>1, <1>5 DEF SpawnedExited, SpawnedLate, NoneStarted, Disks
<1>6. CASE Exit \/ Crash \/ Boot \/ Restore
  BY <1>1, <1>6 DEF Exit, Crash, Gone, Boot, Restore, Disks
<1>7. CASE UNCHANGED disk
  BY <1>7
<1> QED BY <1>2, <1>3, <1>4, <1>5, <1>6, <1>7
        DEF Next, Commands, StopCommand, OpStep, Reload, StartRefused, Spawn, Environment,
            Serves, Exits, Toggles, Reused

\* What the PID file says of a Core that is not the one just spawned.
LEMMA ListedStep ==
  ASSUME Typed, Staged, Held, Alone, Truthful, Next, NEW c \in Cores,
         c = Listed', c # op'.core,
         core'[c].st \in {"starting", "serving"}, core'[c].mark \in {"known", "misled"}
  PROVE  disk'.pid.rev = core'[c].rev
<1>1. /\ daemon.child \in Cores \cup {None} /\ None \notin Cores
      /\ op.pc = "spawned" => op.core \in Cores
      /\ disk'.pid # None /\ c = disk'.pid.core
  BY Fields, CoreAssumption DEF Staged, Listed
<1>2. CASE SpawnedReady
  <2>1. c = op.core
    BY <1>1, <1>2, ReadyEffect
  <2>2. core[op.core].rev = disk.config
    BY <1>2 DEF Held, SpawnedReady
  <2> QED BY <1>2, <2>1, <2>2, ReadyEffect
<1>3. CASE Spawn
  <2>1. c = Listed /\ core'[c] = core[c] /\ disk' = disk /\ op.pc = "start"
    BY <1>3, SpawnEffect DEF Listed, Spawn
  <2>2. c # op.core
    BY <1>1, <2>1 DEF Staged
  <2> QED BY <1>1, <2>1, <2>2 DEF Truthful, Kept, Live, Is
<1>4. CASE ~SpawnedReady /\ ~Spawn
  <2>1. core[c].st \in {"starting", "serving"} /\ core'[c].rev = core[c].rev
    BY <1>4, NoRevival
  <2>2. CASE Reloaded /\ disk'.pid = [core |-> daemon.child, rev |-> op.rev]
    BY <1>1, <2>1, <2>2 DEF Truthful, Reloaded, IsCore, Is
  <2>3. CASE disk'.pid = disk.pid /\ ~(Reloaded /\ disk'.pid = [core |-> daemon.child, rev |-> op.rev])
    <3>1. c = Listed
      BY <1>1, <2>3 DEF Listed
    <3>2. core[c].mark = core'[c].mark
      <4>1. CASE Reloaded /\ c = daemon.child
        <5>1. Alive(daemon.child)
          BY <1>1, <2>1, <4>1 DEF Alive, Is
        <5>2. ~RecordReload
          BY <1>1, <2>3, <4>1, <5>1, ReapedEffect DEF RecordReload, Typed, DiskOK, Disks
        <5> QED BY <4>1, <5>2 DEF Reloaded
      <4> QED BY <1>4, <4>1, NoRevival
    <3>3. c # op.core
      <4>1. CASE Moves
        BY <4>1, MovesEffect
      <4>2. CASE ~Moves /\ op.pc = "spawned"
        BY <1>4, <4>2, Dropped
      <4> QED BY <1>1, <4>1, <4>2 DEF Staged
    <3> QED BY <1>1, <2>1, <2>3, <3>1, <3>2, <3>3 DEF Truthful, Kept, Live, Is
  <2> QED BY <1>1, <1>4, <2>2, <2>3, PidEffect
<1> QED BY <1>2, <1>3, <1>4

\* What the daemon says of its child.
LEMMA ChildStep ==
  ASSUME Typed, Staged, Held, Alone, Truthful, Next, NEW c \in Cores, c = daemon'.child,
         core'[c].st \in {"starting", "serving"}, core'[c].mark \in {"known", "misled"}
  PROVE  daemon'.launched = core'[c].rev
<1>1. daemon.child \in Cores \cup {None} /\ None \notin Cores
  BY Fields, CoreAssumption
<1>2. CASE SpawnedReady
  <2>1. core[op.core].rev = disk.config
    BY <1>2 DEF Held, SpawnedReady
  <2> QED BY <1>2, <2>1, ReadyEffect
<1>3. CASE ~SpawnedReady
  <2>1. c = daemon.child /\ ~Spawn
    BY <1>1, <1>3, ChildEffect, SpawnEffect
  <2>2. core[c].st \in {"starting", "serving"} /\ core'[c].rev = core[c].rev
    BY <1>3, <2>1, NoRevival
  <2>3. c = Tracked /\ op.pc # "spawned"
    BY <1>1, <2>1 DEF Tracked, Held
  <2>4. \/ daemon'.launched = daemon.launched
        \/ Reloaded /\ daemon'.launched = op.rev
    BY <1>1, <1>3, <2>1, <2>2, <2>3, TrackEffect
  <2>5. CASE Reloaded /\ daemon'.launched = op.rev
    BY <1>1, <2>1, <2>2, <2>5 DEF Truthful, Reloaded, IsCore, Is
  <2>6. CASE daemon'.launched = daemon.launched /\ core[c].mark = core'[c].mark
    BY <1>1, <2>1, <2>2, <2>6 DEF Truthful, Kept, Live, Is
  <2>7. CASE daemon'.launched = daemon.launched /\ Reloaded /\ core[c].mark # core'[c].mark
    <3>1. RecordReload
      BY <2>7 DEF Reloaded
    <3>2. daemon'.launched = op.rev
      BY ReapedEffect, <3>1 DEF RecordReload, Daemons
    <3> QED BY <2>5, <2>7, <3>2
  <2> QED BY <1>3, <2>1, <2>4, <2>5, <2>6, <2>7, NoRevival
<1> QED BY <1>2, <1>3

LEMMA TruthfulStep == ASSUME Typed, Staged, Held, Alone, Truthful, Next PROVE Truthful'
<1>1. /\ Listed' \in Cores \cup {None} /\ daemon'.child \in Cores \cup {None} /\ None \notin Cores
  BY DiskTyped, DaemonTyped, CoreAssumption DEF DiskOK, Disks, PidRecord, Listed, DaemonOK, Daemons
<1>2. Kept(Listed)' /\ Listed' # op'.core => disk'.pid.rev = core'[Listed'].rev
  BY <1>1, ListedStep DEF Kept, Live, Is
<1>3. Kept(daemon.child)' => daemon'.launched = core'[daemon'.child].rev
  BY <1>1, ChildStep DEF Kept, Live, Is
<1>4. daemon'.child = None /\ daemon'.running
        => disk'.pid # None /\ daemon'.launched = disk'.pid.rev
  <2>1. SpawnedReady => daemon'.child # None
    BY ReadyEffect, CoreAssumption
  <2> QED BY <2>1, OrphanStep
<1>5. op'.pc \in {"reload", "reloaded"} /\ daemon'.child = None => disk'.pid = None
  BY ReloadingStep
<1>6. op'.pc = "reloaded" /\ IsCore(daemon.child)'
        => core'[daemon'.child].rev = op'.rev /\ core'[daemon'.child].mark = "reloaded"
  BY ReloadingStep DEF IsCore, Is
<1> QED BY <1>2, <1>3, <1>4, <1>5, <1>6 DEF Truthful

(***************************************************************************)
(* The theorems                                                            *)
(***************************************************************************)
LEMMA InvInit == Init => Inv
<1> SUFFICES ASSUME Init PROVE Inv
  OBVIOUS
<1>1. /\ daemon = [Down EXCEPT !.up = "up"] /\ op = Idle("none")
      /\ core = [c \in Cores |-> Dead] /\ count = [requests |-> 0, faults |-> 0]
      /\ disk \in [config : Revs \cup {NoFile}, tun : BOOLEAN, pid : {None}]
  BY DEF Init
<1>2. /\ daemon \in Daemons /\ daemon.child = None /\ ~daemon.running /\ daemon.up = "up"
  BY <1>1 DEF Down, Daemons
<1>3. /\ op \in Ops /\ op.core = None /\ op.pc = "idle" /\ op.leg = "none" /\ op.wasOn = FALSE
  BY <1>1, IdleTyped DEF Idle, Replies
<1>4. disk \in Disks /\ disk.pid = None /\ count \in Counts
  BY <1>1, BoundsAssumption DEF Disks, Counts
<1>5. CoreOK /\ \A c \in Cores : core[c].st = "dead"
  BY <1>1 DEF CoreOK, Dead, Process, States
<1>6. Typed /\ Staged /\ Held
  BY <1>2, <1>3, <1>4, <1>5 DEF Typed, DaemonOK, OpOK, DiskOK, CountOK, Staged, Held
<1>7. Alone /\ Truthful
  BY <1>2, <1>3, <1>4, <1>5, CoreAssumption
     DEF Alone, Truthful, Counted, Live, Kept, Listed, IsCore, Is
<1> QED BY <1>6, <1>7 DEF Inv

LEMMA InvStep == Inv /\ [Next]_vars => Inv'
<1> SUFFICES ASSUME Inv, [Next]_vars PROVE Inv'
  OBVIOUS
<1>1. Typed /\ Staged /\ Held /\ Alone /\ Truthful
  BY DEF Inv
<1>2. CASE Next
  <2>1. Typed'
    BY <1>1, <1>2, CoreTyped, DaemonTyped, DiskTyped, OpTyped, CountTyped DEF Typed
  <2> QED BY <1>1, <1>2, <2>1, StagedStep, HeldStep, AloneStep, TruthfulStep DEF Inv
<1>3. CASE UNCHANGED vars
  BY <1>1, <1>3 DEF vars, Inv, Typed, CoreOK, DaemonOK, DiskOK, OpOK, CountOK, Staged, Held, Alone,
     Truthful, Counted, Holder, Tracked, Listed, Live, Kept, IsCore, Is
<1> QED BY <1>2, <1>3

LEMMA AlwaysInv == Spec => []Inv
BY InvInit, InvStep, PTL DEF Spec

\* Every reachable state of the daemon and its processes has its type.
THEOREM LifecycleTypeCorrect == Spec => []TypeOK
<1>1. Inv => TypeOK
  BY TypedIsTypeOK DEF Inv
<1> QED BY AlwaysInv, <1>1, PTL

\* Two Cores never run side by side, however many requests, faults and restarts
\* of the daemon there were (start_core, settle_stop, run_daemon).
THEOREM OneCoreRuns == Spec => []OneCore
<1>1. Inv => OneCore
  <2> SUFFICES ASSUME Inv PROVE Cardinality(Counted) <= 1
    BY DEF OneCore
  <2>1. Counted \subseteq {Holder}
    BY DEF Inv, Alone
  <2>2. IsFiniteSet({Holder}) /\ Cardinality({Holder}) = 1
    BY FS_Singleton
  <2>3. Cardinality(Counted) <= Cardinality({Holder}) /\ Cardinality(Counted) \in Nat
    BY <2>1, <2>2, FS_Subset, FS_CardinalityType
  <2> QED BY <2>2, <2>3
<1> QED BY AlwaysInv, <1>1, PTL

\* The revision the daemon reports is the one the Core it tracks has loaded
\* (launched_config_revision, write_pid_file, reap_exited_core).
THEOREM LaunchedRevision == Spec => []LaunchedHonest
<1>1. Inv => LaunchedHonest
  <2> SUFFICES ASSUME Inv, Tracked # None, daemon.running, core[Tracked].st = "serving",
                      core[Tracked].mark \in {"known", "misled"}
               PROVE  daemon.launched = core[Tracked].rev
    BY DEF LaunchedHonest
  <2>1. Truthful /\ Staged /\ Held
    BY DEF Inv
  <2>2. CASE daemon.child # None
    BY <2>1, <2>2 DEF Tracked, Truthful, Kept, Live, Is
  <2>3. CASE daemon.child = None
    <3>1. Tracked = Listed /\ Listed # op.core
      BY <2>1, <2>3 DEF Tracked, Held, Staged
    <3> QED BY <2>1, <2>3, <3>1 DEF Truthful, Kept, Live, Is
  <2> QED BY <2>2, <2>3
<1> QED BY AlwaysInv, <1>1, PTL

\* A program that only got the id of an old Core is never touched
\* (stop_core_with_proof_timeout).
THEOREM StrangersAreSafe == Spec => StrangersSafe
<1>1. Inv /\ [Next]_vars => [\A c \in Cores : Is(c, {"stranger"}) /\ core'[c] # core[c]
                               => UNCHANGED <<daemon, disk, op>>]_vars
  <2> SUFFICES ASSUME Inv, Next, NEW c \in Cores, core[c].st = "stranger", core'[c] # core[c]
               PROVE  UNCHANGED <<daemon, disk, op>>
    BY DEF Is
  <2>1. Typed /\ Staged /\ (daemon.child # None => core[daemon.child].st # "stranger")
        /\ None \notin Cores
    BY CoreAssumption DEF Inv, Held
  <2>2. CASE Moves
    BY <2>1, <2>2, MovesEffect
  <2>3. CASE Reload \/ Reloaded
    BY <2>1, <2>3, ReloadEffect, ReloadedEffect
  <2>4. CASE Spawn
    BY <2>1, <2>4, SpawnEffect DEF Dead
  <2>5. CASE SpawnedReady
    BY <2>1, <2>5, ReadyEffect DEF SpawnedReady, IsCore, Is
  <2>6. CASE ~Moves /\ ~Reload /\ ~Reloaded /\ ~Spawn /\ ~SpawnedReady
    <3>1. Handled(c)
      BY <2>1, <2>6, HandledEffect
    <3> QED BY <2>1, <3>1 DEF Handled, IsCore, Is
  <2> QED BY <2>2, <2>3, <2>4, <2>5, <2>6
<1> QED BY AlwaysInv, <1>1, PTL DEF Spec, StrangersSafe

\* A step other than the answer of the Core started says nothing of a rollback.
LEMMA SilentSteps ==
  ASSUME Typed, Staged, Held, Next, op.pc = "spawned", ~SpawnedReady
  PROVE  op'.reply # "rolled back"
<1>1. op \in Ops /\ op.reply = "none"
  BY DEF Typed, OpOK, Staged
<1>2. CASE Moves
  BY <1>1, <1>2, MovesEffect
<1>3. CASE SpawnedExited \/ SpawnedLate
  <2>1. \/ op' = [op EXCEPT !.pc = "restore", !.core = None]
        \/ op' = [op EXCEPT !.pc = "start", !.core = None] \/ op' = Idle("error")
    BY <1>3 DEF SpawnedExited, SpawnedLate, FailedOrRetried, StartFails
  <2>2. Idle("error").reply # "rolled back"
    BY DEF Idle
  <2> QED BY <1>1, <2>1, <2>2 DEF Ops
<1>4. CASE Exit \/ Crash
  <2>1. op' = Idle("none")
    BY <1>4 DEF Exit, Crash, Gone
  <2> QED BY <2>1 DEF Idle
<1> QED BY <1>1, <1>2, <1>3, <1>4
        DEF Next, Commands, StopCommand, Promote, PromoteRefused, OpStep, Reload, Reloaded, Stop,
            StartRefused, Spawn, Check, Restore, Environment, Observe, Terminate, Unlocked, Boot,
            Held, Moves

\* A promotion that reports a rollback has left the previous configuration in
\* the file and runs a Core started from it (restore_last_known_good).
THEOREM RollbacksRestore == Spec => RolledBackRestores
<1>1. Inv /\ [Next]_vars
        => [op.pc = "spawned" /\ op'.reply = "rolled back"
              => /\ disk'.config = op.backup
                 /\ daemon'.launched = op.backup /\ core'[daemon'.child].rev = op.backup]_vars
  <2> SUFFICES ASSUME Inv, Next, op.pc = "spawned", op'.reply = "rolled back"
               PROVE  /\ disk'.config = op.backup
                      /\ daemon'.launched = op.backup /\ core'[daemon'.child].rev = op.backup
    OBVIOUS
  <2>1. Typed /\ Staged /\ Held /\ op \in Ops
    BY DEF Inv, Typed, OpOK
  <2>2. SpawnedReady
    BY <2>1, SilentSteps
  <2>3. op.leg = "rollback"
    <3>1. CASE op.leg = "apply"
      <4>1. op' = [op EXCEPT !.pc = "check", !.core = None]
        BY <2>2, <3>1 DEF SpawnedReady
      <4> QED BY <2>1, <4>1 DEF Staged, Ops
    <3>2. CASE op.leg = "boot"
      BY <2>2, <3>2 DEF SpawnedReady, Idle
    <3> QED BY <2>1, <3>1, <3>2 DEF Staged, Ops
  <2>4. disk.config = op.backup /\ core[op.core].rev = disk.config
    BY <2>1, <2>2, <2>3 DEF Staged, Held, SpawnedReady
  <2> QED BY <2>1, <2>2, <2>4, ReadyEffect
<1> QED BY AlwaysInv, <1>1, PTL DEF Spec, RolledBackRestores

\* A promotion that reports success without a warning has not taken TUN away
\* from the Core that was running (tun_apply_requires_rollback).
THEOREM TunLossIsTold == Spec => NoSilentTunLoss
<1>1. Inv /\ [Next]_vars
        => [op.pc \in {"reloaded", "check"} /\ op'.reply = "ok" /\ op.wasOn
              => daemon'.child # None /\ core'[daemon'.child].tun]_vars
  <2> SUFFICES ASSUME Inv, Next, op.pc \in {"reloaded", "check"}, op'.reply = "ok", op.wasOn
               PROVE  daemon'.child # None /\ core'[daemon'.child].tun
    OBVIOUS
  <2>1. /\ Typed /\ Staged /\ Held /\ op \in Ops /\ core \in [Cores -> Process]
        /\ op.had /\ op.before \in {"on", "unknown"} /\ op.reply = "none"
        /\ Reaped \in Daemons /\ disk \in Disks
    BY ReapedEffect DEF Inv, Typed, OpOK, CoreOK, DiskOK, Staged
  <2>2. \A c : "on" \in Readings(c) => c # None /\ core[c].st = "serving" /\ core[c].tun
    BY DEF Readings, Is
  <2>3. CASE Reloaded
    <3>1. PICK after \in Readings(daemon.child) :
            \/ op' = [op EXCEPT !.pc = "restore"]
            \/ /\ ~RequiresRollback(op.before, after) /\ RecordReload
               /\ core' = [c \in Cores |-> IF c = daemon.child
                             THEN [core[c] EXCEPT !.mark = "known"] ELSE core[c]]
               /\ op' = Idle(IF op.before = "unknown" THEN "warned" ELSE "ok")
      BY <2>3 DEF Reloaded
    <3>2. op' # [op EXCEPT !.pc = "restore"]
      BY <2>1 DEF Ops
    <3>3. op.before = "on"
      BY <2>1, <3>1, <3>2 DEF Idle
    <3>4. daemon.child # None /\ core[daemon.child].st = "serving" /\ core[daemon.child].tun
      BY <2>2, <3>1, <3>2, <3>3 DEF RequiresRollback
    <3>5. daemon'.child = daemon.child
      BY <2>1, <3>1, <3>2, <3>4, ReapedEffect DEF RecordReload, Daemons, Alive, Is
    <3>6. daemon.child \in Cores
      BY <2>1, <3>4, Fields
    <3>7. core'[daemon.child] = [core[daemon.child] EXCEPT !.mark = "known"]
          /\ core[daemon.child] \in Process
      BY <2>1, <3>1, <3>2, <3>6
    <3> QED BY <3>4, <3>5, <3>7 DEF Process
  <2>4. CASE Check
    <3>1. PICK after \in Readings(Reaped.child) :
            op' = IF \/ Reaped.launched # op.rev
                     \/ disk.tun /\ after # "on"
                     \/ RequiresRollback(op.before, after)
                  THEN [op EXCEPT !.pc = "restore"]
                  ELSE Idle(IF ~disk.tun /\ op.had /\ op.before = "unknown" THEN "warned" ELSE "ok")
      BY <2>4 DEF Check
    <3>2. op' # [op EXCEPT !.pc = "restore"]
      <4>1. [op EXCEPT !.pc = "restore"].reply = op.reply
        BY <2>1 DEF Ops
      <4> QED BY <2>1, <4>1
    <3>3. /\ ~(disk.tun /\ after # "on") /\ ~RequiresRollback(op.before, after)
          /\ op' = Idle(IF ~disk.tun /\ op.had /\ op.before = "unknown" THEN "warned" ELSE "ok")
      BY <3>1, <3>2
    <3>4. disk.tun \/ op.before # "unknown"
      BY <2>1, <3>3 DEF Idle
    <3>5. after = "on"
      BY <2>1, <3>3, <3>4 DEF RequiresRollback
    <3> QED BY <2>2, <2>4, <3>1, <3>5 DEF Check
  <2>5. CASE op' = op
    BY <2>1, <2>5
  <2>6. CASE Exit \/ Crash
    BY <2>6 DEF Exit, Crash, Gone, Idle
  <2>7. Moves \/ Observe \/ Terminate => op' = op
    BY <2>1, MovesEffect DEF Observe, Terminate
  <2> QED BY <2>1, <2>3, <2>4, <2>5, <2>6, <2>7
          DEF Next, Commands, StopCommand, Promote, PromoteRefused, OpStep, Reload, Stop,
              StartRefused, Spawn, SpawnedExited, SpawnedLate, SpawnedReady, Restore, Environment,
              Boot, Held, Moves
<1> QED BY AlwaysInv, <1>1, PTL DEF Spec, NoSilentTunLoss

(***************************************************************************)
(* The database of the Core (CacheDb): what holds of it for any number of  *)
(* commands at a time, of artifacts kept and of faults.  The invariant has *)
(* the types, what a command can have seen, the order of the names, what   *)
(* the daemon's gate has seen, and the evidence that a command without the *)
(* gate leaves behind.  Its state is beside that of the modules above, its *)
(* promises are those of EvidencePromises.                                 *)
(***************************************************************************)
CONSTANTS Procs, Again, Keep, MaxCommands, MaxClock
VARIABLES perm, partials, clock, cacheCore, queue, cli, host

C == INSTANCE CacheDb WITH core <- cacheCore

CacheConstants == Keep \in Nat \ {0} /\ Again \in Procs /\ MaxClock \in Nat

\* Types, for contents and names that were there by now.
Stamps == Nat \X Nat
Labels == [at : Stamps, of : Nat]
Errands == [op : {"none", "start", "restart"}, yes : BOOLEAN, at : C!Ats,
             second : BOOLEAN, name : Labels, seen : Nat]
Jobs == [client : Procs \cup {C!Nobody}, at : {"idle", "gate", "move", "prune", "spawn"},
         again : BOOLEAN, name : Labels, seen : Nat]
Artifacts == [name : Stamps, id : Nat]
Hists == [published : Seq(Stamps), count : Nat, disordered : BOOLEAN,
          commands : Nat, faults : Nat, last : Nat]

Bad == file.kind \in {"short", "invalid"}

FileTyped == file \in C!Databases /\ file.id <= hist.last /\ (Bad => file.id > C!Unread)
PermTyped == perm \in [C!Assets -> C!Verdicts] /\ perm["cache"] # "unsafe"
HeldTyped ==
  /\ artifacts \subseteq Artifacts
  /\ \A a \in artifacts : a.id <= hist.last
  /\ \E b \in Nat : \A a \in artifacts : a.name[2] <= b
  /\ hist.count = 0 => artifacts = {}
ClockTyped == partials \subseteq Stamps /\ clock \in 0..MaxClock /\ cacheCore \in {"up", "down"}
QueueTyped == queue \in Seq(C!Waiting) /\ \A n \in 1..Len(queue) : queue[n].seen <= hist.last
JobTyped == job \in Jobs /\ job.seen <= hist.last /\ job.name.of <= hist.count
CliTyped ==
  /\ cli \in [Procs -> Errands]
  /\ \A p \in Procs : cli[p].seen <= hist.last /\ cli[p].name.of <= hist.count
HistTyped ==
  /\ hist \in Hists /\ hist.last >= C!Unread
  /\ hist.count = 0 <=> hist.published = <<>>
  /\ Len(hist.published) <= Keep
HostTyped == host \in [linux : BOOLEAN, gate : BOOLEAN]

CbTypes == FileTyped /\ PermTyped /\ HeldTyped /\ ClockTyped /\ QueueTyped /\ JobTyped /\ CliTyped
           /\ HistTyped /\ HostTyped

LEMMA EntryTyped ==
  ASSUME NEW S, NEW s \in Seq(S), NEW n \in 1..Len(s)
  PROVE  s[n] \in S
OBVIOUS

LEMMA CbInitTypes == ASSUME CacheConstants, C!Init PROVE CbTypes
<1>1. <<0, 0>> \in Stamps /\ <<>> \in Seq(Stamps) /\ <<>> \in Seq(C!Waiting)
  BY DEF Stamps
<1>2. C!NoName \in Labels /\ C!Idle \in Errands /\ C!NoJob \in Jobs
  BY <1>1 DEF C!NoName, Labels, C!Idle, Errands, C!NoJob, Jobs, C!Ats, C!Nobody, C!Unread
<1>3. FileTyped /\ PermTyped
  BY DEF C!Init, FileTyped, PermTyped, C!Databases, C!Kinds, C!Sound, C!Unread, Bad, C!Assets, C!Verdicts
<1>4. HeldTyped /\ ClockTyped /\ HostTyped
  BY DEF C!Init, HeldTyped, ClockTyped, HostTyped, CacheConstants
<1>5. QueueTyped /\ JobTyped
  BY <1>1, <1>2 DEF C!Init, QueueTyped, JobTyped, C!NoJob, C!NoName, C!Unread
<1>6. CliTyped
  BY <1>2 DEF C!Init, CliTyped, C!Idle, C!NoName, C!Unread
<1>7. HistTyped
  <2>1. hist = [published |-> <<>>, count |-> 0, disordered |-> FALSE, commands |-> 0, faults |-> 0, last |-> 2]
    BY DEF C!Init, C!Unread
  <2>2. hist \in Hists
    BY <1>1, <2>1 DEF Hists
  <2>3. Len(hist.published) = 0
    BY <2>1
  <2> QED
    BY <2>1, <2>2, <2>3 DEF HistTyped, C!Unread, CacheConstants
<1> QED
  BY <1>3, <1>4, <1>5, <1>6, <1>7 DEF CbTypes

\* What a step does to hist that publishes nothing.
MildHist == /\ hist' \in Hists /\ hist'.last >= hist.last
            /\ hist'.published = hist.published /\ hist'.count = hist.count
            /\ hist'.disordered = hist.disordered

LEMMA CostsMild ==
  ASSUME HistTyped, NEW n \in Nat, C!Costs(n)
  PROVE  MildHist /\ hist'.last = hist.last + n
<1>1. hist \in Hists /\ hist.last \in Nat /\ hist.faults \in Nat
  BY DEF HistTyped, Hists
<1>2. hist' = [hist EXCEPT !.faults = hist.faults + 1, !.last = hist.last + n]
  BY DEF C!Costs
<1>3. hist.faults + 1 \in Nat /\ hist.last + n \in Nat /\ hist.last + n >= hist.last
  BY <1>1
<1>4. hist' \in Hists /\ hist'.last = hist.last + n
  BY <1>1, <1>2, <1>3 DEF Hists
<1>5. hist'.published = hist.published /\ hist'.count = hist.count /\ hist'.disordered = hist.disordered
  BY <1>1, <1>2 DEF Hists
<1> QED
  BY <1>3, <1>4, <1>5 DEF MildHist

LEMMA FaultMild ==
  ASSUME HistTyped, C!Fault
  PROVE  MildHist /\ hist'.last = hist.last
BY DEF HistTyped, Hists, C!Fault, MildHist

LEMMA StillMild ==
  ASSUME HistTyped, UNCHANGED hist
  PROVE  MildHist /\ hist'.last = hist.last
BY DEF HistTyped, Hists, MildHist

LEMMA MildTyped ==
  ASSUME HistTyped, MildHist
  PROVE  /\ HistTyped'
         /\ FileTyped /\ UNCHANGED file => FileTyped'
         /\ HeldTyped /\ UNCHANGED artifacts => HeldTyped'
         /\ QueueTyped /\ UNCHANGED queue => QueueTyped'
         /\ JobTyped /\ UNCHANGED job => JobTyped'
         /\ CliTyped /\ UNCHANGED cli => CliTyped'
<1>1. HistTyped'
  BY DEF HistTyped, MildHist, Hists, C!Unread
<1>2. hist.last \in Nat /\ hist'.last \in Nat /\ hist.last <= hist'.last /\ hist'.count = hist.count
  BY DEF HistTyped, MildHist, Hists
<1>3. FileTyped /\ UNCHANGED file => FileTyped'
  BY <1>2 DEF FileTyped, C!Databases, Bad
<1>4. HeldTyped /\ UNCHANGED artifacts => HeldTyped'
  BY <1>2 DEF HeldTyped, Artifacts
<1>5. QueueTyped /\ UNCHANGED queue => QueueTyped'
  <2>1. ASSUME QueueTyped, UNCHANGED queue, NEW n \in 1..Len(queue) PROVE queue[n].seen \in Nat
    <3>1. queue[n] \in C!Waiting
      BY <2>1, EntryTyped DEF QueueTyped
    <3> QED
      BY <3>1 DEF C!Waiting
  <2> QED
    BY <1>2, <2>1 DEF QueueTyped
<1>6. JobTyped /\ UNCHANGED job => JobTyped'
  BY <1>2 DEF JobTyped, Jobs
<1>7. CliTyped /\ UNCHANGED cli => CliTyped'
  BY <1>2 DEF CliTyped, Errands
<1> QED
  BY <1>1, <1>3, <1>4, <1>5, <1>6, <1>7

\* A command that has judged nothing has seen nothing; one that judges has repaired twice.
Unjudged(p) ==
  /\ ~cli[p].second /\ cli[p].at \in {"repair", "cache", "copy"} => cli[p].seen = C!Unread
  /\ cli[p].at = "judge" => cli[p].second
AllUnjudged == \A p \in Procs : Unjudged(p)

\* A step of a command that stages no name: it forgets what it saw or goes on with it.
Plain(p) ==
  /\ cli' \in [Procs -> Errands] /\ \A q \in Procs : q # p => cli'[q] = cli[q]
  /\ cli'[p].at # "publish"
  /\ cli'[p].name = C!NoName \/ cli'[p].name = cli[p].name
  /\ \/ cli'[p].seen = C!Unread
     \/ cli'[p].seen = cli[p].seen /\ (cli'[p].at = "copy" \/ cli[p].at \notin {"copy", "publish"})
  /\ Unjudged(p)'

LEMMA CacheIdleTyped == C!Idle \in Errands /\ C!NoName \in Labels /\ C!NoJob \in Jobs
<1>1. <<0, 0>> \in Stamps
  BY DEF Stamps
<1> QED
  BY <1>1 DEF C!NoName, Labels, C!Idle, Errands, C!NoJob, Jobs, C!Ats, C!Nobody, C!Unread

LEMMA BecomesPlain ==
  ASSUME CliTyped, NEW p \in Procs, NEW r \in Errands, cli' = [cli EXCEPT ![p] = r],
         r.at # "publish", r.name = C!NoName \/ r.name = cli[p].name,
         \/ r.seen = C!Unread
         \/ r.seen = cli[p].seen /\ (r.at = "copy" \/ cli[p].at \notin {"copy", "publish"}),
         ~r.second /\ r.at \in {"repair", "cache", "copy"} => r.seen = C!Unread,
         r.at = "judge" => r.second
  PROVE  Plain(p)
<1>1. cli' \in [Procs -> Errands] /\ cli'[p] = r /\ \A q \in Procs : q # p => cli'[q] = cli[q]
  BY DEF CliTyped
<1> QED
  BY <1>1 DEF Plain, Unjudged

LEMMA StopsPlain == ASSUME CliTyped, NEW p \in Procs, C!Stops(p) PROVE Plain(p)
BY BecomesPlain, CacheIdleTyped DEF C!Stops, C!Idle

LEMMA GoPlain ==
  ASSUME CliTyped, NEW p \in Procs, NEW l \in C!Ats, C!Go(p, l), l # "publish",
         l = "copy" \/ cli[p].at \notin {"copy", "publish"} \/ cli[p].seen = C!Unread,
         ~cli[p].second /\ l \in {"repair", "cache", "copy"} => cli[p].seen = C!Unread,
         l = "judge" => cli[p].second
  PROVE  Plain(p)
<1> DEFINE r == [cli[p] EXCEPT !.at = l]
<1>1. cli[p] \in Errands
  BY DEF CliTyped
<1>2. r \in Errands /\ r.at = l /\ r.name = cli[p].name /\ r.seen = cli[p].seen /\ r.second = cli[p].second
  BY <1>1 DEF Errands
<1>3. cli' = [cli EXCEPT ![p] = r]
  BY DEF C!Go, CliTyped
<1> HIDE DEF r
<1> QED
  BY <1>2, <1>3, BecomesPlain

LEMMA UncopiedPlain == ASSUME CliTyped, NEW p \in Procs, C!Uncopied(p) PROVE Plain(p)
<1>1. CASE cli[p].second
  BY <1>1, StopsPlain DEF C!Uncopied
<1>2. CASE ~cli[p].second
  <2> DEFINE r == [cli[p] EXCEPT !.at = "mend", !.name = C!NoName, !.seen = C!Unread]
  <2>1. cli[p] \in Errands
    BY DEF CliTyped
  <2>2. r \in Errands /\ r.at = "mend" /\ r.name = C!NoName /\ r.seen = C!Unread
    BY <2>1, CacheIdleTyped DEF Errands, C!Ats, C!Unread
  <2>3. cli' = [cli EXCEPT ![p] = r]
    BY <1>2 DEF C!Uncopied, CliTyped
  <2> HIDE DEF r
  <2> QED
    BY <2>2, <2>3, BecomesPlain
<1> QED
  BY <1>1, <1>2

LEMMA PreparedPlain ==
  ASSUME CliTyped, NEW p \in Procs, C!Prepared(p), cli[p].at \in {"cache", "mend"}
  PROVE  Plain(p)
<1>1. cli[p] \in Errands
  BY DEF CliTyped
<1>2. CASE cli[p].op = "restart"
  <2> DEFINE r == [cli[p] EXCEPT !.second = TRUE, !.at = "repair"]
  <2>1. r \in Errands /\ r.at = "repair" /\ r.name = cli[p].name /\ r.seen = cli[p].seen /\ r.second
    BY <1>1 DEF Errands, C!Ats
  <2>2. cli' = [cli EXCEPT ![p] = r]
    BY <1>2 DEF C!Prepared, CliTyped
  <2> HIDE DEF r
  <2> QED
    BY <2>1, <2>2, BecomesPlain
<1>3. CASE cli[p].op # "restart"
  <2>1. C!Go(p, "send")
    BY <1>3 DEF C!Prepared, C!Go, CliTyped
  <2> QED
    BY <2>1, GoPlain DEF C!Ats
<1> QED
  BY <1>2, <1>3

LEMMA PlainTyped ==
  ASSUME CliTyped, HistTyped, hist'.last >= hist.last, hist'.count >= hist.count,
         hist' \in Hists, NEW p \in Procs, Plain(p)
  PROVE  CliTyped'
<1>1. hist.last \in Nat /\ hist'.last \in Nat /\ hist.count \in Nat /\ hist'.count \in Nat /\ hist.last >= 2
  BY DEF HistTyped, Hists, C!Unread
<1>2. ASSUME NEW q \in Procs PROVE cli'[q].seen <= hist'.last /\ cli'[q].name.of <= hist'.count
  <2>1. cli[q] \in Errands /\ cli'[q] \in Errands /\ cli[p] \in Errands /\ cli'[p] \in Errands
    BY <1>2 DEF CliTyped, Plain
  <2>2. /\ cli[q].seen \in Nat /\ cli[q].name.of \in Nat /\ cli[p].seen \in Nat /\ cli[p].name.of \in Nat
        /\ cli[q].seen <= hist.last /\ cli[q].name.of <= hist.count
        /\ cli[p].seen <= hist.last /\ cli[p].name.of <= hist.count
    BY <2>1 DEF Errands, Labels, CliTyped
  <2>3. CASE q # p
    BY <1>1, <2>2, <2>3 DEF Plain
  <2>4. CASE q = p
    BY <1>1, <2>2, <2>4 DEF Plain, C!NoName, C!Unread
  <2> QED
    BY <2>3, <2>4
<1> QED
  BY <1>2 DEF CliTyped, Plain

\* The step of a command alone: neither files nor the daemon's job nor the artifacts.
Quiet(p) ==
  /\ Plain(p) /\ MildHist /\ hist'.last = hist.last /\ PermTyped'
  /\ UNCHANGED <<file, artifacts, partials, clock, cacheCore, job, host>>

LEMMA BeginPlain ==
  ASSUME CliTyped, NEW p \in Procs, NEW o \in {"start", "restart"}, NEW yes \in BOOLEAN,
         C!Begin(p, o, yes)
  PROVE  Plain(p)
<1> DEFINE r == [C!Idle EXCEPT !.op = o, !.yes = yes, !.at = "repair"]
<1>1. r \in Errands /\ r.at = "repair" /\ r.name = C!NoName /\ r.seen = C!Unread
  BY CacheIdleTyped DEF Errands, C!Idle, C!Ats
<1>2. cli' = [cli EXCEPT ![p] = r]
  BY DEF C!Begin
<1> HIDE DEF r
<1> QED
  BY <1>1, <1>2, BecomesPlain

LEMMA InvokeQuiet ==
  ASSUME CbTypes, NEW p \in Procs, NEW o \in {"start", "restart"}, NEW yes \in BOOLEAN,
         C!Invoke(p, o, yes)
  PROVE  Quiet(p) /\ UNCHANGED queue
<1>1. Plain(p)
  BY BeginPlain DEF C!Invoke, CbTypes
<1>2. MildHist /\ hist'.last = hist.last
  <2>1. hist \in Hists /\ hist.last \in Nat /\ hist.commands + 1 \in Nat
    BY DEF CbTypes, HistTyped, Hists
  <2> QED
    BY <2>1 DEF C!Invoke, MildHist, Hists
<1> QED
  BY <1>1, <1>2 DEF Quiet, C!Invoke, C!Begin, C!unserved, CbTypes, PermTyped

LEMMA RetryQuiet ==
  ASSUME CbTypes, CacheConstants, C!Retry
  PROVE  Quiet(Again) /\ UNCHANGED queue
<1>1. Plain(Again)
  BY BeginPlain DEF C!Retry, CbTypes, CacheConstants
<1>2. MildHist /\ hist'.last = hist.last
  BY StillMild DEF C!Retry, CbTypes
<1> QED
  BY <1>1, <1>2 DEF Quiet, C!Retry, C!Begin, C!unserved, CbTypes, PermTyped

LEMMA RepairQuiet ==
  ASSUME CbTypes, AllUnjudged, NEW p \in Procs, C!Repair(p)
  PROVE  Quiet(p) /\ UNCHANGED queue
<1>1. PICK repaired \in C!RepairState :
        IF C!StateBlocks \/ C!TreeRefused THEN C!Stops(p) /\ perm' = repaired
        ELSE perm' = C!RepairTree(repaired) /\ C!Go(p, IF cli[p].second THEN "judge" ELSE "cache")
  BY DEF C!Repair
<1>2. cli[p].at = "repair" /\ Unjudged(p)
  BY DEF C!Repair, C!Here, AllUnjudged
<1>3. perm \in [C!Assets -> C!Verdicts] /\ perm["cache"] # "unsafe"
  BY DEF CbTypes, PermTyped
<1>4. repaired \in [C!Assets -> C!Verdicts] /\ repaired["cache"] # "unsafe"
  <2>1. CASE repaired = perm
    BY <1>3, <2>1
  <2>2. CASE repaired = [perm EXCEPT !["cache"] = "ok", !["state"] = IF @ = "drift" THEN "ok" ELSE @]
    BY <1>3, <2>2 DEF C!Assets, C!Verdicts
  <2> QED
    BY <2>1, <2>2 DEF C!RepairState
<1>5. PermTyped'
  <2>1. C!RepairTree(repaired) \in [C!Assets -> C!Verdicts] /\ C!RepairTree(repaired)["cache"] # "unsafe"
    BY <1>4 DEF C!RepairTree, C!Assets, C!Verdicts
  <2> QED
    BY <1>1, <1>4, <2>1 DEF PermTyped
<1>6. Plain(p)
  <2>1. CASE C!Stops(p)
    BY <2>1, StopsPlain DEF CbTypes
  <2>2. CASE C!Go(p, "judge") /\ cli[p].second
    BY <1>2, <2>2, GoPlain DEF CbTypes, C!Ats
  <2>3. CASE C!Go(p, "cache") /\ ~cli[p].second
    BY <1>2, <2>3, GoPlain DEF CbTypes, C!Ats, Unjudged
  <2> QED
    BY <1>1, <2>1, <2>2, <2>3
<1>7. MildHist /\ hist'.last = hist.last
  BY StillMild DEF C!Repair, CbTypes
<1> QED
  BY <1>5, <1>6, <1>7 DEF Quiet, C!Repair, C!unserved

LEMMA CheckCacheQuiet ==
  ASSUME CbTypes, AllUnjudged, NEW p \in Procs, C!CheckCache(p)
  PROVE  Quiet(p) /\ UNCHANGED queue
<1>1. cli[p].at = "cache" /\ Unjudged(p)
  BY DEF C!CheckCache, C!Here, AllUnjudged
<1>2. C!Prepared(p) \/ C!Go(p, "copy") \/ C!Stops(p)
  BY DEF C!CheckCache
<1>3. Plain(p)
  <2>1. CASE C!Prepared(p)
    BY <1>1, <2>1, PreparedPlain DEF CbTypes
  <2>2. CASE C!Go(p, "copy")
    BY <1>1, <2>2, GoPlain DEF CbTypes, C!Ats, Unjudged
  <2> QED
    BY <1>2, <2>1, <2>2, StopsPlain DEF CbTypes
<1>4. MildHist /\ hist'.last = hist.last
  BY StillMild DEF C!CheckCache, CbTypes
<1> QED
  BY <1>3, <1>4 DEF Quiet, C!CheckCache, C!unserved, CbTypes, PermTyped

LEMMA MendCacheQuiet ==
  ASSUME CbTypes, NEW p \in Procs, C!MendCache(p)
  PROVE  Quiet(p) /\ UNCHANGED queue
<1>1. Plain(p)
  BY StopsPlain, PreparedPlain DEF C!MendCache, C!Here, CbTypes
<1>2. MildHist /\ hist'.last = hist.last
  BY StillMild DEF C!MendCache, CbTypes
<1>3. PermTyped'
  BY DEF C!MendCache, CbTypes, PermTyped, C!Assets, C!Verdicts
<1> QED
  BY <1>1, <1>2, <1>3 DEF Quiet, C!MendCache, C!unserved

Sends(p) == /\ cli[p].at = "send"
            /\ queue' = Append(queue, [client |-> p, again |-> TRUE, seen |-> cli[p].seen])

LEMMA SendQuiet ==
  ASSUME CbTypes, NEW p \in Procs, C!Send(p)
  PROVE  Quiet(p) /\ Sends(p)
<1>1. Plain(p)
  BY GoPlain DEF C!Send, C!Here, CbTypes, C!Ats
<1>2. MildHist /\ hist'.last = hist.last
  BY StillMild DEF C!Send, CbTypes
<1> QED
  BY <1>1, <1>2 DEF Quiet, Sends, C!Send, C!Here, CbTypes, PermTyped

LEMMA MaximumExists ==
  ASSUME NEW U \in SUBSET Nat, U # {}, NEW b \in Nat, \A u \in U : u <= b
  PROVE  \E s \in U : \A t \in U : t <= s
<1> DEFINE B == {c \in Nat : \A u \in U : u <= c}
<1>1. B \subseteq Nat /\ B # {}
  OBVIOUS
<1>2. PICK c \in B : \A d \in B : ~(<<d, c>> \in OpToRel(<, Nat))
  BY <1>1, WFMin, NatLessThanWellFounded
<1>3. \A d \in B : ~(d < c)
  BY <1>1, <1>2 DEF OpToRel
<1>4. c \in U
  <2>1. ASSUME c \notin U PROVE FALSE
    <3>1. \A u \in U : u < c
      BY <2>1
    <3>2. PICK u \in U : u < c
      BY <3>1
    <3>4. u \in Nat /\ c \in Nat
      BY <1>1
    <3>3. c - 1 \in B
      BY <3>1, <3>2, <3>4
    <3> QED
      BY <1>3, <3>3, <3>4
  <2> QED
    BY <2>1
<1> QED
  BY <1>4

\* The number that is chosen comes after those in use.
LEMMA NextSeqAfter ==
  ASSUME HeldTyped, NEW t \in Nat
  PROVE  /\ C!NextSeq(t) \in Nat
         /\ \A n \in C!Names : n[1] = t => n[2] < C!NextSeq(t)
         /\ (\A n \in C!Names : n[1] # t) => C!NextSeq(t) = 0
         /\ (\E n \in C!Names : n[1] = t) => \E n \in C!Names : n[1] = t /\ C!NextSeq(t) = n[2] + 1
<1> DEFINE U == {n[2] : n \in {m \in C!Names : m[1] = t}}
           M == CHOOSE s \in U : \A u \in U : u <= s
<1>1. C!Names \subseteq Stamps
  BY DEF C!Names, HeldTyped, Artifacts
<1>2. PICK b \in Nat : \A n \in C!Names : n[2] <= b
  BY DEF HeldTyped, C!Names
<1>3. U \in SUBSET Nat /\ \A u \in U : u <= b
  BY <1>1, <1>2 DEF Stamps
<1>4. C!NextSeq(t) = IF U = {} THEN 0 ELSE 1 + M
  BY DEF C!NextSeq
<1>5. \A n \in C!Names : n[1] = t => n[2] \in U
  OBVIOUS
<1>8. \A u \in U : \E n \in C!Names : n[1] = t /\ n[2] = u
  OBVIOUS
<1>9. \A s \in U : (\A u \in U : u <= s) => M \in U /\ \A u \in U : u <= M
  OBVIOUS
<1> HIDE DEF U, M
<1>6. CASE U = {}
  <2>1. \A n \in C!Names : n[1] # t
    BY <1>5, <1>6
  <2>2. C!NextSeq(t) = 0
    BY <1>4, <1>6
  <2> QED
    BY <2>1, <2>2
<1>7. CASE U # {}
  <2>1. \E s \in U : \A u \in U : u <= s
    BY <1>3, <1>7, MaximumExists
  <2>2. M \in U /\ \A u \in U : u <= M
    BY <1>9, <2>1
  <2>3. PICK n \in C!Names : n[1] = t /\ n[2] = M
    BY <1>8, <2>2
  <2>4. M \in Nat
    BY <1>3, <2>2
  <2>5. C!NextSeq(t) = M + 1
    BY <1>4, <1>7, <2>4
  <2>6. \A m \in C!Names : m[1] = t => m[2] < C!NextSeq(t)
    <3>1. TAKE m \in C!Names
    <3>2. HAVE m[1] = t
    <3>3. m[2] \in U
      BY <1>5, <3>2
    <3>4. m[2] \in Nat /\ m[2] <= M
      BY <1>3, <2>2, <3>3
    <3> QED
      BY <2>4, <2>5, <3>4
  <2>7. C!NextSeq(t) = n[2] + 1 /\ n[1] = t
    BY <2>3, <2>5
  <2>8. C!NextSeq(t) \in Nat
    BY <2>4, <2>5
  <2> QED
    BY <2>6, <2>7, <2>8
<1> QED
  BY <1>6, <1>7

LEMMA ChosenTyped ==
  ASSUME CbTypes
  PROVE  /\ C!Chosen \in Labels /\ C!Chosen.at[1] = clock /\ C!Chosen.at[2] = C!NextSeq(clock)
         /\ C!Chosen.of = hist.count
<1>1. clock \in Nat /\ C!NextSeq(clock) \in Nat /\ hist.count \in Nat
  BY NextSeqAfter DEF CbTypes, ClockTyped, HistTyped, Hists
<1> QED
  BY <1>1 DEF C!Chosen, Labels, Stamps

Preserved == \E a \in artifacts : a.id = file.id
Others(p) == cli' \in [Procs -> Errands] /\ \A q \in Procs : q # p => cli'[q] = cli[q]
Aside == UNCHANGED <<file, perm, artifacts, clock, cacheCore, queue, job, host>>

\* A command looks at the database: it stages a copy next unless there is one.
Looks(p) ==
  /\ Aside /\ UNCHANGED <<partials, hist>> /\ Others(p)
  /\ cli'[p].at \notin {"publish", "repair", "cache", "judge"}
  /\ cli'[p].name = cli[p].name /\ cli'[p].seen = file.id
  /\ cli'[p].at = "copy" => cli'[p].second
  /\ Bad /\ cli'[p].at # "copy" => Preserved

\* A command stages a copy.
Stages(p) ==
  /\ Aside /\ UNCHANGED hist /\ Others(p)
  /\ ~Preserved /\ C!Chosen.at \notin partials /\ partials' = partials \cup {C!Chosen.at}
  /\ cli'[p].at = "publish" /\ cli'[p].name = C!Chosen /\ cli'[p].seen = file.id

NextOf(n) == <<n[1], n[2] + 1>>

\* A command gives up what it staged, ...
Drops(p) ==
  /\ Aside /\ MildHist /\ hist'.last = hist.last /\ Plain(p)
  /\ cli[p].at = "publish" /\ partials' = partials \ {cli[p].name.at}

\* ... leaves behind what it could not write to its end, ...
Strays(p) ==
  /\ Aside /\ MildHist /\ hist'.last = hist.last /\ Plain(p)
  /\ \/ partials' = partials \cup {C!Chosen.at}
     \/ /\ cli[p].at = "publish" /\ cli[p].name.at \in C!Names
        /\ partials' = (partials \ {cli[p].name.at}) \cup {NextOf(cli[p].name.at)}

\* ... stages it under the next number, ...
Renumbers(p) ==
  /\ Aside /\ UNCHANGED hist /\ Others(p)
  /\ cli[p].at = "publish" /\ cli[p].name.at \in C!Names
  /\ partials' = (partials \ {cli[p].name.at}) \cup {NextOf(cli[p].name.at)}
  /\ cli'[p].at = "publish" /\ cli'[p].seen = cli[p].seen
  /\ cli'[p].name = [at |-> NextOf(cli[p].name.at), of |-> cli[p].name.of]

\* ... or publishes it.
Publishes(p) ==
  /\ UNCHANGED <<file, perm, clock, cacheCore, queue, job, host>> /\ Others(p)
  /\ cli[p].at = "publish" /\ cli[p].name.at \notin C!Names
  /\ C!Published(cli[p].name, cli[p].seen)
  /\ partials' = partials \ {cli[p].name.at}
  /\ cli'[p].at = "prune" /\ cli'[p].name = C!NoName /\ cli'[p].seen = cli[p].seen

LEMMA JudgeLooks ==
  ASSUME CbTypes, AllUnjudged, NEW p \in Procs, C!Judge(p)
  PROVE  Looks(p)
<1> DEFINE l == IF C!NeedsEvidence THEN "copy" ELSE "send"
           r == [cli[p] EXCEPT !.at = l, !.seen = file.id]
<1>1. cli[p] \in Errands /\ cli[p].at = "judge" /\ cli[p].second
  BY DEF CbTypes, CliTyped, C!Judge, C!Here, AllUnjudged, Unjudged
<1>2. file.id \in Nat
  BY DEF CbTypes, FileTyped, C!Databases
<1>3. r \in Errands /\ r.at = l /\ r.seen = file.id /\ r.name = cli[p].name /\ r.second
  BY <1>1, <1>2 DEF Errands, C!Ats
<1>4. cli' = [cli EXCEPT ![p] = r]
  BY DEF C!Judge, CbTypes, CliTyped
<1>5. Bad => l = "copy"
  BY DEF Bad, C!NeedsEvidence, C!NeedsIsolation, C!Unsafe
<1>6. l \in {"copy", "send"}
  OBVIOUS
<1> HIDE DEF l, r
<1>7. Others(p) /\ cli'[p] = r
  BY <1>3, <1>4 DEF Others, CbTypes, CliTyped
<1> QED
  BY <1>1, <1>3, <1>5, <1>6, <1>7 DEF Looks, Aside, C!Judge, C!unserved

LEMMA CopyOutcome ==
  ASSUME CbTypes, AllUnjudged, NEW p \in Procs, C!Copy(p)
  PROVE  (Quiet(p) /\ UNCHANGED queue) \/ Looks(p) \/ Stages(p) \/ Strays(p)
<1>1. cli[p] \in Errands /\ cli[p].at = "copy" /\ Unjudged(p)
  BY DEF CbTypes, CliTyped, C!Copy, C!Here, AllUnjudged
<1>2. UNCHANGED <<file, perm, artifacts, clock, cacheCore, queue, job, host>>
  BY DEF C!Copy, C!unserved
<1>3. file.id \in Nat
  BY DEF CbTypes, FileTyped, C!Databases
<1>4. CASE C!Uncopied(p) /\ UNCHANGED partials /\ (C!Fault \/ UNCHANGED hist)
  BY <1>2, <1>4, UncopiedPlain, FaultMild, StillMild DEF Quiet, CbTypes, PermTyped
<1>5. CASE ~cli[p].second /\ C!Go(p, "mend") /\ UNCHANGED <<partials, hist>>
  <2>1. Plain(p)
    BY <1>1, <1>5, GoPlain DEF CbTypes, C!Ats, Unjudged
  <2> QED
    BY <1>2, <1>5, <2>1, StillMild DEF Quiet, CbTypes, PermTyped
<1>6. CASE /\ \E a \in artifacts : a.id = file.id
           /\ cli' = [cli EXCEPT ![p].at = C!Copied(p), ![p].seen = file.id] /\ UNCHANGED <<partials, hist>>
  <2> DEFINE r == [cli[p] EXCEPT !.at = C!Copied(p), !.seen = file.id]
  <2>1. C!Copied(p) \in {"send", "mend"}
    BY DEF C!Copied
  <2>2. r \in Errands /\ r.at = C!Copied(p) /\ r.seen = file.id /\ r.name = cli[p].name
    BY <1>1, <1>3, <2>1 DEF Errands, C!Ats
  <2>3. cli' = [cli EXCEPT ![p] = r]
    BY <1>6 DEF CbTypes, CliTyped
  <2> HIDE DEF r
  <2>4. Others(p) /\ cli'[p] = r
    BY <2>2, <2>3 DEF Others, CbTypes, CliTyped
  <2> QED
    BY <1>2, <1>6, <2>1, <2>2, <2>4 DEF Looks, Aside, Preserved
<1>7. CASE /\ ~(\E a \in artifacts : a.id = file.id) /\ C!Chosen.at \notin partials
           /\ partials' = partials \cup {C!Chosen.at} /\ UNCHANGED hist
           /\ cli' = [cli EXCEPT ![p].at = "publish", ![p].name = C!Chosen, ![p].seen = file.id]
  <2> DEFINE r == [cli[p] EXCEPT !.at = "publish", !.name = C!Chosen, !.seen = file.id]
  <2>1. r \in Errands /\ r.at = "publish" /\ r.seen = file.id /\ r.name = C!Chosen
    BY <1>1, <1>3, ChosenTyped DEF Errands, C!Ats
  <2>2. cli' = [cli EXCEPT ![p] = r]
    BY <1>7 DEF CbTypes, CliTyped
  <2> HIDE DEF r
  <2>3. Others(p) /\ cli'[p] = r
    BY <2>1, <2>2 DEF Others, CbTypes, CliTyped
  <2> QED
    BY <1>2, <1>7, <2>1, <2>3 DEF Stages, Aside, Preserved
<1>8. CASE C!Fault /\ C!Uncopied(p) /\ partials' = partials \cup C!Left({C!Chosen.at})
  <2>1. Aside /\ MildHist /\ hist'.last = hist.last /\ Plain(p)
    BY <1>2, <1>8, UncopiedPlain, FaultMild DEF Aside, CbTypes
  <2>2. partials' = partials \/ partials' = partials \cup {C!Chosen.at}
    BY <1>8 DEF C!Left
  <2> QED
    BY <1>4, <1>8, <2>1, <2>2 DEF Strays
<1> QED
  BY <1>4, <1>5, <1>6, <1>7, <1>8 DEF C!Copy

LEMMA PublishOutcome ==
  ASSUME CbTypes, NEW p \in Procs, C!Publish(p)
  PROVE  Drops(p) \/ Strays(p) \/ Renumbers(p) \/ Publishes(p)
<1>1. cli[p] \in Errands /\ cli[p].at = "publish"
  BY DEF CbTypes, CliTyped, C!Publish, C!Here
<1>2. UNCHANGED <<file, perm, clock, cacheCore, queue, job, host>>
  BY DEF C!Publish, C!unserved
<1>3. cli[p].name \in Labels /\ cli[p].name.at \in Stamps /\ NextOf(cli[p].name.at) \in Stamps
  BY <1>1 DEF Errands, Labels, Stamps, NextOf
<1>4. CASE /\ C!Uncopied(p) /\ partials' = partials \ {cli[p].name.at} /\ UNCHANGED artifacts
           /\ C!Fault \/ UNCHANGED hist
  BY <1>1, <1>2, <1>4, UncopiedPlain, FaultMild, StillMild DEF Drops, Aside, CbTypes
<1>5. CASE /\ cli[p].name.at \in C!Names /\ UNCHANGED <<artifacts, hist>>
           /\ partials' = (partials \ {cli[p].name.at}) \cup {NextOf(cli[p].name.at)}
           /\ cli' = [cli EXCEPT ![p].name.at = NextOf(cli[p].name.at)]
  <2> DEFINE r == [cli[p] EXCEPT !.name = [cli[p].name EXCEPT !.at = NextOf(cli[p].name.at)]]
  <2>1. r \in Errands /\ r.at = "publish" /\ r.seen = cli[p].seen
    BY <1>1, <1>3 DEF Errands, Labels
  <2>2. r.name = [at |-> NextOf(cli[p].name.at), of |-> cli[p].name.of]
    BY <1>1, <1>3 DEF Errands, Labels
  <2>3. cli' = [cli EXCEPT ![p] = r]
    BY <1>5 DEF CbTypes, CliTyped
  <2> HIDE DEF r
  <2>4. Others(p) /\ cli'[p] = r
    BY <2>1, <2>3 DEF Others, CbTypes, CliTyped
  <2> QED
    BY <1>1, <1>2, <1>5, <2>1, <2>2, <2>4 DEF Renumbers, Aside
<1>6. CASE /\ cli[p].name.at \notin C!Names /\ C!Published(cli[p].name, cli[p].seen)
           /\ cli' = [cli EXCEPT ![p].at = "prune", ![p].name = C!NoName]
           /\ partials' = partials \ {cli[p].name.at}
  <2> DEFINE r == [cli[p] EXCEPT !.at = "prune", !.name = C!NoName]
  <2>1. r \in Errands /\ r.at = "prune" /\ r.seen = cli[p].seen /\ r.name = C!NoName
    BY <1>1, CacheIdleTyped DEF Errands, C!Ats
  <2>2. cli' = [cli EXCEPT ![p] = r]
    BY <1>6 DEF CbTypes, CliTyped
  <2> HIDE DEF r
  <2>3. Others(p) /\ cli'[p] = r
    BY <2>1, <2>2 DEF Others, CbTypes, CliTyped
  <2> QED
    BY <1>1, <1>2, <1>6, <2>1, <2>3 DEF Publishes
<1>7. CASE /\ C!Fault /\ C!Uncopied(p) /\ UNCHANGED artifacts
           /\ partials' = (partials \ {cli[p].name.at})
                          \cup IF cli[p].name.at \in C!Names THEN C!Left({NextOf(cli[p].name.at)}) ELSE {}
  <2>1. Aside /\ MildHist /\ hist'.last = hist.last /\ Plain(p)
    BY <1>2, <1>7, UncopiedPlain, FaultMild DEF Aside, CbTypes
  <2>2. \/ partials' = partials \ {cli[p].name.at}
        \/ /\ cli[p].name.at \in C!Names
           /\ partials' = (partials \ {cli[p].name.at}) \cup {NextOf(cli[p].name.at)}
    BY <1>7 DEF C!Left
  <2> QED
    BY <1>1, <2>1, <2>2 DEF Drops, Strays
<1> QED
  BY <1>4, <1>5, <1>6, <1>7 DEF C!Publish, NextOf

\* An eviction by a command.
Evicts(p) ==
  /\ Plain(p) /\ artifacts' = C!Pruned
  /\ UNCHANGED <<file, perm, partials, clock, cacheCore, queue, job, host, hist>>

LEMMA PruneEvicts ==
  ASSUME CbTypes, NEW p \in Procs, C!Prune(p)
  PROVE  Evicts(p)
<1>1. cli[p].at = "prune" /\ C!Copied(p) \in {"send", "mend"}
  BY DEF C!Prune, C!Here, C!Copied
<1>2. Plain(p)
  BY <1>1, GoPlain DEF C!Prune, CbTypes, C!Ats
<1> QED
  BY <1>2 DEF Evicts, C!Prune, C!unserved

(* The daemon.                                                               *)

\* Commands are ended or left where they are.
Settled == cli' \in [Procs -> Errands] /\ \A p \in Procs : cli'[p] = cli[p] \/ cli'[p] = C!Idle

LEMMA SettledTyped ==
  ASSUME CliTyped, HistTyped, hist' \in Hists, hist'.last >= hist.last, hist'.count >= hist.count, Settled
  PROVE  CliTyped'
<1>1. hist.last \in Nat /\ hist'.last \in Nat /\ hist.count \in Nat /\ hist'.count \in Nat /\ hist.last >= 2
  BY DEF HistTyped, Hists, C!Unread
<1>2. ASSUME NEW q \in Procs PROVE cli'[q].seen <= hist'.last /\ cli'[q].name.of <= hist'.count
  <2>1. cli[q].seen \in Nat /\ cli[q].name.of \in Nat /\ cli[q].seen <= hist.last /\ cli[q].name.of <= hist.count
    BY <1>2 DEF CliTyped, Errands, Labels
  <2> QED
    BY <1>1, <1>2, <2>1 DEF Settled, C!Idle, C!NoName, C!Unread
<1> QED
  BY <1>2 DEF CliTyped, Settled

LEMMA RefuseSettles ==
  ASSUME CbTypes, C!Refuse
  PROVE  /\ Settled /\ job' \in Jobs /\ job'.name = C!NoName /\ job'.seen \in {job.seen, C!Unread}
         /\ job'.at \in {"idle", C!AtGate}
<1>1. job \in Jobs /\ cli \in [Procs -> Errands]
  BY DEF CbTypes, JobTyped, CliTyped
<1>2. CASE job.again
  <2>1. job' = [job EXCEPT !.at = C!AtGate, !.again = FALSE, !.name = C!NoName] /\ UNCHANGED cli
    BY <1>2 DEF C!Refuse
  <2>2. C!AtGate \in {"gate", "spawn"}
    BY DEF C!AtGate
  <2>3. job' \in Jobs /\ job'.at = C!AtGate /\ job'.name = C!NoName /\ job'.seen = job.seen
    BY <1>1, <2>1, <2>2, CacheIdleTyped DEF Jobs
  <2> QED
    BY <1>1, <2>1, <2>3 DEF Settled
<1>3. CASE ~job.again
  <2>1. job' = C!NoJob /\ cli' = [p \in Procs |-> IF p = job.client THEN C!Idle ELSE cli[p]]
    BY <1>3 DEF C!Refuse, C!Reply
  <2>2. job'.at = "idle" /\ job'.name = C!NoName /\ job'.seen = C!Unread
    BY <2>1 DEF C!NoJob
  <2>3. Settled
    BY <1>1, <2>1, CacheIdleTyped DEF Settled
  <2> QED
    BY <2>1, <2>2, <2>3, CacheIdleTyped
<1> QED
  BY <1>2, <1>3

\* The daemon takes a command from its queue.
Takes ==
  /\ UNCHANGED <<file, perm, artifacts, partials, clock, cli, host, hist>>
  /\ queue # <<>> /\ queue' = Tail(queue) /\ cacheCore' = "down"
  /\ job' \in Jobs /\ job'.seen = Head(queue).seen /\ job'.name = C!NoName /\ job'.at = C!AtGate

LEMMA TakeOutcome ==
  ASSUME CbTypes, C!Take
  PROVE  Takes
<1>1. queue \in Seq(C!Waiting) /\ queue # <<>>
  BY DEF CbTypes, QueueTyped, C!Take
<1>2. Head(queue) \in C!Waiting
  BY <1>1
<1>3. C!AtGate \in {"gate", "spawn"}
  BY DEF C!AtGate
<1>4. job' = [client |-> Head(queue).client, again |-> Head(queue).again, seen |-> Head(queue).seen,
              name |-> C!NoName, at |-> C!AtGate]
  BY DEF C!Take
<1>5. job' \in Jobs /\ job'.seen = Head(queue).seen /\ job'.name = C!NoName /\ job'.at = C!AtGate
  BY <1>2, <1>3, <1>4, CacheIdleTyped DEF Jobs, C!Waiting
<1> QED
  BY <1>5 DEF Takes, C!Take

\* The gate refuses, has the database moved, or lets one be that can be opened.
Gates ==
  /\ UNCHANGED <<file, perm, artifacts, partials, clock, cacheCore, queue, host, hist>>
  /\ Settled /\ job.at = "gate" /\ job' \in Jobs
  /\ \/ job'.at \in {"idle", C!AtGate} /\ job'.name = C!NoName /\ job'.seen \in {job.seen, C!Unread}
     \/ job'.at = "move" /\ job'.name = C!Chosen /\ job'.seen = job.seen
     \/ job'.at = "spawn" /\ job'.name = job.name /\ job'.seen = file.id /\ ~Bad

LEMMA GateOutcome == ASSUME CbTypes, C!Gate PROVE Gates
<1>1. job \in Jobs /\ cli \in [Procs -> Errands] /\ file.id \in Nat
  BY DEF CbTypes, JobTyped, CliTyped, FileTyped, C!Databases
<1>2. CASE C!Refuse
  BY <1>2, RefuseSettles DEF Gates, C!Gate
<1>3. CASE job' = [job EXCEPT !.at = "move", !.name = C!Chosen] /\ UNCHANGED cli
  <2>1. job' \in Jobs /\ job'.at = "move" /\ job'.name = C!Chosen /\ job'.seen = job.seen
    BY <1>1, <1>3, ChosenTyped DEF Jobs
  <2> QED
    BY <1>1, <1>3, <2>1 DEF Gates, C!Gate, Settled
<1>4. CASE ~C!Drifted /\ ~C!NeedsIsolation /\ job' = [job EXCEPT !.at = "spawn", !.seen = file.id] /\ UNCHANGED cli
  <2>1. job' \in Jobs /\ job'.at = "spawn" /\ job'.name = job.name /\ job'.seen = file.id
    BY <1>1, <1>4 DEF Jobs
  <2>2. ~Bad
    BY <1>4 DEF Bad, C!NeedsIsolation, C!Unsafe
  <2> QED
    BY <1>1, <1>4, <2>1, <2>2 DEF Gates, C!Gate, Settled
<1> QED
  BY <1>2, <1>3, <1>4 DEF C!Gate

\* The database is moved aside, ...
MovesAside ==
  /\ UNCHANGED <<perm, partials, clock, cacheCore, queue, host, cli>>
  /\ job.at = "move" /\ job.name.at \notin C!Names
  /\ C!Published(job.name, file.id) /\ file' = C!Missing
  /\ job' \in Jobs /\ job'.at = "prune" /\ job'.name = C!NoName /\ job'.seen = C!Unread

\* ... gets the next number, or is not moved.
MovesLater ==
  /\ UNCHANGED <<file, perm, artifacts, partials, clock, cacheCore, queue, host>>
  /\ MildHist /\ hist'.last = hist.last
  /\ Settled /\ job.at = "move" /\ job' \in Jobs
  /\ \/ job'.at \in {"idle", C!AtGate} /\ job'.name = C!NoName /\ job'.seen \in {job.seen, C!Unread}
     \/ /\ job'.at = "move" /\ job'.seen = job.seen /\ job.name.at \in C!Names
        /\ job'.name = [at |-> NextOf(job.name.at), of |-> job.name.of]

LEMMA MoveOutcome == ASSUME CbTypes, C!Move PROVE MovesAside \/ MovesLater
<1>1. job \in Jobs /\ cli \in [Procs -> Errands] /\ job.name \in Labels /\ job.name.at \in Stamps
  BY DEF CbTypes, JobTyped, CliTyped, Jobs, Labels
<1>2. CASE C!Fault /\ C!Refuse /\ UNCHANGED <<file, artifacts>>
  BY <1>2, RefuseSettles, FaultMild DEF MovesLater, C!Move, CbTypes
<1>3. CASE /\ job.name.at \in C!Names /\ job' = [job EXCEPT !.name.at = NextOf(job.name.at)]
           /\ UNCHANGED <<file, artifacts, hist, cli>>
  <2>1. NextOf(job.name.at) \in Stamps
    BY <1>1 DEF NextOf, Stamps
  <2>2. job' = [job EXCEPT !.name = [job.name EXCEPT !.at = NextOf(job.name.at)]]
    BY <1>1, <1>3 DEF Jobs
  <2>3. [job.name EXCEPT !.at = NextOf(job.name.at)] = [at |-> NextOf(job.name.at), of |-> job.name.of]
    BY <1>1 DEF Labels
  <2>4. [at |-> NextOf(job.name.at), of |-> job.name.of] \in Labels
    BY <1>1, <2>1 DEF Labels
  <2>5. /\ job' \in Jobs /\ job'.at = job.at /\ job'.seen = job.seen
        /\ job'.name = [at |-> NextOf(job.name.at), of |-> job.name.of]
    BY <1>1, <2>2, <2>3, <2>4 DEF Jobs
  <2> QED
    BY <1>1, <1>3, <2>5, StillMild DEF MovesLater, C!Move, Settled, CbTypes
<1>4. CASE /\ job.name.at \notin C!Names /\ C!Published(job.name, file.id) /\ file' = C!Missing /\ UNCHANGED cli
           /\ job' = [job EXCEPT !.at = "prune", !.name = C!NoName, !.seen = C!Unread]
  <2>1. job' \in Jobs /\ job'.at = "prune" /\ job'.name = C!NoName /\ job'.seen = C!Unread
    BY <1>1, <1>4, CacheIdleTyped DEF Jobs, C!Unread
  <2> QED
    BY <1>4, <2>1 DEF MovesAside, C!Move
<1> QED
  BY <1>2, <1>3, <1>4 DEF C!Move, NextOf

\* An eviction by the daemon.
EvictsMoved ==
  /\ artifacts' = C!Pruned /\ job.at = "prune"
  /\ job' \in Jobs /\ job'.at = "spawn" /\ job'.name = job.name /\ job'.seen = job.seen
  /\ UNCHANGED <<file, perm, partials, clock, cacheCore, queue, cli, host, hist>>

LEMMA PruneMovedEvicts == ASSUME CbTypes, C!PruneMoved PROVE EvictsMoved
<1>1. job \in Jobs
  BY DEF CbTypes, JobTyped
<1>2. job' \in Jobs /\ job'.at = "spawn" /\ job'.name = job.name /\ job'.seen = job.seen
  BY <1>1 DEF C!PruneMoved, Jobs
<1> QED
  BY <1>2 DEF EvictsMoved, C!PruneMoved, C!undone

\* The Core starts: it leaves what it cannot open to be seen no more.
Spawns ==
  /\ Settled /\ job.at = "spawn" /\ job' = C!NoJob /\ cacheCore' = "up"
  /\ file' = file \/ file' = [kind |-> "sound", id |-> C!Sound]
  /\ PermTyped'
  /\ UNCHANGED <<artifacts, partials, clock, queue, host, hist>>

LEMMA SpawnOutcome == ASSUME CbTypes, C!Spawn PROVE Spawns
<1>1. cli' = [p \in Procs |-> IF p = job.client THEN C!Idle ELSE cli[p]] /\ job' = C!NoJob
  BY DEF C!Spawn, C!Reply
<1>2. Settled
  BY <1>1, CacheIdleTyped DEF Settled, CbTypes, CliTyped
<1>3. PermTyped'
  BY DEF C!Spawn, CbTypes, PermTyped, C!Assets, C!Verdicts
<1> QED
  BY <1>1, <1>2, <1>3 DEF Spawns, C!Spawn, C!Opened

(* Faults.                                                                   *)

\* The database is lost, damaged or replaced; or an owner or a mode.
Disturbs ==
  /\ MildHist /\ PermTyped'
  /\ UNCHANGED <<artifacts, partials, clock, queue, job, cli, host>>
  /\ cacheCore' \in {"up", "down"}
  /\ \/ file' = file
     \/ file' = [kind |-> "link", id |-> C!Linked]
     \/ \E k \in C!Broken : file' = [kind |-> k, id |-> hist.last + 1] /\ hist'.last = hist.last + 1

LEMMA FaultsDisturb ==
  ASSUME CbTypes, C!CoreDies \/ C!Touch \/ C!Drift
  PROVE  Disturbs
<1>1. HistTyped /\ perm \in [C!Assets -> C!Verdicts] /\ perm["cache"] # "unsafe"
  BY DEF CbTypes, PermTyped
<1>2. C!Costs(0) => MildHist
  BY <1>1, CostsMild
<1>3. C!Costs(1) => MildHist /\ hist'.last = hist.last + 1
  BY <1>1, CostsMild
<1>4. ASSUME NEW ks \in SUBSET C!Broken, file' \in C!Content(ks), C!Costs(1)
      PROVE  \E k \in C!Broken : file' = [kind |-> k, id |-> hist.last + 1] /\ hist'.last = hist.last + 1
  BY <1>3, <1>4 DEF C!Content
<1>5. CASE C!CoreDies
  <2>1. PermTyped'
    BY <1>1, <1>5 DEF C!CoreDies, PermTyped
  <2> QED
    BY <1>2, <1>3, <1>4, <1>5, <2>1 DEF C!CoreDies, Disturbs
<1>6. CASE C!Touch
  <2>1. PermTyped'
    BY <1>1, <1>6 DEF C!Touch, PermTyped, C!Assets, C!Verdicts
  <2>2. {"short", "invalid"} \subseteq C!Broken
    BY DEF C!Broken
  <2>3. cacheCore' \in {"up", "down"}
    BY <1>6 DEF C!Touch, CbTypes, ClockTyped
  <2> QED
    BY <1>2, <1>3, <1>4, <1>6, <2>1, <2>2, <2>3 DEF C!Touch, Disturbs
<1>7. CASE C!Drift
  <2>1. PermTyped'
    BY <1>1, <1>7 DEF C!Drift, PermTyped, C!Assets, C!Verdicts
  <2>2. cacheCore' \in {"up", "down"}
    BY <1>7 DEF C!Drift, CbTypes, ClockTyped
  <2> QED
    BY <1>2, <1>7, <2>1, <2>2 DEF C!Drift, Disturbs
<1> QED
  BY <1>5, <1>6, <1>7

\* A command is killed or its time is over, ...
Departs(p) ==
  /\ UNCHANGED <<file, perm, artifacts, clock, cacheCore, host>>
  /\ MildHist /\ hist'.last = hist.last /\ Plain(p)
  /\ \/ partials' = partials
     \/ cli[p].at = "publish" /\ partials' = partials \ {cli[p].name.at}
  /\ queue' \in Seq(C!Waiting) /\ Len(queue') = Len(queue)
  /\ \A n \in 1..Len(queue) : queue'[n].seen = queue[n].seen
  /\ job' \in Jobs /\ job'.at = job.at /\ job'.seen = job.seen /\ job'.name = job.name

LEMMA LeaveDeparts == ASSUME CbTypes, NEW p \in Procs, C!Leave(p) PROVE Departs(p)
<1>1. MildHist /\ hist'.last = hist.last
  <2>1. HistTyped /\ C!Costs(0) /\ hist.last \in Nat
    BY DEF CbTypes, C!Leave, HistTyped, Hists
  <2> QED
    BY <2>1, CostsMild
<1>2. Plain(p)
  BY StopsPlain DEF CbTypes, C!Leave
<1>3. partials' = partials \/ (cli[p].at = "publish" /\ partials' = partials \ {cli[p].name.at})
  <2>1. partials' = C!LeftBy({p})
    BY DEF C!Leave
  <2>2. CASE C!Here(p, "publish") /\ ~(cli[p].name.at[1] < MaxClock)
    BY <2>1, <2>2 DEF C!LeftBy, C!Left, C!Here
  <2>3. CASE ~(C!Here(p, "publish") /\ ~(cli[p].name.at[1] < MaxClock))
    BY <2>1, <2>3 DEF C!LeftBy, C!Left
  <2> QED
    BY <2>2, <2>3
<1>4. \A c \in Procs \cup {C!Nobody} : C!Forget({p}, c) \in Procs \cup {C!Nobody}
  BY DEF C!Forget
<1>5. /\ queue' \in Seq(C!Waiting) /\ Len(queue') = Len(queue)
      /\ \A n \in 1..Len(queue) : queue'[n].seen = queue[n].seen
  <2>1. queue \in Seq(C!Waiting) /\ DOMAIN queue = 1..Len(queue)
    BY DEF CbTypes, QueueTyped
  <2>2. ASSUME NEW n \in 1..Len(queue)
        PROVE  /\ [queue[n] EXCEPT !.client = C!Forget({p}, @)] \in C!Waiting
               /\ [queue[n] EXCEPT !.client = C!Forget({p}, @)].seen = queue[n].seen
    <3>1. queue[n] \in C!Waiting
      BY <2>1, EntryTyped
    <3> QED
      BY <1>4, <3>1 DEF C!Waiting
  <2>3. queue' = [n \in 1..Len(queue) |-> [queue[n] EXCEPT !.client = C!Forget({p}, @)]]
    BY <2>1 DEF C!Leave
  <2>4. queue' \in [1..Len(queue) -> C!Waiting]
    BY <2>2, <2>3
  <2>5. queue' \in Seq(C!Waiting) /\ Len(queue') = Len(queue)
    BY <2>1, <2>4
  <2> QED
    BY <2>2, <2>3, <2>5
<1>6. job' \in Jobs /\ job'.at = job.at /\ job'.seen = job.seen /\ job'.name = job.name
  <2>1. job \in Jobs
    BY DEF CbTypes, JobTyped
  <2> QED
    BY <1>4, <2>1 DEF C!Leave, Jobs
<1> QED
  BY <1>1, <1>2, <1>3, <1>5, <1>6 DEF Departs, C!Leave

\* ... or all of them, with the daemon and its Core.
Reboots ==
  /\ UNCHANGED <<file, perm, artifacts, clock, host>> /\ cacheCore' = "down"
  /\ MildHist /\ hist'.last = hist.last
  /\ cli' \in [Procs -> Errands] /\ \A p \in Procs : cli'[p] = C!Idle
  /\ job' = C!NoJob /\ partials' \subseteq partials
  /\ queue' \in Seq(C!Waiting) /\ \A n \in 1..Len(queue') : queue'[n].seen = C!Unread

LEMMA RebootOutcome == ASSUME CbTypes, C!Reboot PROVE Reboots
<1>1. MildHist /\ hist'.last = hist.last
  <2>1. HistTyped /\ C!Costs(0) /\ hist.last \in Nat
    BY DEF CbTypes, C!Reboot, HistTyped, Hists
  <2> QED
    BY <2>1, CostsMild
<1>2. cli' \in [Procs -> Errands] /\ \A p \in Procs : cli'[p] = C!Idle
  BY CacheIdleTyped DEF C!Reboot
<1>3. partials' \subseteq partials
  BY DEF C!Reboot, C!LeftBy
<1>4. queue' \in Seq(C!Waiting) /\ \A n \in 1..Len(queue') : queue'[n].seen = C!Unread
  <2> DEFINE w == [client |-> C!Nobody, again |-> FALSE, seen |-> C!Unread]
  <2>1. w \in C!Waiting /\ w.seen = C!Unread
    BY DEF C!Waiting, C!Unread
  <2>2. queue' = <<>> \/ queue' = <<w>>
    BY DEF C!Reboot
  <2> HIDE DEF w
  <2>3. <<w>> \in Seq(C!Waiting) /\ \A n \in 1..Len(<<w>>) : <<w>>[n] = w
    BY <2>1
  <2>4. <<>> \in Seq(C!Waiting) /\ Len(<<>>) = 0
    OBVIOUS
  <2>5. CASE queue' = <<>>
    BY <2>4, <2>5
  <2>6. CASE queue' = <<w>>
    BY <2>1, <2>3, <2>6
  <2> QED
    BY <2>2, <2>5, <2>6
<1> QED
  BY <1>1, <1>2, <1>3, <1>4 DEF Reboots, C!Reboot

\* Time passes, or the clock is set back.
Ticks ==
  /\ clock' = clock + 1 /\ clock' \in 0..MaxClock
  /\ UNCHANGED <<file, perm, artifacts, partials, cacheCore, queue, job, cli, host, hist>>
StepsBack ==
  /\ clock' \in 0..MaxClock /\ hist' \in Hists /\ hist'.disordered
  /\ hist'.last = hist.last /\ hist'.count = hist.count /\ hist'.published = hist.published
  /\ UNCHANGED <<file, perm, artifacts, partials, cacheCore, queue, job, cli, host>>

LEMMA ClockOutcome ==
  ASSUME CacheConstants, CbTypes
  PROVE  /\ C!Tick => Ticks
         /\ C!StepBack => StepsBack
<1>1. clock \in 0..MaxClock /\ MaxClock \in Nat /\ hist \in Hists /\ hist.faults + 1 \in Nat
  BY DEF CbTypes, ClockTyped, CacheConstants, HistTyped, Hists
<1>2. C!Tick => Ticks
  BY <1>1 DEF C!Tick, Ticks
<1>3. ASSUME C!StepBack PROVE StepsBack
  <2>1. hist' = [hist EXCEPT !.faults = hist.faults + 1, !.disordered = TRUE]
    BY <1>3 DEF C!StepBack
  <2>2. /\ hist' \in Hists /\ hist'.disordered
        /\ hist'.last = hist.last /\ hist'.count = hist.count /\ hist'.published = hist.published
    BY <1>1, <2>1 DEF Hists
  <2>3. clock' \in 0..MaxClock
    BY <1>1, <1>3 DEF C!StepBack
  <2> QED
    BY <1>3, <2>2, <2>3 DEF C!StepBack, StepsBack
<1> QED
  BY <1>2, <1>3

(* Publication.                                                              *)

\* The names of before, the first of them perhaps gone, and the new one.
Appended(x) ==
  \E k \in {0, 1} :
    /\ k = 1 => Len(hist.published) = Keep
    /\ Len(hist'.published) = Len(hist.published) + 1 - k
    /\ \A i \in 1..Len(hist'.published) :
         hist'.published[i] = IF i + k <= Len(hist.published) THEN hist.published[i + k] ELSE x

OutOfOrder(l) == l.of # hist.count /\ ~C!After(l.at, C!Last(hist.published))

LEMMA PublishedEffect ==
  ASSUME CacheConstants, HistTyped, HeldTyped, NEW l \in Labels, NEW id \in Nat, id <= hist.last,
         C!Published(l, id)
  PROVE  /\ HistTyped' /\ HeldTyped'
         /\ Appended(l.at) /\ hist'.count = hist.count + 1 /\ hist'.last = hist.last
         /\ ~hist'.disordered => ~hist.disordered /\ ~OutOfOrder(l)
         /\ artifacts' = artifacts \cup {[name |-> l.at, id |-> id]}
         /\ C!Names' = C!Names \cup {l.at}
<1> DEFINE new == [name |-> l.at, id |-> id]
           all == Append(hist.published, l.at)
           next == IF Len(all) > Keep THEN Tail(all) ELSE all
           late == hist.disordered \/ OutOfOrder(l)
<1>1. hist \in Hists /\ hist.count \in Nat /\ hist.last \in Nat /\ hist.published \in Seq(Stamps)
      /\ hist.disordered \in BOOLEAN /\ Len(hist.published) <= Keep /\ Keep \in Nat \ {0}
  BY DEF HistTyped, Hists, CacheConstants
<1>2. l.at \in Stamps /\ l.at[2] \in Nat /\ new \in Artifacts
  BY DEF Labels, Stamps, Artifacts
<1>3. hist' = [hist EXCEPT !.published = next, !.count = hist.count + 1, !.disordered = late]
  BY DEF C!Published, OutOfOrder
<1>4. artifacts' = artifacts \cup {new}
  BY DEF C!Published
<1>5. /\ all \in Seq(Stamps) /\ Len(all) = Len(hist.published) + 1
      /\ \A i \in 1..Len(all) : all[i] = IF i <= Len(hist.published) THEN hist.published[i] ELSE l.at
  BY <1>1, <1>2
<1> HIDE DEF all
<1>6. /\ next \in Seq(Stamps) /\ Len(next) <= Keep /\ Len(next) > 0
      /\ \E k \in {0, 1} :
           /\ k = 1 => Len(hist.published) = Keep
           /\ Len(next) = Len(hist.published) + 1 - k
           /\ \A i \in 1..Len(next) : next[i] = all[i + k]
  <2>1. CASE Len(all) > Keep
    <3>1. next = Tail(all) /\ Len(hist.published) = Keep
      BY <1>1, <1>5, <2>1
    <3>2. Tail(all) \in Seq(Stamps) /\ Len(Tail(all)) = Len(all) - 1
          /\ \A i \in 1..Len(Tail(all)) : Tail(all)[i] = all[i + 1]
      BY <1>5
    <3>3. Len(next) = Keep /\ Len(next) = Len(hist.published) + 1 - 1
      BY <1>1, <1>5, <3>1, <3>2
    <3>4. next \in Seq(Stamps) /\ \A i \in 1..Len(next) : next[i] = all[i + 1]
      BY <3>1, <3>2
    <3>5. Len(next) <= Keep /\ Len(next) > 0
      BY <1>1, <3>3
    <3> HIDE DEF next
    <3> QED
      BY <3>1, <3>3, <3>4, <3>5
  <2>2. CASE ~(Len(all) > Keep)
    <3>1. next = all /\ Len(next) = Len(hist.published) + 1 - 0
      BY <1>1, <1>5, <2>2
    <3>2. \A i \in 1..Len(next) : next[i] = all[i + 0]
      BY <1>5, <3>1
    <3> QED
      BY <1>1, <1>5, <2>2, <3>1, <3>2
  <2> QED
    BY <2>1, <2>2
<1> HIDE DEF next
<1>7. late \in BOOLEAN
  BY DEF OutOfOrder
<1> HIDE DEF late
<1>8. /\ hist' \in Hists /\ hist'.published = next /\ hist'.count = hist.count + 1
      /\ hist'.disordered = late /\ hist'.last = hist.last
  <2>1. hist.count + 1 \in Nat
    BY <1>1
  <2> QED
    BY <1>1, <1>3, <1>6, <1>7, <2>1 DEF Hists
<1>9. HistTyped'
  <2>1. hist'.count # 0 /\ hist'.published # <<>>
    BY <1>1, <1>6, <1>8
  <2> QED
    BY <1>6, <1>8, <2>1 DEF HistTyped
<1>10. Appended(l.at)
  <2>1. PICK k \in {0, 1} :
           /\ k = 1 => Len(hist.published) = Keep
           /\ Len(next) = Len(hist.published) + 1 - k
           /\ \A i \in 1..Len(next) : next[i] = all[i + k]
    BY <1>6
  <2>2. ASSUME NEW i \in 1..Len(next)
        PROVE  next[i] = IF i + k <= Len(hist.published) THEN hist.published[i + k] ELSE l.at
    <3>1. k = 0 \/ k = 1
      OBVIOUS
    <3>2. i + k \in 1..Len(all) /\ next[i] = all[i + k]
      BY <1>1, <1>5, <1>6, <2>1, <3>1
    <3> QED
      BY <1>5, <3>2
  <2> QED
    BY <1>8, <2>1, <2>2 DEF Appended
<1>11. HeldTyped'
  <2>1. artifacts \subseteq Artifacts /\ (\A a \in artifacts : a.id <= hist.last)
    BY DEF HeldTyped
  <2>2. PICK b \in Nat : \A a \in artifacts : a.name[2] <= b
    BY DEF HeldTyped
  <2>3. \A a \in artifacts : a.name[2] \in Nat
    BY <2>1 DEF Artifacts, Stamps
  <2>4. PICK c \in Nat : b <= c /\ l.at[2] <= c
    <3>1. CASE b <= l.at[2]
      BY <1>2, <3>1
    <3>2. CASE l.at[2] <= b
      BY <1>2, <3>2
    <3> QED
      BY <1>2, <3>1, <3>2
  <2>5. \A a \in artifacts' : a.name[2] <= c
    <3>1. TAKE a \in artifacts'
    <3>2. CASE a \in artifacts
      BY <2>2, <2>3, <2>4, <3>2
    <3>3. CASE a = new
      BY <2>4, <3>3
    <3> QED
      BY <1>4, <3>2, <3>3
  <2>6. artifacts' \subseteq Artifacts /\ \A a \in artifacts' : a.id <= hist'.last
    BY <1>2, <1>4, <1>8, <2>1
  <2>7. hist'.count # 0
    BY <1>1, <1>8
  <2> QED
    BY <2>5, <2>6, <2>7 DEF HeldTyped
<1>12. ~hist'.disordered => ~hist.disordered /\ ~OutOfOrder(l)
  BY <1>8 DEF late
<1>13. C!Names' = C!Names \cup {l.at}
  <2>1. new.name = l.at
    OBVIOUS
  <2> HIDE DEF new
  <2>2. {a.name : a \in artifacts'} = {a.name : a \in artifacts} \cup {l.at}
    BY <1>4, <2>1
  <2> QED
    BY <2>2 DEF C!Names
<1> QED
  BY <1>4, <1>8, <1>9, <1>10, <1>11, <1>12, <1>13

(* The order of the names.                                                   *)

\* While names are in order: the last of them ascend and are there; what else is there is
\* older; no two artifacts share a name; no name is of a second to come.
Lined ==
  /\ \A i, j \in 1..Len(hist.published) : i < j => C!After(hist.published[j], hist.published[i])
  /\ \A n \in C!Names : \/ \E i \in 1..Len(hist.published) : hist.published[i] = n
                        \/ \A i \in 1..Len(hist.published) : C!After(hist.published[i], n)
  /\ \A a, b \in artifacts : a.name = b.name => a = b
  /\ \A n \in C!Names : n[1] <= clock
  /\ \A i \in 1..Len(hist.published) : hist.published[i] \in C!Names

\* A name that was chosen comes after all that were published by then.
Due(l) ==
  /\ l.at[1] <= clock
  /\ l.of = hist.count /\ hist.count # 0 => C!After(l.at, hist.published[Len(hist.published)])
AllDue ==
  /\ \A p \in Procs : cli[p].at = "publish" => Due(cli[p].name)
  /\ job.at = "move" => Due(job.name)
Order == ~hist.disordered => Lined /\ AllDue

LEMMA AfterTransitive ==
  ASSUME NEW m \in Stamps, NEW n \in Stamps, NEW o \in Stamps, C!After(m, n), C!After(n, o)
  PROVE  C!After(m, o)
BY DEF Stamps, C!After

LEMMA AfterStrict ==
  ASSUME NEW m \in Stamps, NEW n \in Stamps, C!After(m, n)
  PROVE  ~C!After(n, m) /\ m # n
BY DEF Stamps, C!After

LEMMA NamesTyped ==
  ASSUME HeldTyped, HistTyped
  PROVE  /\ C!Names \subseteq Stamps
         /\ \A i \in 1..Len(hist.published) : hist.published[i] \in Stamps
         /\ Len(hist.published) \in Nat
         /\ hist.count # 0 => Len(hist.published) \in 1..Len(hist.published)
         /\ C!Last(hist.published) = hist.published[Len(hist.published)]
<1>1. C!Names \subseteq Stamps
  BY DEF C!Names, HeldTyped, Artifacts
<1>2. hist.published \in Seq(Stamps)
  BY DEF HistTyped, Hists
<1>3. hist.count # 0 => Len(hist.published) \in 1..Len(hist.published)
  BY <1>2 DEF HistTyped
<1> QED
  BY <1>1, <1>2, <1>3, EntryTyped DEF C!Last

LEMMA ChosenDue ==
  ASSUME CbTypes, Lined
  PROVE  Due(C!Chosen)
<1>1. clock \in Nat /\ hist.count \in Nat
  BY DEF CbTypes, ClockTyped, HistTyped, Hists
<1>2. C!Chosen.at[1] = clock /\ C!Chosen.at[2] = C!NextSeq(clock) /\ C!NextSeq(clock) \in Nat
  BY <1>1, ChosenTyped, NextSeqAfter DEF CbTypes
<1>3. ASSUME hist.count # 0 PROVE C!After(C!Chosen.at, hist.published[Len(hist.published)])
  <2> DEFINE last == hist.published[Len(hist.published)]
  <2>1. last \in Stamps /\ last \in C!Names /\ last[1] <= clock
    BY <1>3, NamesTyped DEF CbTypes, Lined
  <2>2. last[1] = clock => last[2] < C!NextSeq(clock)
    BY <1>1, <2>1, NextSeqAfter DEF CbTypes
  <2>3. last[1] \in Nat /\ last[2] \in Nat
    BY <2>1 DEF Stamps
  <2> QED
    BY <1>1, <1>2, <2>1, <2>2, <2>3 DEF C!After
<1> QED
  BY <1>1, <1>2, <1>3 DEF Due

LEMMA NextDue ==
  ASSUME CbTypes, NEW l \in Labels, Due(l)
  PROVE  Due([at |-> NextOf(l.at), of |-> l.of])
<1>1. l.at \in Stamps /\ l.at[1] \in Nat /\ l.at[2] \in Nat
  BY DEF Labels, Stamps
<1>2. ASSUME hist.count # 0, C!After(l.at, hist.published[Len(hist.published)])
      PROVE  C!After(NextOf(l.at), hist.published[Len(hist.published)])
  <2>1. hist.published[Len(hist.published)] \in Stamps
    BY <1>2, NamesTyped DEF CbTypes
  <2> QED
    BY <1>1, <1>2, <2>1 DEF C!After, NextOf, Stamps
<1> QED
  BY <1>1, <1>2 DEF Due, NextOf

\* A step that publishes nothing and turns no clock back keeps what was due.
SameNames == /\ hist'.published = hist.published /\ hist'.count = hist.count
             /\ clock' \in Nat /\ clock' >= clock

LEMMA DueStays ==
  ASSUME CbTypes, SameNames, NEW l \in Labels, Due(l)
  PROVE  Due(l)'
<1>1. l.at[1] \in Nat /\ clock \in Nat
  BY DEF Labels, Stamps, CbTypes, ClockTyped
<1> QED
  BY <1>1 DEF Due, SameNames, C!After

LEMMA LinedStays ==
  ASSUME CbTypes, SameNames, Lined, UNCHANGED artifacts
  PROVE  Lined'
<1>1. C!Names' = C!Names /\ \A n \in C!Names : n[1] \in Nat
  BY NamesTyped DEF C!Names, CbTypes, Stamps
<1>2. clock \in Nat
  BY DEF CbTypes, ClockTyped
<1> QED
  BY <1>1, <1>2 DEF Lined, SameNames, C!After

LEMMA SameCardinality == ASSUME NEW S PROVE C!Cardinality(S) = Cardinality(S)
BY DEF C!Cardinality, Cardinality, C!IsFiniteSet, IsFiniteSet

\* The artifacts that were published last are not evicted.
LEMMA PrunedKeepsLast ==
  ASSUME CacheConstants, CbTypes, Lined, NEW a \in artifacts,
         NEW i \in 1..Len(hist.published), a.name = hist.published[i]
  PROVE  a \in C!Pruned
<1> DEFINE N == C!Newer(a)
           at == [b \in N |-> CHOOSE j \in (i + 1)..Len(hist.published) : hist.published[j] = b.name]
<1>1. Len(hist.published) \in Nat /\ Len(hist.published) <= Keep /\ Keep \in Nat
  BY DEF CbTypes, HistTyped, Hists, CacheConstants
<1>2. ASSUME NEW b \in N
      PROVE  \E j \in (i + 1)..Len(hist.published) : hist.published[j] = b.name
  <2>1. b \in artifacts /\ C!After(b.name, hist.published[i])
    BY <1>2 DEF C!Newer
  <2>2. b.name \in C!Names /\ b.name \in Stamps /\ hist.published[i] \in Stamps
    BY <2>1, NamesTyped DEF C!Names, CbTypes
  <2>3. ~C!After(hist.published[i], b.name)
    BY <2>1, <2>2, AfterStrict
  <2>4. PICK j \in 1..Len(hist.published) : hist.published[j] = b.name
    BY <2>2, <2>3 DEF Lined
  <2>5. j # i
    BY <2>1, <2>2, <2>4, AfterStrict
  <2>6. ~(j < i)
    BY <2>3, <2>4 DEF Lined
  <2>7. j \in (i + 1)..Len(hist.published)
    BY <1>1, <2>4, <2>5, <2>6
  <2> QED
    BY <2>4, <2>7
<1>3. \A b \in N : at[b] \in (i + 1)..Len(hist.published) /\ hist.published[at[b]] = b.name
  BY <1>2
<1>4. at \in Injection(N, (i + 1)..Len(hist.published))
  <2>1. at \in [N -> (i + 1)..Len(hist.published)]
    BY <1>3
  <2>2. \A b, c \in N : at[b] = at[c] => b = c
    <3>1. \A b \in N : b \in artifacts
      BY DEF C!Newer
    <3> QED
      BY <1>3, <3>1 DEF Lined
  <2> HIDE DEF at
  <2>3. IsInjective(at)
    BY <2>1, <2>2 DEF IsInjective
  <2> QED
    BY <2>1, <2>3 DEF Injection
<1> HIDE DEF at
<1>5. /\ IsFiniteSet((i + 1)..Len(hist.published))
      /\ Cardinality((i + 1)..Len(hist.published)) = IF i + 1 > Len(hist.published) THEN 0 ELSE Len(hist.published) - (i + 1) + 1
  <2>1. i + 1 \in Int /\ Len(hist.published) \in Int
    BY <1>1
  <2> QED
    BY <2>1, FS_Interval
<1>6. IsFiniteSet(N) /\ Cardinality(N) <= Cardinality((i + 1)..Len(hist.published))
  BY <1>4, <1>5, FS_Injection
<1>7. Cardinality(N) \in Nat
  BY <1>6, FS_CardinalityType
<1>8. Cardinality(N) < Keep
  <2>1. i \in Nat /\ i >= 1 /\ i <= Len(hist.published)
    BY <1>1
  <2>2. Cardinality((i + 1)..Len(hist.published)) = Len(hist.published) - i
    BY <1>1, <1>5, <2>1
  <2> QED
    BY <1>1, <1>6, <1>7, <2>1, <2>2
<1>9. C!Cardinality(C!Newer(a)) < Keep
  BY <1>8, SameCardinality
<1> HIDE DEF N
<1> QED
  BY <1>9 DEF C!Pruned

\* A publication in order keeps the names in order.
LEMMA LinedPublished ==
  ASSUME CacheConstants, CbTypes, Lined, NEW l \in Labels, Due(l), l.at \notin C!Names,
         NEW id \in Nat, id <= hist.last, C!Published(l, id), ~hist'.disordered, UNCHANGED clock
  PROVE  Lined'
<1> DEFINE x == l.at
           P == hist.published
           Q == hist'.published
           L == Len(hist.published)
<1>1. /\ HistTyped' /\ HeldTyped' /\ Appended(x) /\ ~OutOfOrder(l)
      /\ artifacts' = artifacts \cup {[name |-> x, id |-> id]} /\ C!Names' = C!Names \cup {x}
  BY PublishedEffect DEF CbTypes
<1>2. /\ C!Names \subseteq Stamps /\ L \in Nat /\ \A i \in 1..L : P[i] \in Stamps
      /\ hist.count # 0 => L \in 1..L
      /\ C!Last(P) = P[L]
  BY NamesTyped DEF CbTypes
<1>3. x \in Stamps /\ x[1] \in Nat
  BY DEF Labels, Stamps
<1>4. L >= 1 => hist.count # 0
  <2>1. hist.count = 0 => P = <<>>
    BY DEF CbTypes, HistTyped
  <2>2. P = <<>> => L = 0
    OBVIOUS
  <2> QED
    BY <1>2, <2>1, <2>2
<1>5. hist.count # 0 => C!After(x, P[L])
  BY <1>1, <1>2 DEF Due, OutOfOrder
<1>6. ASSUME NEW m \in 1..L PROVE C!After(x, P[m])
  <2>1. C!After(x, P[L]) /\ L \in 1..L
    BY <1>2, <1>4, <1>5
  <2>2. CASE m = L
    BY <2>1, <2>2
  <2>3. CASE m < L
    <3>1. C!After(P[L], P[m])
      BY <2>1, <2>3 DEF Lined
    <3> QED
      BY <1>2, <1>3, <2>1, <3>1, AfterTransitive
  <2> QED
    BY <1>2, <2>2, <2>3
<1>7. PICK k \in {0, 1} :
        /\ k = 1 => L = Keep
        /\ Len(Q) = L + 1 - k
        /\ \A i \in 1..Len(Q) : Q[i] = IF i + k <= L THEN P[i + k] ELSE x
  BY <1>1 DEF Appended
<1>8. (k = 0 \/ k = 1) /\ Len(Q) \in Nat /\ Len(Q) + k = L + 1 /\ Len(Q) >= 1
  <2>1. (k = 0 \/ k = 1) /\ Keep \in Nat /\ Keep >= 1
    BY DEF CacheConstants
  <2>2. Len(Q) = L + 1 - k /\ (k = 1 => L >= 1)
    BY <1>7, <2>1
  <2>3. L \in Nat
    BY <1>2
  <2> HIDE DEF L, Q
  <2>4. Len(Q) \in Nat /\ Len(Q) >= 1
    BY <2>1, <2>2, <2>3
  <2> QED
    BY <2>1, <2>2, <2>3, <2>4
<1>9. ASSUME NEW i \in 1..Len(Q)
      PROVE  (i + k \in 1..L /\ Q[i] = P[i + k]) \/ (i + k = L + 1 /\ Q[i] = x)
  <2>1. L \in Nat /\ Q[i] = IF i + k <= L THEN P[i + k] ELSE x
    BY <1>2, <1>7
  <2> HIDE DEF L, P, Q, x
  <2>2. i + k \in 1..(L + 1)
    BY <1>8, <2>1
  <2> QED
    BY <1>8, <2>1, <2>2
<1>10. ASSUME NEW i \in 1..Len(Q), NEW j \in 1..Len(Q), i < j PROVE C!After(Q[j], Q[i])
  <2>1. i + k \in 1..L /\ Q[i] = P[i + k]
    BY <1>2, <1>8, <1>9, <1>10
  <2>2. CASE j + k \in 1..L /\ Q[j] = P[j + k]
    <3>1. i + k < j + k
      BY <1>8, <1>10
    <3> QED
      BY <2>1, <2>2, <3>1 DEF Lined
  <2>3. CASE Q[j] = x
    BY <1>6, <2>1, <2>3
  <2> QED
    BY <1>9, <2>2, <2>3
<1>11. Q[Len(Q)] = x
  BY <1>2, <1>8, <1>9
<1>12. ASSUME NEW n \in C!Names'
       PROVE  (\E i \in 1..Len(Q) : Q[i] = n) \/ (\A i \in 1..Len(Q) : C!After(Q[i], n))
  <2>1. CASE n = x
    BY <1>8, <1>11, <2>1
  <2>2. ASSUME n \in C!Names, NEW m \in 1..L, P[m] = n
        PROVE  (\E i \in 1..Len(Q) : Q[i] = n) \/ (\A i \in 1..Len(Q) : C!After(Q[i], n))
    <3>1. CASE k = 0
      <4>1. m \in 1..Len(Q) /\ m + k = m /\ m <= L
        BY <1>2, <1>8, <3>1
      <4>2. Q[m] = P[m]
        BY <1>7, <4>1
      <4> QED
        BY <2>2, <4>1, <4>2
    <3>2. CASE k = 1 /\ m > 1
      <4>1. m - 1 \in 1..Len(Q) /\ (m - 1) + k = m /\ m <= L
        BY <1>2, <1>8, <3>2
      <4>2. Q[m - 1] = P[m]
        BY <1>7, <4>1
      <4> QED
        BY <2>2, <4>1, <4>2
    <3>3. CASE k = 1 /\ m = 1
      <4>1. ASSUME NEW i \in 1..Len(Q) PROVE C!After(Q[i], n)
        <5>1. CASE i + k \in 1..L /\ Q[i] = P[i + k]
          <6>1. m < i + k
            BY <3>3
          <6> QED
            BY <2>2, <5>1, <6>1 DEF Lined
        <5>2. CASE Q[i] = x
          BY <1>6, <2>2, <5>2
        <5> QED
          BY <1>9, <5>1, <5>2
      <4> QED
        BY <4>1
    <3> QED
      BY <1>2, <1>8, <3>1, <3>2, <3>3
  <2>3. ASSUME n \in C!Names, \A m \in 1..L : C!After(P[m], n)
        PROVE  \A i \in 1..Len(Q) : C!After(Q[i], n)
    <3>1. hist.count # 0
      BY <2>3 DEF C!Names, CbTypes, HeldTyped
    <3>2. C!After(x, P[L]) /\ C!After(P[L], n) /\ P[L] \in Stamps /\ n \in Stamps
      BY <1>2, <1>5, <2>3, <3>1
    <3>3. C!After(x, n)
      BY <1>3, <3>2, AfterTransitive
    <3> QED
      BY <1>9, <2>3, <3>3
  <2> QED
    BY <1>1, <1>12, <2>1, <2>2, <2>3 DEF Lined
<1>13. ASSUME NEW a \in artifacts', NEW b \in artifacts', a.name = b.name PROVE a = b
  <2> DEFINE new == [name |-> x, id |-> id]
  <2>1. \A c \in artifacts : c.name # x
    BY DEF C!Names
  <2>2. new.name = x /\ artifacts' = artifacts \cup {new}
    BY <1>1
  <2> HIDE DEF new, x
  <2> QED
    BY <1>13, <2>1, <2>2 DEF Lined
<1>14. \A n \in C!Names' : n[1] <= clock'
  BY <1>1 DEF Lined, Due
<1>15. \A i \in 1..Len(Q) : Q[i] \in C!Names'
  BY <1>1, <1>9 DEF Lined
<1> QED
  BY <1>10, <1>12, <1>13, <1>14, <1>15 DEF Lined

\* An eviction keeps them in order, too.
LEMMA LinedPruned ==
  ASSUME CacheConstants, CbTypes, Lined, artifacts' = C!Pruned,
         hist'.published = hist.published, UNCHANGED clock
  PROVE  Lined'
<1>1. artifacts' \subseteq artifacts /\ C!Names' \subseteq C!Names
  BY DEF C!Pruned, C!Names
<1>2. ASSUME NEW i \in 1..Len(hist.published) PROVE hist.published[i] \in C!Names'
  <2>1. PICK a \in artifacts : a.name = hist.published[i]
    BY DEF Lined, C!Names
  <2>2. a \in artifacts'
    BY <2>1, PrunedKeepsLast
  <2> QED
    BY <2>1, <2>2 DEF C!Names
<1> QED
  BY <1>1, <1>2 DEF Lined, C!After

LEMMA SameNamesHolds ==
  ASSUME CbTypes, hist'.published = hist.published, hist'.count = hist.count, UNCHANGED clock
  PROVE  SameNames
BY DEF SameNames, CbTypes, ClockTyped

JobStays == job'.at = "move" => job.at = "move" /\ job'.name = job.name

LEMMA AllDueOne ==
  ASSUME CbTypes, SameNames, AllDue, NEW p \in Procs, JobStays,
         \A q \in Procs : q # p => cli'[q] = cli[q],
         cli'[p].at # "publish" \/ \E l \in Labels : cli'[p].name = l /\ Due(l)
  PROVE  AllDue'
<1>1. ASSUME NEW q \in Procs, cli'[q].at = "publish" PROVE Due(cli[q].name)'
  <2>1. PICK l \in Labels : cli'[q].name = l /\ Due(l)
    <3>1. CASE q = p
      BY <1>1, <3>1
    <3>2. CASE q # p
      <4>1. cli'[q] = cli[q] /\ cli[q].name \in Labels
        BY <3>2 DEF CbTypes, CliTyped, Errands
      <4> QED
        BY <1>1, <4>1 DEF AllDue
    <3> QED
      BY <3>1, <3>2
  <2>2. Due(l)'
    BY <2>1, DueStays
  <2> QED
    BY <2>1, <2>2 DEF Due
<1>2. ASSUME job'.at = "move" PROVE Due(job.name)'
  <2>1. PICK l \in Labels : job'.name = l /\ Due(l)
    BY <1>2 DEF JobStays, AllDue, CbTypes, JobTyped, Jobs
  <2>2. Due(l)'
    BY <2>1, DueStays
  <2> QED
    BY <2>1, <2>2 DEF Due
<1> QED
  BY <1>1, <1>2 DEF AllDue

LEMMA AllDueDaemon ==
  ASSUME CbTypes, SameNames, AllDue,
         \A q \in Procs : cli'[q] = cli[q] \/ cli'[q] = C!Idle,
         job'.at # "move" \/ \E l \in Labels : job'.name = l /\ Due(l)
  PROVE  AllDue'
<1>1. ASSUME NEW q \in Procs, cli'[q].at = "publish" PROVE Due(cli[q].name)'
  <2>1. cli'[q] = cli[q] /\ cli[q].name \in Labels
    BY <1>1 DEF CbTypes, CliTyped, Errands, C!Idle
  <2>2. PICK l \in Labels : cli'[q].name = l /\ Due(l)
    BY <1>1, <2>1 DEF AllDue
  <2>3. Due(l)'
    BY <2>2, DueStays
  <2> QED
    BY <2>2, <2>3 DEF Due
<1>2. ASSUME job'.at = "move" PROVE Due(job.name)'
  <2>1. PICK l \in Labels : job'.name = l /\ Due(l)
    BY <1>2
  <2>2. Due(l)'
    BY <2>1, DueStays
  <2> QED
    BY <2>1, <2>2 DEF Due
<1> QED
  BY <1>1, <1>2 DEF AllDue

LEMMA CliOrder ==
  ASSUME CacheConstants, CbTypes, Order, NEW p \in Procs,
         Quiet(p) \/ Looks(p) \/ Drops(p) \/ Strays(p) \/ Departs(p) \/ Evicts(p)
  PROVE  Order'
<1>1. /\ hist'.published = hist.published /\ hist'.count = hist.count /\ hist'.disordered = hist.disordered
      /\ UNCHANGED clock
  BY DEF Quiet, Looks, Drops, Strays, Departs, Evicts, Aside, MildHist
<1>2. JobStays /\ cli'[p].at # "publish" /\ \A q \in Procs : q # p => cli'[q] = cli[q]
  BY DEF Quiet, Looks, Drops, Strays, Departs, Evicts, Aside, Plain, Others, JobStays
<1>3. ASSUME ~hist.disordered PROVE Lined' /\ AllDue'
  <2>1. SameNames /\ Lined /\ AllDue
    BY <1>1, <1>3, SameNamesHolds DEF Order
  <2>2. AllDue'
    BY <1>2, <2>1, AllDueOne
  <2>3. CASE UNCHANGED artifacts
    BY <2>1, <2>2, <2>3, LinedStays
  <2>4. CASE artifacts' = C!Pruned
    BY <1>1, <2>1, <2>2, <2>4, LinedPruned
  <2> QED
    BY <2>3, <2>4 DEF Quiet, Looks, Drops, Strays, Departs, Evicts, Aside
<1> QED
  BY <1>1, <1>3 DEF Order

LEMMA StageOrder ==
  ASSUME CacheConstants, CbTypes, Order, NEW p \in Procs, Stages(p) \/ Renumbers(p)
  PROVE  Order'
<1>1. UNCHANGED <<hist, clock, artifacts, job>> /\ \A q \in Procs : q # p => cli'[q] = cli[q]
  BY DEF Stages, Renumbers, Aside, Others
<1>2. ASSUME ~hist.disordered PROVE Lined' /\ AllDue'
  <2>1. SameNames /\ Lined /\ AllDue /\ JobStays
    BY <1>1, <1>2, SameNamesHolds DEF Order, JobStays
  <2>2. \E l \in Labels : cli'[p].name = l /\ Due(l)
    <3>1. CASE Stages(p)
      BY <2>1, <3>1, ChosenDue, ChosenTyped DEF Stages
    <3>2. CASE Renumbers(p)
      <4>1. cli[p].name \in Labels /\ Due(cli[p].name)
        BY <2>1, <3>2 DEF Renumbers, AllDue, CbTypes, CliTyped, Errands
      <4>2. PICK l \in Labels : l = cli[p].name
        BY <4>1
      <4>3. Due([at |-> NextOf(l.at), of |-> l.of])
        BY <4>1, <4>2, NextDue
      <4>4. [at |-> NextOf(l.at), of |-> l.of] \in Labels
        BY <4>2 DEF Labels, Stamps, NextOf
      <4> QED
        BY <3>2, <4>2, <4>3, <4>4 DEF Renumbers
    <3> QED
      BY <3>1, <3>2
  <2> QED
    BY <1>1, <2>1, <2>2, AllDueOne, LinedStays
<1> QED
  BY <1>1, <1>2 DEF Order

\* What others had chosen when a name is published is not the latest choice any more.
LEMMA DuePublished ==
  ASSUME CacheConstants, CbTypes, NEW l \in Labels, NEW m \in Labels, Due(m), m.of <= hist.count,
         NEW id \in Nat, id <= hist.last, C!Published(l, id), UNCHANGED clock
  PROVE  Due(m)'
<1>1. hist'.count = hist.count + 1
  BY PublishedEffect DEF CbTypes
<1>2. m.of \in Nat /\ hist.count \in Nat
  BY DEF Labels, CbTypes, HistTyped, Hists
<1>3. m.of # hist'.count
  BY <1>1, <1>2
<1> QED
  BY <1>3 DEF Due

LEMMA PublishOrder ==
  ASSUME CacheConstants, CbTypes, Order, NEW p \in Procs, Publishes(p)
  PROVE  Order'
<1> SUFFICES ASSUME ~hist'.disordered PROVE Lined' /\ AllDue'
  BY DEF Order
<1>1. /\ cli[p].name \in Labels /\ cli[p].seen \in Nat /\ cli[p].seen <= hist.last
      /\ cli[p].at = "publish" /\ cli[p].name.at \notin C!Names
      /\ C!Published(cli[p].name, cli[p].seen)
  BY DEF Publishes, CbTypes, CliTyped, Errands
<1>2. PICK l \in Labels, id \in Nat :
        l = cli[p].name /\ id = cli[p].seen
  BY <1>1
<1>3. C!Published(l, id) /\ id <= hist.last /\ l.at \notin C!Names
  BY <1>1, <1>2
<1>4. ~hist.disordered
  BY <1>3, PublishedEffect DEF CbTypes
<1>5. Lined /\ AllDue /\ Due(l) /\ UNCHANGED <<clock, job>>
  BY <1>1, <1>2, <1>4 DEF Order, AllDue, Publishes
<1>6. Lined'
  BY <1>3, <1>5, LinedPublished
<1>7. ASSUME NEW q \in Procs, cli'[q].at = "publish" PROVE Due(cli[q].name)'
  <2>1. cli'[q] = cli[q] /\ cli[q].name \in Labels /\ cli[q].name.of <= hist.count
    BY <1>7 DEF Publishes, Others, CbTypes, CliTyped, Errands
  <2>2. PICK m \in Labels : m = cli[q].name /\ m.of <= hist.count /\ Due(m)
    BY <1>5, <1>7, <2>1 DEF AllDue
  <2>3. Due(m)'
    BY <1>3, <1>5, <2>2, DuePublished
  <2> QED
    BY <2>1, <2>2, <2>3 DEF Due
<1>8. ASSUME job'.at = "move" PROVE Due(job.name)'
  <2>1. PICK m \in Labels : m = job.name /\ m.of <= hist.count /\ Due(m)
    BY <1>5, <1>8 DEF AllDue, CbTypes, JobTyped, Jobs
  <2>2. Due(m)'
    BY <1>3, <1>5, <2>1, DuePublished
  <2> QED
    BY <1>5, <2>1, <2>2 DEF Due
<1> QED
  BY <1>6, <1>7, <1>8 DEF AllDue

LEMMA MoveAsideOrder ==
  ASSUME CacheConstants, CbTypes, Order, MovesAside
  PROVE  Order'
<1> SUFFICES ASSUME ~hist'.disordered PROVE Lined' /\ AllDue'
  BY DEF Order
<1>1. /\ job.name \in Labels /\ file.id \in Nat /\ file.id <= hist.last
      /\ job.at = "move" /\ job.name.at \notin C!Names
      /\ C!Published(job.name, file.id)
  BY DEF MovesAside, CbTypes, JobTyped, Jobs, FileTyped, C!Databases
<1>2. PICK l \in Labels, id \in Nat : l = job.name /\ id = file.id
  BY <1>1
<1>3. C!Published(l, id) /\ id <= hist.last /\ l.at \notin C!Names
  BY <1>1, <1>2
<1>4. ~hist.disordered
  BY <1>3, PublishedEffect DEF CbTypes
<1>5. Lined /\ AllDue /\ Due(l) /\ UNCHANGED <<clock, cli>>
  BY <1>1, <1>2, <1>4 DEF Order, AllDue, MovesAside
<1>6. Lined'
  BY <1>3, <1>5, LinedPublished
<1>7. ASSUME NEW q \in Procs, cli'[q].at = "publish" PROVE Due(cli[q].name)'
  <2>1. cli'[q] = cli[q] /\ cli[q].name \in Labels /\ cli[q].name.of <= hist.count
    BY <1>5 DEF CbTypes, CliTyped, Errands
  <2>2. PICK m \in Labels : m = cli[q].name /\ m.of <= hist.count /\ Due(m)
    BY <1>5, <1>7, <2>1 DEF AllDue
  <2>3. Due(m)'
    BY <1>3, <1>5, <2>2, DuePublished
  <2> QED
    BY <2>1, <2>2, <2>3 DEF Due
<1>8. job'.at # "move"
  BY DEF MovesAside
<1> QED
  BY <1>6, <1>7, <1>8 DEF AllDue

LEMMA DaemonOrder ==
  ASSUME CacheConstants, CbTypes, Order, Takes \/ Gates \/ MovesLater \/ EvictsMoved \/ Spawns
  PROVE  Order'
<1>1. /\ hist'.published = hist.published /\ hist'.count = hist.count /\ hist'.disordered = hist.disordered
      /\ UNCHANGED clock
  BY DEF Takes, Gates, MovesLater, EvictsMoved, Spawns, MildHist
<1>2. \A q \in Procs : cli'[q] = cli[q] \/ cli'[q] = C!Idle
  BY DEF Takes, Gates, MovesLater, EvictsMoved, Spawns, Settled
<1>3. ASSUME ~hist.disordered PROVE Lined' /\ AllDue'
  <2>1. SameNames /\ Lined /\ AllDue
    BY <1>1, <1>3, SameNamesHolds DEF Order
  <2>2. job'.at # "move" \/ \E l \in Labels : job'.name = l /\ Due(l)
    <3>1. CASE Takes \/ EvictsMoved \/ Spawns
      BY <3>1 DEF Takes, EvictsMoved, Spawns, C!AtGate, C!NoJob
    <3>2. CASE Gates
      BY <2>1, <3>2, ChosenDue, ChosenTyped DEF Gates, C!AtGate
    <3>3. CASE MovesLater
      <4>1. CASE job'.at \in {"idle", C!AtGate}
        BY <4>1 DEF C!AtGate
      <4>2. CASE job'.name = [at |-> NextOf(job.name.at), of |-> job.name.of]
        <5>1. job.name \in Labels /\ Due(job.name)
          BY <2>1, <3>3 DEF MovesLater, AllDue, CbTypes, JobTyped, Jobs
        <5>2. PICK l \in Labels : l = job.name
          BY <5>1
        <5>3. Due([at |-> NextOf(l.at), of |-> l.of])
          BY <5>1, <5>2, NextDue
        <5>4. [at |-> NextOf(l.at), of |-> l.of] \in Labels
          BY <5>2 DEF Labels, Stamps, NextOf
        <5> QED
          BY <4>2, <5>2, <5>3, <5>4
      <4> QED
        BY <3>3, <4>1, <4>2 DEF MovesLater
    <3> QED
      BY <3>1, <3>2, <3>3
  <2>3. AllDue'
    BY <1>2, <2>1, <2>2, AllDueDaemon
  <2>4. CASE UNCHANGED artifacts
    BY <2>1, <2>3, <2>4, LinedStays
  <2>5. CASE artifacts' = C!Pruned
    BY <1>1, <2>1, <2>3, <2>5, LinedPruned
  <2> QED
    BY <2>4, <2>5 DEF Takes, Gates, MovesLater, EvictsMoved, Spawns
<1> QED
  BY <1>1, <1>3 DEF Order

LEMMA FaultOrder ==
  ASSUME CacheConstants, CbTypes, Order, Disturbs \/ Ticks \/ StepsBack \/ Reboots
  PROVE  Order'
<1>1. CASE StepsBack
  BY <1>1 DEF StepsBack, Order
<1>2. CASE Disturbs \/ Ticks \/ Reboots
  <2>1. /\ hist'.published = hist.published /\ hist'.count = hist.count
        /\ hist'.disordered = hist.disordered /\ UNCHANGED artifacts
    BY <1>2 DEF Disturbs, Ticks, Reboots, MildHist
  <2>2. clock \in Nat /\ (clock' = clock \/ clock' = clock + 1)
    BY <1>2 DEF Disturbs, Ticks, Reboots, CbTypes, ClockTyped
  <2>3. SameNames
    BY <2>1, <2>2 DEF SameNames
  <2>4. \A q \in Procs : cli'[q] = cli[q] \/ cli'[q] = C!Idle
    BY <1>2 DEF Disturbs, Ticks, Reboots
  <2>5. job' = job \/ job' = C!NoJob
    BY <1>2 DEF Disturbs, Ticks, Reboots
  <2>6. ASSUME ~hist.disordered PROVE Lined' /\ AllDue'
    <3>1. Lined /\ AllDue
      BY <2>6 DEF Order
    <3>2. job'.at # "move" \/ \E l \in Labels : job'.name = l /\ Due(l)
      BY <2>5, <3>1 DEF AllDue, CbTypes, JobTyped, Jobs, C!NoJob
    <3> QED
      BY <2>1, <2>3, <2>4, <3>1, <3>2, AllDueDaemon, LinedStays
  <2> QED
    BY <2>1, <2>6 DEF Order
<1> QED
  BY <1>1, <1>2

(* Types from step to step.                                                  *)

LEMMA OthersTyped ==
  ASSUME CliTyped, HistTyped, hist' \in Hists, hist'.last >= hist.last, hist'.count >= hist.count,
         NEW p \in Procs, Others(p), cli'[p].seen <= hist'.last, cli'[p].name.of <= hist'.count
  PROVE  CliTyped'
<1>1. hist.last \in Nat /\ hist'.last \in Nat /\ hist.count \in Nat /\ hist'.count \in Nat
  BY DEF HistTyped, Hists
<1>2. ASSUME NEW q \in Procs, q # p PROVE cli'[q].seen <= hist'.last /\ cli'[q].name.of <= hist'.count
  <2>1. /\ cli[q].seen \in Nat /\ cli[q].name.of \in Nat /\ cli'[q] = cli[q]
        /\ cli[q].seen <= hist.last /\ cli[q].name.of <= hist.count
    BY <1>2 DEF CliTyped, Errands, Labels, Others
  <2> QED
    BY <1>1, <2>1
<1> QED
  BY <1>2 DEF CliTyped, Others

LEMMA HistNumbers ==
  ASSUME HistTyped
  PROVE  hist.last \in Nat /\ hist.count \in Nat /\ hist \in Hists /\ hist.last >= 2
BY DEF HistTyped, Hists, C!Unread

LEMMA QuietTypes ==
  ASSUME CbTypes, NEW p \in Procs, Quiet(p), UNCHANGED queue \/ Sends(p)
  PROVE  CbTypes'
<1>1. HistTyped' /\ FileTyped' /\ HeldTyped' /\ JobTyped' /\ (UNCHANGED queue => QueueTyped')
  BY MildTyped DEF CbTypes, Quiet
<1>2. CliTyped'
  BY HistNumbers, PlainTyped DEF CbTypes, Quiet, MildHist
<1>3. ASSUME Sends(p) PROVE QueueTyped'
  <2> DEFINE w == [client |-> p, again |-> TRUE, seen |-> cli[p].seen]
  <2>1. w \in C!Waiting /\ w.seen <= hist.last
    BY DEF C!Waiting, CbTypes, CliTyped, Errands
  <2>2. queue \in Seq(C!Waiting) /\ \A n \in 1..Len(queue) : queue[n].seen <= hist.last
    BY DEF CbTypes, QueueTyped
  <2>3. queue' = Append(queue, w)
    BY <1>3 DEF Sends
  <2> HIDE DEF w
  <2>4. /\ queue' \in Seq(C!Waiting) /\ Len(queue') = Len(queue) + 1
        /\ \A n \in 1..Len(queue') : queue'[n] = IF n <= Len(queue) THEN queue[n] ELSE w
    BY <2>1, <2>2, <2>3
  <2>5. ASSUME NEW n \in 1..Len(queue') PROVE queue'[n].seen <= hist.last
    <3>1. CASE n <= Len(queue)
      BY <2>2, <2>4, <3>1
    <3>2. CASE ~(n <= Len(queue))
      BY <2>1, <2>4, <3>2
    <3> QED
      BY <3>1, <3>2
  <2> QED
    BY <2>4, <2>5 DEF QueueTyped, Quiet
<1> QED
  BY <1>1, <1>2, <1>3 DEF CbTypes, Quiet, ClockTyped, HostTyped, PermTyped

LEMMA CliTypes ==
  ASSUME CacheConstants, CbTypes, NEW p \in Procs, Looks(p) \/ Stages(p) \/ Drops(p) \/ Strays(p) \/ Renumbers(p)
  PROVE  CbTypes'
<1>1. MildHist /\ hist'.last = hist.last /\ Aside
  BY StillMild DEF Looks, Stages, Drops, Strays, Renumbers, CbTypes
<1>2. HistTyped' /\ FileTyped' /\ HeldTyped' /\ JobTyped' /\ QueueTyped'
  BY <1>1, MildTyped DEF CbTypes, Aside
<1>3. /\ file.id <= hist.last /\ hist'.count = hist.count /\ hist' \in Hists
      /\ cli[p] \in Errands /\ cli[p].name \in Labels /\ cli[p].name.of \in Nat
      /\ cli[p].seen <= hist.last /\ cli[p].name.of <= hist.count
  BY <1>1 DEF CbTypes, FileTyped, MildHist, CliTyped, Errands, Labels
<1>4. CliTyped'
  <2>1. CASE Drops(p) \/ Strays(p)
    BY <1>1, <1>3, <2>1, HistNumbers, PlainTyped DEF Drops, Strays, CbTypes
  <2>2. CASE Looks(p)
    BY <1>1, <1>3, <2>2, HistNumbers, OthersTyped DEF Looks, CbTypes
  <2>3. CASE Stages(p)
    BY <1>1, <1>3, <2>3, HistNumbers, ChosenTyped, OthersTyped DEF Stages, CbTypes
  <2>4. CASE Renumbers(p)
    <3>1. cli'[p].name.of = cli[p].name.of /\ cli'[p].seen = cli[p].seen
      BY <2>4 DEF Renumbers
    <3> QED
      BY <1>1, <1>3, <2>4, <3>1, HistNumbers, OthersTyped DEF Renumbers, CbTypes
  <2> QED
    BY <2>1, <2>2, <2>3, <2>4
<1>5. partials' \subseteq Stamps
  <2>1. C!Chosen.at \in Stamps /\ partials \subseteq Stamps
    BY ChosenTyped DEF Labels, CbTypes, ClockTyped
  <2>2. NextOf(cli[p].name.at) \in Stamps
    BY <1>3 DEF NextOf, Labels, Stamps
  <2> QED
    BY <2>1, <2>2 DEF Looks, Stages, Drops, Strays, Renumbers
<1> QED
  BY <1>1, <1>2, <1>4, <1>5 DEF CbTypes, Aside, ClockTyped, HostTyped, PermTyped

LEMMA PublishTypes ==
  ASSUME CacheConstants, CbTypes, NEW p \in Procs, Publishes(p)
  PROVE  CbTypes'
<1>1. /\ cli[p].name \in Labels /\ cli[p].seen \in Nat /\ cli[p].seen <= hist.last
      /\ cli'[p].name = C!NoName /\ cli'[p].seen = cli[p].seen
  BY DEF Publishes, CbTypes, CliTyped, Errands
<1>2. PICK l \in Labels, id \in Nat : l = cli[p].name /\ id = cli[p].seen
  BY <1>1
<1>3. HistTyped' /\ HeldTyped' /\ hist'.count = hist.count + 1 /\ hist'.last = hist.last
  BY <1>1, <1>2, PublishedEffect DEF Publishes, CbTypes
<1>4. hist' \in Hists /\ hist'.count >= hist.count /\ hist'.last >= hist.last
  BY <1>3, HistNumbers DEF HistTyped, CbTypes
<1>5. CliTyped'
  <2>1. cli'[p].name.of <= hist'.count
    BY <1>1, <1>3, HistNumbers DEF CbTypes, C!NoName
  <2> QED
    BY <1>1, <1>3, <1>4, <2>1, OthersTyped DEF Publishes, CbTypes
<1>6. JobTyped'
  BY <1>3, HistNumbers DEF CbTypes, JobTyped, Jobs, Labels, Publishes
<1>7. FileTyped' /\ QueueTyped'
  BY <1>3 DEF CbTypes, FileTyped, QueueTyped, Publishes, Bad
<1> QED
  BY <1>3, <1>5, <1>6, <1>7 DEF CbTypes, Publishes, ClockTyped, HostTyped, PermTyped

LEMMA EvictTypes ==
  ASSUME CbTypes, artifacts' = C!Pruned, UNCHANGED hist
  PROVE  HeldTyped'
BY DEF CbTypes, HeldTyped, C!Pruned

LEMMA EvictsTypes ==
  ASSUME CbTypes, NEW p \in Procs, Evicts(p)
  PROVE  CbTypes'
<1>1. MildHist /\ HeldTyped'
  BY StillMild, EvictTypes DEF CbTypes, Evicts
<1>2. HistTyped' /\ FileTyped' /\ JobTyped' /\ QueueTyped'
  BY <1>1, MildTyped DEF CbTypes, Evicts
<1>3. CliTyped'
  BY HistNumbers, PlainTyped DEF CbTypes, Evicts
<1> QED
  BY <1>1, <1>2, <1>3 DEF CbTypes, Evicts, ClockTyped, HostTyped, PermTyped

LEMMA DepartTypes ==
  ASSUME CbTypes, NEW p \in Procs, Departs(p)
  PROVE  CbTypes'
<1>1. HistTyped' /\ FileTyped' /\ HeldTyped'
  BY MildTyped DEF CbTypes, Departs
<1>2. CliTyped'
  BY HistNumbers, PlainTyped DEF CbTypes, Departs, MildHist
<1>3. JobTyped' /\ QueueTyped'
  BY DEF CbTypes, JobTyped, QueueTyped, Departs, MildHist
<1> QED
  BY <1>1, <1>2, <1>3 DEF CbTypes, Departs, ClockTyped, HostTyped, PermTyped

LEMMA DaemonTypes ==
  ASSUME CacheConstants, CbTypes, Takes \/ Gates \/ MovesLater \/ EvictsMoved \/ Spawns
  PROVE  CbTypes'
<1>1. MildHist /\ hist'.last = hist.last
  BY StillMild DEF Takes, Gates, MovesLater, EvictsMoved, Spawns, CbTypes
<1>2. HistTyped' /\ (UNCHANGED queue => QueueTyped')
  BY <1>1, MildTyped DEF CbTypes
<1>3. HeldTyped'
  <2>1. CASE UNCHANGED artifacts
    BY <1>1, <2>1, MildTyped DEF CbTypes
  <2>2. CASE EvictsMoved
    BY <2>2, EvictTypes DEF EvictsMoved
  <2> QED
    BY <2>1, <2>2 DEF Takes, Gates, MovesLater, EvictsMoved, Spawns
<1>4. CliTyped'
  <2>1. CASE UNCHANGED cli
    BY <1>1, <2>1, MildTyped DEF CbTypes
  <2>2. CASE Settled
    BY <1>1, <2>2, HistNumbers, SettledTyped DEF CbTypes, MildHist
  <2> QED
    BY <2>1, <2>2 DEF Takes, Gates, MovesLater, EvictsMoved, Spawns
<1>5. FileTyped'
  <2>1. CASE UNCHANGED file
    BY <1>1, <2>1, MildTyped DEF CbTypes
  <2>2. CASE file' = [kind |-> "sound", id |-> C!Sound]
    BY <1>1, <2>2, HistNumbers DEF FileTyped, C!Databases, C!Kinds, C!Sound, Bad, CbTypes
  <2> QED
    BY <2>1, <2>2 DEF Takes, Gates, MovesLater, EvictsMoved, Spawns
<1>6. QueueTyped'
  <2>1. CASE Takes
    <3>1. /\ queue \in Seq(C!Waiting) /\ queue # <<>> /\ queue' = Tail(queue)
          /\ \A n \in 1..Len(queue) : queue[n].seen <= hist.last
      BY <2>1 DEF Takes, CbTypes, QueueTyped
    <3>2. /\ queue' \in Seq(C!Waiting) /\ Len(queue') = Len(queue) - 1
          /\ \A n \in 1..Len(queue') : queue'[n] = queue[n + 1]
      BY <3>1
    <3>3. \A n \in 1..Len(queue') : queue'[n].seen <= hist.last
      BY <3>1, <3>2
    <3> QED
      BY <1>1, <3>2, <3>3 DEF QueueTyped
  <2> QED
    BY <1>2, <2>1 DEF Takes, Gates, MovesLater, EvictsMoved, Spawns
<1>7. job' \in Jobs /\ job'.seen <= hist.last /\ job'.name.of <= hist.count
  <2>1. job.seen <= hist.last /\ job.name.of <= hist.count /\ C!Unread <= hist.last /\ C!NoName.of <= hist.count
    BY HistNumbers DEF CbTypes, JobTyped, C!Unread, C!NoName
  <2>2. file.id <= hist.last /\ C!Chosen.of <= hist.count
    BY ChosenTyped, HistNumbers DEF CbTypes, FileTyped
  <2>3. CASE Takes
    <3>1. queue \in Seq(C!Waiting) /\ queue # <<>>
      BY <2>3 DEF Takes, CbTypes, QueueTyped
    <3>2. 1 \in 1..Len(queue) /\ Head(queue) = queue[1]
      BY <3>1
    <3> QED
      BY <2>1, <2>3, <3>2 DEF Takes, CbTypes, QueueTyped
  <2>4. CASE Gates
    BY <2>1, <2>2, <2>4 DEF Gates
  <2>5. CASE MovesLater
    BY <2>1, <2>5 DEF MovesLater
  <2>6. CASE EvictsMoved
    BY <2>1, <2>6 DEF EvictsMoved
  <2>7. CASE Spawns
    BY <2>1, <2>7, CacheIdleTyped DEF Spawns, C!NoJob
  <2> QED
    BY <2>3, <2>4, <2>5, <2>6, <2>7
<1>8. JobTyped'
  BY <1>1, <1>7 DEF JobTyped, MildHist
<1>9. ClockTyped' /\ PermTyped' /\ HostTyped'
  BY DEF CbTypes, ClockTyped, PermTyped, HostTyped, Takes, Gates, MovesLater, EvictsMoved, Spawns
<1> QED
  BY <1>2, <1>3, <1>4, <1>5, <1>6, <1>8, <1>9 DEF CbTypes

LEMMA MoveAsideTypes ==
  ASSUME CacheConstants, CbTypes, MovesAside
  PROVE  CbTypes'
<1>1. job.name \in Labels /\ file.id \in Nat /\ file.id <= hist.last
  BY DEF CbTypes, JobTyped, Jobs, FileTyped, C!Databases
<1>2. PICK l \in Labels, id \in Nat : l = job.name /\ id = file.id
  BY <1>1
<1>3. HistTyped' /\ HeldTyped' /\ hist'.count = hist.count + 1 /\ hist'.last = hist.last
  BY <1>1, <1>2, PublishedEffect DEF MovesAside, CbTypes
<1>4. hist.last \in Nat /\ hist.count \in Nat /\ hist.last >= 2
  BY HistNumbers DEF CbTypes
<1>5. CliTyped'
  <2>1. ASSUME NEW p \in Procs PROVE cli[p].seen <= hist'.last /\ cli[p].name.of <= hist'.count
    <3>1. cli[p].name.of \in Nat /\ cli[p].seen <= hist.last /\ cli[p].name.of <= hist.count
      BY DEF CbTypes, CliTyped, Errands, Labels
    <3> QED
      BY <1>3, <1>4, <3>1
  <2> QED
    BY <2>1 DEF CbTypes, CliTyped, MovesAside
<1>6. JobTyped'
  BY <1>3, <1>4 DEF JobTyped, MovesAside, C!NoName, C!Unread
<1>7. FileTyped' /\ QueueTyped'
  BY <1>3, <1>4 DEF CbTypes, FileTyped, QueueTyped, MovesAside, Bad, C!Missing, C!Databases, C!Kinds, C!Unread
<1> QED
  BY <1>3, <1>5, <1>6, <1>7 DEF CbTypes, MovesAside, ClockTyped, HostTyped, PermTyped

LEMMA FaultTypes ==
  ASSUME CacheConstants, CbTypes, Disturbs \/ Ticks \/ StepsBack \/ Reboots
  PROVE  CbTypes'
<1>1. hist.last \in Nat /\ hist.count \in Nat /\ hist.last >= 2
  BY HistNumbers DEF CbTypes
<1>2. CASE StepsBack
  <2>1. HistTyped'
    BY <1>2 DEF CbTypes, HistTyped, StepsBack
  <2> QED
    BY <1>2, <2>1 DEF StepsBack, CbTypes, FileTyped, PermTyped, HeldTyped, ClockTyped, QueueTyped,
       JobTyped, CliTyped, HostTyped, Bad
<1>3. CASE Ticks
  <2>1. MildHist
    BY <1>3, StillMild DEF Ticks, CbTypes
  <2>2. HistTyped' /\ FileTyped' /\ HeldTyped' /\ QueueTyped' /\ JobTyped' /\ CliTyped'
    BY <1>3, <2>1, MildTyped DEF Ticks, CbTypes
  <2> QED
    BY <1>3, <2>2 DEF Ticks, CbTypes, PermTyped, ClockTyped, HostTyped
<1>4. CASE Disturbs
  <2>1. HistTyped' /\ HeldTyped' /\ QueueTyped' /\ JobTyped' /\ CliTyped' /\ (UNCHANGED file => FileTyped')
    BY <1>4, MildTyped DEF Disturbs, CbTypes
  <2>2. hist'.last \in Nat /\ hist'.last >= hist.last
    BY <1>4 DEF Disturbs, MildHist, Hists
  <2>3. file' = [kind |-> "link", id |-> C!Linked] => FileTyped'
    BY <1>1, <2>2 DEF FileTyped, C!Databases, C!Kinds, C!Linked, Bad
  <2>4. ASSUME NEW k \in C!Broken, file' = [kind |-> k, id |-> hist.last + 1], hist'.last = hist.last + 1
        PROVE  FileTyped'
    <3>1. file'.id = hist.last + 1 /\ file'.kind = k /\ file' \in C!Databases
      BY <1>1, <2>4 DEF C!Databases, C!Kinds, C!Broken
    <3> QED
      BY <1>1, <2>4, <3>1 DEF FileTyped, C!Unread
  <2> QED
    BY <1>4, <2>1, <2>3, <2>4 DEF Disturbs, CbTypes, ClockTyped, HostTyped
<1>5. CASE Reboots
  <2>1. HistTyped' /\ FileTyped' /\ HeldTyped'
    BY <1>5, MildTyped DEF Reboots, CbTypes
  <2>2. hist'.last = hist.last /\ hist'.count = hist.count
    BY <1>5 DEF Reboots, MildHist
  <2>3. JobTyped' /\ QueueTyped' /\ CliTyped'
    BY <1>1, <1>5, <2>2, CacheIdleTyped DEF Reboots, JobTyped, QueueTyped, CliTyped, C!NoJob, C!Idle, C!NoName, C!Unread
  <2> QED
    BY <1>5, <2>1, <2>3 DEF Reboots, CbTypes, PermTyped, ClockTyped, HostTyped
<1> QED
  BY <1>2, <1>3, <1>4, <1>5

(* The evidence before a daemon without the gate.                            *)

Calm == ~hist.disordered /\ ~host.gate
LastName == hist.published[Len(hist.published)]
Seq0(t) == IF hist.count # 0 /\ LastName[1] = t THEN LastName[2] + 1 ELSE 0

\* What is staged has a name nobody has, each of another second; what was seen last has the
\* last second.
StagedApart ==
  /\ partials \cap C!Names = {}
  /\ \A p \in Procs : cli[p].at = "publish" =>
       /\ cli[p].name.at \in partials
       /\ cli[p].name.at[1] = clock => cli[p].name.at[2] = Seq0(clock)
  /\ \A p, q \in Procs : p # q /\ cli[p].at = "publish" /\ cli[q].at = "publish" =>
       /\ cli[p].name.at[1] # cli[q].name.at[1]
       /\ Bad /\ cli[p].seen # file.id /\ cli[q].seen = file.id => cli[p].name.at[1] < cli[q].name.at[1]

\* What holds the database is the last that was published: whatever else is staged is late.
Holding ==
  Bad /\ Preserved =>
    /\ hist.count # 0 /\ \E a \in artifacts : a.id = file.id /\ a.name = LastName
    /\ \A p \in Procs : cli[p].at = "publish" /\ cli[p].seen # file.id => OutOfOrder(cli[p].name)

\* What was seen and is being told the daemon is held.
Safe(s) == Bad /\ s = file.id => Preserved
Chained ==
  /\ \A p \in Procs : cli[p].at \notin {"copy", "publish"} => Safe(cli[p].seen)
  /\ \A n \in 1..Len(queue) : Safe(queue[n].seen)
  /\ Safe(job.seen)

Evidence == Calm => StagedApart /\ Holding /\ Chained

GateSide ==
  /\ ~host.gate => job.at \in {"idle", "spawn"}
  /\ job.at = "prune" => job.seen = C!Unread
  /\ host.gate /\ job.at = "spawn" /\ Bad => job.seen # file.id

\* The database stays and what holds it, or it is one nobody has seen.
Known == \/ file' = file /\ (Preserved => Preserved')
         \/ ~Bad'
         \/ file'.id > hist.last

LEMMA SafeStays ==
  ASSUME CbTypes, Known, NEW s \in Nat, s <= hist.last, Safe(s)
  PROVE  Safe(s)'
<1>1. hist.last \in Nat
  BY DEF CbTypes, HistTyped, Hists
<1> QED
  BY <1>1 DEF Safe, Known, Bad

LEMMA SafeUnread == ASSUME CbTypes PROVE Safe(C!Unread)
BY DEF CbTypes, FileTyped, Safe, C!Unread

\* A step that stages nothing.
LEMMA StagedStays ==
  ASSUME CbTypes, StagedApart, Holding, Known,
         hist'.published = hist.published, hist'.count = hist.count, UNCHANGED <<clock, artifacts>>,
         \A p \in Procs : cli'[p].at = "publish" => cli'[p] = cli[p] /\ cli[p].name.at \in partials',
         partials' \cap C!Names \subseteq partials
  PROVE  StagedApart' /\ Holding'
<1>1. C!Names' = C!Names /\ LastName' = LastName /\ Seq0(clock)' = Seq0(clock)
  BY DEF C!Names, LastName, Seq0
<1>2. ASSUME NEW p \in Procs, cli'[p].at = "publish"
      PROVE  /\ cli'[p].at = cli[p].at /\ cli'[p].name = cli[p].name /\ cli'[p].seen = cli[p].seen
             /\ cli[p].name.at \in partials' /\ cli[p].seen \in Nat /\ cli[p].seen <= hist.last
  BY <1>2 DEF CbTypes, CliTyped, Errands
<1>3. hist.last \in Nat
  BY DEF CbTypes, HistTyped, Hists
<1>4. StagedApart'
  <2>1. partials' \cap C!Names' = {}
    BY <1>1 DEF StagedApart
  <2>2. ASSUME NEW p \in Procs, cli'[p].at = "publish"
        PROVE  cli'[p].name.at \in partials' /\ (cli'[p].name.at[1] = clock' => cli'[p].name.at[2] = Seq0(clock)')
    BY <1>1, <1>2, <2>2 DEF StagedApart
  <2>3. ASSUME NEW p \in Procs, NEW q \in Procs, p # q, cli'[p].at = "publish", cli'[q].at = "publish"
        PROVE  /\ cli'[p].name.at[1] # cli'[q].name.at[1]
               /\ Bad' /\ cli'[p].seen # file'.id /\ cli'[q].seen = file'.id => cli'[p].name.at[1] < cli'[q].name.at[1]
    BY <1>2, <1>3, <2>3 DEF StagedApart, Known, Bad
  <2> QED
    BY <2>1, <2>2, <2>3 DEF StagedApart, Seq0, LastName
<1>5. Holding'
  <2> SUFFICES ASSUME Bad', Preserved'
               PROVE  /\ hist'.count # 0 /\ \E a \in artifacts' : a.id = file'.id /\ a.name = LastName'
                      /\ \A p \in Procs : cli'[p].at = "publish" /\ cli'[p].seen # file'.id => OutOfOrder(cli[p].name)'
    BY DEF Holding
  <2>1. file' = file /\ Bad /\ Preserved
    <3>1. ~(file'.id > hist.last)
      BY <1>3 DEF Preserved, CbTypes, HeldTyped, Artifacts
    <3>2. file' = file
      BY <3>1 DEF Known
    <3> QED
      BY <3>2 DEF Bad, Preserved
  <2>2. \E a \in artifacts' : a.id = file'.id /\ a.name = LastName'
    BY <1>1, <2>1 DEF Holding
  <2>3. ASSUME NEW p \in Procs, cli'[p].at = "publish", cli'[p].seen # file'.id PROVE OutOfOrder(cli[p].name)'
    <3>1. OutOfOrder(cli[p].name) /\ cli'[p].name = cli[p].name
      BY <1>2, <2>1, <2>3 DEF Holding
    <3> QED
      BY <3>1 DEF OutOfOrder, C!After, C!Last
  <2> QED
    BY <2>1, <2>2, <2>3 DEF Holding
<1> QED
  BY <1>4, <1>5

LEMMA OthersChained ==
  ASSUME CbTypes, Known, NEW p \in Procs, \A q \in Procs : q # p => cli'[q] = cli[q],
         \A q \in Procs : cli[q].at \notin {"copy", "publish"} => Safe(cli[q].seen)
  PROVE  \A q \in Procs : q # p /\ cli'[q].at \notin {"copy", "publish"} => Safe(cli[q].seen)'
<1>1. TAKE q \in Procs
<1>2. HAVE q # p /\ cli'[q].at \notin {"copy", "publish"}
<1>3. cli'[q] = cli[q] /\ Safe(cli[q].seen) /\ cli[q].seen \in Nat /\ cli[q].seen <= hist.last
  BY <1>2 DEF CbTypes, CliTyped, Errands
<1>4. PICK s \in Nat : s = cli[q].seen
  BY <1>3
<1>5. Safe(s)'
  BY <1>3, <1>4, SafeStays
<1> QED
  BY <1>3, <1>4, <1>5 DEF Safe

LEMMA PlainSafe ==
  ASSUME CbTypes, Known, NEW p \in Procs, Plain(p), cli'[p].at \notin {"copy", "publish"},
         \A q \in Procs : cli[q].at \notin {"copy", "publish"} => Safe(cli[q].seen)
  PROVE  Safe(cli[p].seen)'
<1>1. cli[p].seen \in Nat /\ cli[p].seen <= hist.last /\ C!Unread <= hist.last
  BY HistNumbers DEF CbTypes, CliTyped, Errands, C!Unread
<1>2. PICK s \in Nat : s = cli'[p].seen /\ s <= hist.last /\ Safe(s)
  BY <1>1, SafeUnread DEF Plain, C!Unread
<1>3. Safe(s)'
  BY <1>2, SafeStays
<1> QED
  BY <1>2, <1>3 DEF Safe

LEMMA QueueSafe ==
  ASSUME CbTypes, Known, \A n \in 1..Len(queue) : Safe(queue[n].seen), NEW n \in 1..Len(queue)
  PROVE  Bad' /\ queue[n].seen = file'.id => Preserved'
<1>1. queue[n].seen \in Nat /\ queue[n].seen <= hist.last
  <2>1. queue[n] \in C!Waiting
    BY EntryTyped DEF CbTypes, QueueTyped
  <2> QED
    BY <2>1 DEF CbTypes, QueueTyped, C!Waiting
<1>2. PICK s \in Nat : s = queue[n].seen
  BY <1>1
<1>3. Safe(s)'
  BY <1>1, <1>2, SafeStays
<1> QED
  BY <1>2, <1>3 DEF Safe

LEMMA JobSafe ==
  ASSUME CbTypes, Known, Safe(job.seen)
  PROVE  Bad' /\ job.seen = file'.id => Preserved'
<1>1. PICK s \in Nat : s = job.seen /\ s <= hist.last
  BY DEF CbTypes, JobTyped, Jobs
<1>2. Safe(s)'
  BY <1>1, SafeStays
<1> QED
  BY <1>1, <1>2 DEF Safe

\* What is left behind has a name no copy has.
LEMMA StraysApart ==
  ASSUME CbTypes, StagedApart, NEW p \in Procs, Strays(p)
  PROVE  C!Chosen.at \notin C!Names /\ partials' = partials \cup {C!Chosen.at}
<1>1. C!Chosen.at = <<clock, C!NextSeq(clock)>> /\ clock \in Nat
  BY DEF C!Chosen, CbTypes, ClockTyped
<1>2. ASSUME C!Chosen.at \in C!Names PROVE FALSE
  <2>1. C!NextSeq(clock) \in Nat /\ C!NextSeq(clock) < C!NextSeq(clock)
    BY <1>1, <1>2, NextSeqAfter DEF CbTypes
  <2> QED
    BY <2>1
<1> QED
  BY <1>2 DEF Strays, StagedApart

LEMMA CliEvidence ==
  ASSUME CbTypes, Evidence, NEW p \in Procs,
         \/ Quiet(p) /\ (UNCHANGED queue \/ Sends(p))
         \/ Looks(p) \/ Drops(p) \/ Strays(p) \/ Departs(p)
  PROVE  Evidence'
<1>1. /\ hist'.published = hist.published /\ hist'.count = hist.count /\ hist'.disordered = hist.disordered
      /\ UNCHANGED <<file, artifacts, clock, host>>
  BY DEF Quiet, Looks, Drops, Strays, Departs, Aside, MildHist
<1>2. cli'[p].at # "publish" /\ \A q \in Procs : q # p => cli'[q] = cli[q]
  BY DEF Quiet, Looks, Drops, Strays, Departs, Plain, Others
<1> SUFFICES ASSUME Calm PROVE StagedApart' /\ Holding' /\ Chained'
  BY <1>1 DEF Evidence, Calm
<1>3. Known
  BY <1>1 DEF Known, Preserved
<1>4. StagedApart' /\ Holding'
  <2>1. StagedApart /\ Holding
    BY DEF Evidence
  <2>2. partials' \cap C!Names \subseteq partials
    BY <2>1, StraysApart DEF Quiet, Looks, Drops, Departs, Aside
  <2>3. ASSUME NEW q \in Procs, cli'[q].at = "publish"
        PROVE  cli'[q] = cli[q] /\ cli[q].name.at \in partials'
    <3>1. q # p /\ cli'[q] = cli[q] /\ cli[q].at = "publish"
      BY <1>2, <2>3
    <3>2. cli[q].name.at \in partials
      BY <2>1, <3>1 DEF StagedApart
    <3>3. CASE partials \subseteq partials'
      BY <3>1, <3>2, <3>3
    <3>4. CASE cli[p].at = "publish" /\ partials' = partials \ {cli[p].name.at}
      <4>1. cli[p].name.at[1] # cli[q].name.at[1]
        BY <2>1, <3>1, <3>4 DEF StagedApart
      <4> QED
        BY <3>1, <3>2, <3>4, <4>1
    <3> QED
      BY <2>1, <3>3, <3>4, StraysApart DEF Quiet, Looks, Drops, Departs, Aside
  <2> QED
    BY <1>1, <1>3, <2>1, <2>2, <2>3, StagedStays
<1>5. Chained'
  <2>1. /\ \A q \in Procs : cli[q].at \notin {"copy", "publish"} => Safe(cli[q].seen)
        /\ \A n \in 1..Len(queue) : Safe(queue[n].seen)
        /\ Safe(job.seen)
    BY DEF Evidence, Chained
  <2>2. \A q \in Procs : q # p /\ cli'[q].at \notin {"copy", "publish"} => Safe(cli[q].seen)'
    BY <1>2, <1>3, <2>1, OthersChained
  <2>3. cli'[p].at \notin {"copy", "publish"} => Safe(cli[p].seen)'
    <3>1. CASE Plain(p)
      BY <1>3, <2>1, <3>1, PlainSafe
    <3>2. CASE Looks(p)
      BY <1>1, <3>2 DEF Looks, Safe, Bad, Preserved
    <3> QED
      BY <3>1, <3>2 DEF Quiet, Drops, Strays, Departs
  <2>4. Safe(job.seen)'
    <3>1. job'.seen = job.seen
      BY DEF Quiet, Looks, Drops, Strays, Departs, Aside
    <3> QED
      BY <1>3, <2>1, <3>1, JobSafe DEF Safe
  <2>5. ASSUME NEW n \in 1..Len(queue') PROVE Safe(queue[n].seen)'
    <3>1. CASE n \in 1..Len(queue) /\ queue'[n].seen = queue[n].seen
      BY <1>3, <2>1, <3>1, QueueSafe DEF Safe
    <3>2. CASE Sends(p) /\ ~(n \in 1..Len(queue) /\ queue'[n].seen = queue[n].seen)
      <4> DEFINE w == [client |-> p, again |-> TRUE, seen |-> cli[p].seen]
      <4>1. queue' = Append(queue, w) /\ w.seen = cli[p].seen
        BY <3>2 DEF Sends
      <4>2. queue \in Seq(C!Waiting) /\ w \in C!Waiting
        BY DEF CbTypes, QueueTyped, CliTyped, Errands, C!Waiting
      <4> HIDE DEF w
      <4>3. n \in 1..(Len(queue) + 1) /\ (n \in 1..Len(queue) => queue'[n] = queue[n])
            /\ queue'[Len(queue) + 1] = w
        BY <4>1, <4>2
      <4>4. Len(queue) \in Nat
        BY <4>2
      <4>5. n = Len(queue) + 1
        BY <3>2, <4>3, <4>4
      <4>6. queue'[n].seen = cli[p].seen /\ Safe(cli[p].seen)
        BY <2>1, <3>2, <4>1, <4>3, <4>5 DEF Sends
      <4> QED
        BY <1>1, <4>6 DEF Safe, Bad, Preserved
    <3>3. CASE UNCHANGED queue \/ Departs(p)
      <4>1. queue \in Seq(C!Waiting) /\ Len(queue') = Len(queue)
        BY <3>3 DEF Departs, CbTypes, QueueTyped
      <4>2. n \in 1..Len(queue) /\ queue'[n].seen = queue[n].seen
        BY <3>3, <4>1 DEF Departs
      <4> QED
        BY <3>1, <4>2
    <3> QED
      BY <3>1, <3>2, <3>3 DEF Looks, Drops, Strays, Aside
  <2> QED
    BY <2>2, <2>3, <2>4, <2>5 DEF Chained, Safe
<1> QED
  BY <1>4, <1>5

\* While no name is out of order, the next number of a second follows from the last name.
LEMMA NextSeqIsSeq0 ==
  ASSUME CbTypes, Lined
  PROVE  C!NextSeq(clock) = Seq0(clock)
<1>1. clock \in Nat
  BY DEF CbTypes, ClockTyped
<1>2. /\ C!Names \subseteq Stamps /\ Len(hist.published) \in Nat
      /\ hist.count # 0 => LastName \in Stamps /\ LastName \in C!Names
  BY NamesTyped DEF CbTypes, LastName, Lined
<1>3. ASSUME NEW n \in C!Names
      PROVE  hist.count # 0 /\ (n = LastName \/ C!After(LastName, n))
  <2>1. hist.count # 0
    BY DEF C!Names, CbTypes, HeldTyped
  <2>2. Len(hist.published) \in 1..Len(hist.published)
    BY <2>1, NamesTyped DEF CbTypes
  <2>3. CASE \A i \in 1..Len(hist.published) : C!After(hist.published[i], n)
    BY <2>1, <2>2, <2>3 DEF LastName
  <2>4. ASSUME NEW i \in 1..Len(hist.published), hist.published[i] = n
        PROVE  n = LastName \/ C!After(LastName, n)
    <3>1. CASE i = Len(hist.published)
      BY <2>4, <3>1 DEF LastName
    <3>2. CASE i # Len(hist.published)
      <4>1. i < Len(hist.published)
        BY <1>2, <3>2
      <4> QED
        BY <2>2, <2>4, <4>1 DEF Lined, LastName
    <3> QED
      BY <3>1, <3>2
  <2> QED
    BY <2>1, <2>3, <2>4 DEF Lined
<1>4. CASE \A n \in C!Names : n[1] # clock
  <2>1. C!NextSeq(clock) = 0
    BY <1>1, <1>4, NextSeqAfter DEF CbTypes
  <2>2. ~(hist.count # 0 /\ LastName[1] = clock)
    BY <1>2, <1>4
  <2> QED
    BY <2>1, <2>2 DEF Seq0
<1>5. CASE \E n \in C!Names : n[1] = clock
  <2>1. PICK n \in C!Names : n[1] = clock /\ C!NextSeq(clock) = n[2] + 1
    BY <1>1, <1>5, NextSeqAfter DEF CbTypes
  <2>2. n \in Stamps /\ n[2] \in Nat /\ LastName \in Stamps /\ LastName[2] \in Nat /\ LastName[1] \in Nat
    BY <1>2, <1>3 DEF Stamps
  <2>3. LastName[1] <= clock
    BY <1>2, <1>3, <2>1 DEF Lined
  <2>4. LastName[1] = clock /\ n[2] <= LastName[2]
    BY <1>1, <1>3, <2>1, <2>2, <2>3 DEF C!After
  <2>5. LastName[2] < C!NextSeq(clock)
    BY <1>1, <1>2, <1>3, <2>4, NextSeqAfter DEF CbTypes
  <2>6. LastName[2] = n[2]
    BY <2>1, <2>2, <2>4, <2>5
  <2> QED
    BY <1>3, <2>1, <2>4, <2>6 DEF Seq0
<1> QED
  BY <1>4, <1>5

LEMMA StageEvidence ==
  ASSUME CbTypes, Order, Evidence, NEW p \in Procs, Stages(p)
  PROVE  Evidence'
<1>1. /\ UNCHANGED <<file, artifacts, clock, host, hist, job, queue>> /\ \A q \in Procs : q # p => cli'[q] = cli[q]
      /\ ~Preserved /\ C!Chosen.at \notin partials /\ partials' = partials \cup {C!Chosen.at}
      /\ cli'[p].at = "publish" /\ cli'[p].name = C!Chosen /\ cli'[p].seen = file.id
  BY DEF Stages, Aside, Others
<1> SUFFICES ASSUME Calm PROVE StagedApart' /\ Holding' /\ Chained'
  BY <1>1 DEF Evidence, Calm
<1>2. Lined /\ AllDue /\ StagedApart /\ Chained
  BY DEF Calm, Order, Evidence
<1>3. Known
  BY <1>1 DEF Known, Preserved
<1>4. Holding'
  BY <1>1 DEF Holding, Preserved, Bad
<1>5. Chained'
  <2>1. \A q \in Procs : q # p /\ cli'[q].at \notin {"copy", "publish"} => Safe(cli[q].seen)'
    BY <1>1, <1>2, <1>3, OthersChained DEF Chained
  <2>2. Safe(job.seen)' /\ \A n \in 1..Len(queue) : Safe(queue[n].seen)'
    BY <1>1, <1>2 DEF Chained, Safe, Bad, Preserved
  <2> QED
    BY <1>1, <2>1, <2>2 DEF Chained
<1>6. StagedApart'
  <2>1. C!Names' = C!Names /\ Seq0(clock)' = Seq0(clock)
    BY <1>1 DEF C!Names, Seq0, LastName
  <2>2. /\ C!Chosen.at[1] = clock /\ C!Chosen.at[2] = Seq0(clock) /\ C!Chosen.at = <<clock, Seq0(clock)>>
        /\ clock \in Nat
    BY <1>2, ChosenTyped, NextSeqIsSeq0 DEF CbTypes, ClockTyped, C!Chosen
  <2>3. C!Chosen.at \notin C!Names
    BY <2>2, NextSeqAfter, ChosenTyped, <1>2 DEF CbTypes
  <2>4. ASSUME NEW q \in Procs, q # p, cli[q].at = "publish" PROVE cli[q].name.at[1] < clock
    <3>1. cli[q].name.at \in Stamps /\ cli[q].name.at[1] \in Nat
      BY DEF CbTypes, CliTyped, Errands, Labels, Stamps
    <3>2. cli[q].name.at[1] <= clock /\ cli[q].name.at \in partials
      BY <1>2, <2>4 DEF AllDue, Due, StagedApart
    <3>3. cli[q].name.at[1] # clock
      <4>1. ASSUME cli[q].name.at[1] = clock PROVE FALSE
        <5>1. cli[q].name.at[2] = Seq0(clock)
          BY <1>2, <2>4, <4>1 DEF StagedApart
        <5>2. cli[q].name.at = C!Chosen.at
          BY <2>2, <3>1, <4>1, <5>1 DEF Stamps
        <5> QED
          BY <1>1, <3>2, <5>2
      <4> QED
        BY <4>1
    <3> QED
      BY <2>2, <3>1, <3>2, <3>3
  <2>5. partials' \cap C!Names' = {}
    BY <1>1, <1>2, <2>1, <2>3 DEF StagedApart
  <2>6. ASSUME NEW q \in Procs, cli'[q].at = "publish"
        PROVE  cli'[q].name.at \in partials' /\ (cli'[q].name.at[1] = clock => cli'[q].name.at[2] = Seq0(clock))
    <3>1. CASE q = p
      BY <1>1, <2>2, <3>1
    <3>2. CASE q # p
      BY <1>1, <1>2, <2>6, <3>2 DEF StagedApart
    <3> QED
      BY <3>1, <3>2
  <2>7. ASSUME NEW o \in Procs, NEW q \in Procs, o # q, cli'[o].at = "publish", cli'[q].at = "publish"
        PROVE  /\ cli'[o].name.at[1] # cli'[q].name.at[1]
               /\ Bad /\ cli'[o].seen # file.id /\ cli'[q].seen = file.id => cli'[o].name.at[1] < cli'[q].name.at[1]
    <3>1. CASE o = p
      <4>1. cli'[q] = cli[q] /\ cli[q].name.at[1] < clock /\ cli'[o].name.at[1] = clock /\ cli'[o].seen = file.id
        BY <1>1, <2>2, <2>4, <2>7, <3>1
      <4>2. cli[q].name.at[1] \in Nat
        BY DEF CbTypes, CliTyped, Errands, Labels, Stamps
      <4> QED
        BY <2>2, <4>1, <4>2
    <3>2. CASE q = p
      <4>1. cli'[o] = cli[o] /\ cli[o].name.at[1] < clock /\ cli'[q].name.at[1] = clock
        BY <1>1, <2>2, <2>4, <2>7, <3>2
      <4>2. cli[o].name.at[1] \in Nat
        BY DEF CbTypes, CliTyped, Errands, Labels, Stamps
      <4> QED
        BY <2>2, <4>1, <4>2
    <3>3. CASE o # p /\ q # p
      BY <1>1, <1>2, <2>7, <3>3 DEF StagedApart
    <3> QED
      BY <3>1, <3>2, <3>3
  <2> QED
    BY <1>1, <2>1, <2>5, <2>6, <2>7 DEF StagedApart, Bad
<1> QED
  BY <1>4, <1>5, <1>6

LEMMA RenumberEvidence ==
  ASSUME Evidence, NEW p \in Procs, Renumbers(p)
  PROVE  Evidence'
<1>1. Calm => cli[p].name.at \in partials \cap C!Names
  BY DEF Evidence, StagedApart, Renumbers
<1>2. ~Calm
  BY <1>1 DEF Evidence, StagedApart
<1> QED
  BY <1>2 DEF Evidence, Calm, Renumbers, Aside

LEMMA PublishEvidence ==
  ASSUME CacheConstants, CbTypes, Order, Evidence, NEW p \in Procs, Publishes(p)
  PROVE  Evidence'
<1> SUFFICES ASSUME Calm' PROVE StagedApart' /\ Holding' /\ Chained'
  BY DEF Evidence
<1>1. /\ cli[p].name \in Labels /\ cli[p].seen \in Nat /\ cli[p].seen <= hist.last
      /\ cli[p].at = "publish" /\ cli[p].name.at \notin C!Names
      /\ C!Published(cli[p].name, cli[p].seen)
      /\ UNCHANGED <<file, clock, queue, job, host>>
      /\ \A q \in Procs : q # p => cli'[q] = cli[q]
      /\ partials' = partials \ {cli[p].name.at}
      /\ cli'[p].at = "prune" /\ cli'[p].seen = cli[p].seen
  BY DEF Publishes, Others, CbTypes, CliTyped, Errands
<1>2. PICK l \in Labels, id \in Nat : l = cli[p].name /\ id = cli[p].seen
  BY <1>1
<1>3. /\ HistTyped' /\ HeldTyped'
      /\ hist'.count = hist.count + 1
      /\ ~hist.disordered /\ ~OutOfOrder(l)
      /\ artifacts' = artifacts \cup {[name |-> l.at, id |-> id]}
      /\ C!Names' = C!Names \cup {l.at} /\ Appended(l.at)
  BY <1>1, <1>2, PublishedEffect DEF Calm, CbTypes
<1>12. PICK new \in artifacts' : new.name = l.at /\ new.id = id
  <2> DEFINE a == [name |-> l.at, id |-> id]
  <2>1. a.name = l.at /\ a.id = id /\ artifacts' = artifacts \cup {a}
    BY <1>3
  <2> HIDE DEF a
  <2> QED
    BY <2>1
<1>4. Calm /\ Lined /\ AllDue /\ StagedApart /\ Holding /\ Chained
  BY <1>1, <1>3 DEF Calm, Order, Evidence
<1>5. /\ hist.count # 0 => C!After(l.at, LastName) /\ LastName \in Stamps
      /\ l.at \in Stamps /\ l.at[1] \in Nat /\ l.at[1] <= clock /\ clock \in Nat
      /\ hist.count \in Nat
  <2>1. Due(l)
    BY <1>1, <1>2, <1>4 DEF AllDue
  <2>2. hist.count # 0 => C!After(l.at, LastName) /\ LastName \in Stamps
    BY <1>3, <2>1, NamesTyped DEF Due, OutOfOrder, LastName, CbTypes
  <2> QED
    BY <2>1, <2>2 DEF Due, Labels, Stamps, CbTypes, ClockTyped, HistTyped, Hists
<1>6. LastName' = l.at
  <2>1. PICK k \in {0, 1} :
          /\ k = 1 => Len(hist.published) = Keep
          /\ Len(hist'.published) = Len(hist.published) + 1 - k
          /\ \A i \in 1..Len(hist'.published) :
               hist'.published[i] = IF i + k <= Len(hist.published) THEN hist.published[i + k] ELSE l.at
    BY <1>3 DEF Appended
  <2>2. Len(hist.published) \in Nat /\ (k = 0 \/ k = 1) /\ Keep \in Nat /\ Keep >= 1
    BY DEF CbTypes, HistTyped, Hists, CacheConstants
  <2> DEFINE L == Len(hist.published)
             M == Len(hist'.published)
  <2>3. L \in Nat /\ M = L + 1 - k /\ (k = 1 => L = Keep) /\ LastName' = hist'.published[M]
    BY <2>1, <2>2 DEF LastName
  <2>4. M \in 1..M => hist'.published[M] = IF M + k <= L THEN hist.published[M + k] ELSE l.at
    BY <2>1
  <2> HIDE DEF L, M
  <2>5. M \in Nat /\ M >= 1 /\ M + k = L + 1
    BY <2>2, <2>3
  <2>6. M \in 1..M /\ ~(M + k <= L)
    BY <2>3, <2>5
  <2> QED
    BY <2>3, <2>4, <2>6
<1>7. ASSUME NEW q \in Procs, cli'[q].at = "publish"
      PROVE  /\ q # p /\ cli'[q] = cli[q] /\ cli[q].at = "publish" /\ cli[q].name \in Labels
             /\ cli[q].name.at[1] # l.at[1] /\ cli[q].name.at[1] \in Nat
             /\ cli[q].name.at \in partials'
  <2>1. q # p /\ cli'[q] = cli[q] /\ cli[q].at = "publish"
    BY <1>1, <1>7
  <2>2. cli[q].name \in Labels /\ cli[q].name.at[1] \in Nat
    BY DEF CbTypes, CliTyped, Errands, Labels, Stamps
  <2>3. cli[q].name.at[1] # l.at[1]
    BY <1>1, <1>2, <1>4, <2>1 DEF StagedApart
  <2>4. cli[q].name.at \in partials'
    BY <1>1, <1>2, <1>4, <2>1, <2>3 DEF StagedApart
  <2> QED
    BY <2>1, <2>2, <2>3, <2>4
<1>8. StagedApart'
  <2>1. partials' \cap C!Names' = {}
    BY <1>1, <1>2, <1>3, <1>4 DEF StagedApart
  <2>2. ASSUME NEW q \in Procs, cli'[q].at = "publish"
        PROVE  cli'[q].name.at \in partials' /\ (cli'[q].name.at[1] = clock' => cli'[q].name.at[2] = Seq0(clock)')
    <3>1. ASSUME cli[q].name.at[1] = clock PROVE cli[q].name.at[2] = Seq0(clock)'
      <4>1. l.at[1] < clock
        BY <1>5, <1>7, <2>2, <3>1
      <4>2. cli[q].name.at[2] = Seq0(clock)
        BY <1>4, <1>7, <2>2, <3>1 DEF StagedApart
      <4>3. Seq0(clock) = 0
        BY <1>5, <4>1 DEF Seq0, C!After, Stamps
      <4>4. Seq0(clock)' = 0
        BY <1>1, <1>5, <1>6, <4>1 DEF Seq0
      <4> QED
        BY <4>2, <4>3, <4>4
    <3> QED
      BY <1>1, <1>7, <2>2, <3>1
  <2>3. ASSUME NEW o \in Procs, NEW q \in Procs, o # q, cli'[o].at = "publish", cli'[q].at = "publish"
        PROVE  /\ cli'[o].name.at[1] # cli'[q].name.at[1]
               /\ Bad' /\ cli'[o].seen # file'.id /\ cli'[q].seen = file'.id => cli'[o].name.at[1] < cli'[q].name.at[1]
    <3>1. cli'[o] = cli[o] /\ cli[o].at = "publish" /\ cli'[q] = cli[q] /\ cli[q].at = "publish"
      BY <1>7, <2>3
    <3> QED
      BY <1>1, <1>4, <2>3, <3>1 DEF StagedApart, Bad
  <2> QED
    BY <2>1, <2>2, <2>3 DEF StagedApart, Seq0, LastName
<1>9. Bad' /\ Preserved' /\ cli[p].seen # file.id => FALSE
  <2> SUFFICES ASSUME Bad', Preserved', cli[p].seen # file.id PROVE FALSE
    OBVIOUS
  <2>1. Bad /\ Preserved
    <3>1. PICK a \in artifacts' : a.id = file.id
      BY <1>1 DEF Preserved
    <3>2. a \in artifacts
      BY <1>2, <1>3, <3>1
    <3> QED
      BY <1>1, <3>1, <3>2 DEF Bad, Preserved
  <2> QED
    BY <1>1, <1>2, <1>3, <1>4, <2>1 DEF Holding
<1>10. Holding'
  <2> SUFFICES ASSUME Bad', Preserved'
               PROVE  /\ hist'.count # 0 /\ \E a \in artifacts' : a.id = file'.id /\ a.name = LastName'
                      /\ \A q \in Procs : cli'[q].at = "publish" /\ cli'[q].seen # file'.id => OutOfOrder(cli[q].name)'
    BY DEF Holding
  <2>1. id = file.id /\ Bad
    BY <1>1, <1>2, <1>9 DEF Bad
  <2>2. \E a \in artifacts' : a.id = file'.id /\ a.name = LastName'
    BY <1>1, <1>6, <1>12, <2>1
  <2>3. ASSUME NEW q \in Procs, cli'[q].at = "publish", cli'[q].seen # file'.id PROVE OutOfOrder(cli[q].name)'
    <3>1. cli[q].name.at[1] < l.at[1]
      BY <1>1, <1>2, <1>4, <1>7, <2>1, <2>3 DEF StagedApart
    <3>2. cli[q].name.of # hist'.count
      <4>1. cli[q].name.of \in Nat /\ cli[q].name.of <= hist.count
        BY <1>7, <2>3 DEF CbTypes, CliTyped, Labels
      <4> QED
        BY <1>3, <1>5, <4>1
    <3>3. C!Last(hist.published)' = l.at
      BY <1>6 DEF LastName, C!Last
    <3>4. ~C!After(cli[q].name.at, l.at)
      BY <1>5, <1>7, <2>3, <3>1 DEF C!After
    <3> QED
      BY <1>7, <2>3, <3>2, <3>3, <3>4 DEF OutOfOrder, C!After
  <2> QED
    BY <1>3, <1>5, <2>2, <2>3
<1>11. Chained'
  <2>1. Preserved => Preserved'
    BY <1>1, <1>3 DEF Preserved
  <2>2. Known
    BY <1>1, <2>1 DEF Known
  <2>3. \A q \in Procs : q # p /\ cli'[q].at \notin {"copy", "publish"} => Safe(cli[q].seen)'
    BY <1>1, <1>4, <2>2, OthersChained DEF Chained
  <2>4. Safe(cli[p].seen)'
    <3>1. cli[p].seen = file.id => Preserved'
      BY <1>1, <1>2, <1>12 DEF Preserved
    <3> QED
      BY <1>1, <3>1 DEF Safe
  <2>5. Safe(job.seen)' /\ \A n \in 1..Len(queue) : Safe(queue[n].seen)'
    BY <1>1, <1>4, <2>1 DEF Chained, Safe, Bad
  <2> QED
    BY <1>1, <2>3, <2>4, <2>5 DEF Chained
<1> QED
  BY <1>8, <1>10, <1>11

LEMMA EvictEvidence ==
  ASSUME CacheConstants, CbTypes, Order, Evidence, NEW p \in Procs, Evicts(p)
  PROVE  Evidence'
<1>1. /\ artifacts' = C!Pruned /\ UNCHANGED <<file, partials, clock, queue, job, host, hist>>
      /\ Plain(p)
  BY DEF Evicts
<1> SUFFICES ASSUME Calm PROVE StagedApart' /\ Holding' /\ Chained'
  BY <1>1 DEF Evidence, Calm
<1>2. Lined /\ StagedApart /\ Holding /\ Chained
  BY DEF Calm, Order, Evidence
<1>3. artifacts' \subseteq artifacts /\ C!Names' \subseteq C!Names /\ LastName' = LastName
  BY <1>1 DEF C!Pruned, C!Names, LastName
<1>4. /\ cli'[p].at # "publish"
      /\ \A q \in Procs : q # p => cli'[q] = cli[q]
  BY <1>1 DEF Plain
<1>5. ASSUME Bad, Preserved PROVE \E a \in artifacts' : a.id = file.id /\ a.name = LastName
  <2>1. PICK a \in artifacts : a.id = file.id /\ a.name = LastName /\ hist.count # 0
    BY <1>2, <1>5 DEF Holding
  <2>2. Len(hist.published) \in 1..Len(hist.published)
    BY <2>1, NamesTyped DEF CbTypes
  <2>3. a \in artifacts'
    BY <1>1, <1>2, <2>1, <2>2, PrunedKeepsLast DEF LastName
  <2> QED
    BY <2>1, <2>3
<1>6. StagedApart'
  <2>1. Seq0(clock)' = Seq0(clock)
    BY <1>1 DEF Seq0, LastName
  <2>2. ASSUME NEW q \in Procs, cli'[q].at = "publish" PROVE q # p /\ cli'[q] = cli[q]
    BY <1>4, <2>2
  <2>3. partials' \cap C!Names' = {}
    BY <1>1, <1>2, <1>3 DEF StagedApart
  <2>4. ASSUME NEW q \in Procs, cli'[q].at = "publish"
        PROVE  cli'[q].name.at \in partials' /\ (cli'[q].name.at[1] = clock' => cli'[q].name.at[2] = Seq0(clock)')
    BY <1>1, <1>2, <2>1, <2>2, <2>4 DEF StagedApart
  <2>5. ASSUME NEW o \in Procs, NEW q \in Procs, o # q, cli'[o].at = "publish", cli'[q].at = "publish"
        PROVE  /\ cli'[o].name.at[1] # cli'[q].name.at[1]
               /\ Bad' /\ cli'[o].seen # file'.id /\ cli'[q].seen = file'.id => cli'[o].name.at[1] < cli'[q].name.at[1]
    <3>1. cli'[o] = cli[o] /\ cli[o].at = "publish" /\ cli'[q] = cli[q] /\ cli[q].at = "publish"
      BY <2>2, <2>5
    <3> QED
      BY <1>1, <1>2, <2>5, <3>1 DEF StagedApart, Bad
  <2> QED
    BY <2>3, <2>4, <2>5 DEF StagedApart, Seq0, LastName
<1>7. Holding'
  <2> SUFFICES ASSUME Bad', Preserved'
               PROVE  /\ hist'.count # 0 /\ \E a \in artifacts' : a.id = file'.id /\ a.name = LastName'
                      /\ \A q \in Procs : cli'[q].at = "publish" /\ cli'[q].seen # file'.id => OutOfOrder(cli[q].name)'
    BY DEF Holding
  <2>1. Bad /\ Preserved
    BY <1>1, <1>3 DEF Bad, Preserved
  <2>2. ASSUME NEW q \in Procs, cli'[q].at = "publish", cli'[q].seen # file'.id PROVE OutOfOrder(cli[q].name)'
    <3>1. cli'[q] = cli[q] /\ OutOfOrder(cli[q].name)
      BY <1>1, <1>2, <1>4, <2>1, <2>2 DEF Holding
    <3> QED
      BY <1>1, <3>1 DEF OutOfOrder, C!After, C!Last
  <2>3. hist'.count # 0
    BY <1>1, <1>2, <2>1 DEF Holding
  <2>4. \E a \in artifacts' : a.id = file'.id /\ a.name = LastName'
    BY <1>1, <1>3, <1>5, <2>1
  <2> QED
    BY <2>2, <2>3, <2>4
<1>8. Chained'
  <2>1. Bad /\ Preserved => Preserved'
    BY <1>1, <1>5 DEF Preserved
  <2>2. Known
    <3>1. file' = file /\ (Bad' <=> Bad)
      BY <1>1 DEF Bad
    <3> QED
      BY <2>1, <3>1 DEF Known
  <2>3. \A q \in Procs : q # p /\ cli'[q].at \notin {"copy", "publish"} => Safe(cli[q].seen)'
    BY <1>2, <1>4, <2>2, OthersChained DEF Chained
  <2>4. cli'[p].at \notin {"copy", "publish"} => Safe(cli[p].seen)'
    BY <1>1, <1>2, <2>2, PlainSafe DEF Chained
  <2>5. Safe(job.seen)' /\ \A n \in 1..Len(queue) : Safe(queue[n].seen)'
    BY <1>1, <1>2, <2>1 DEF Chained, Safe, Bad
  <2> QED
    BY <1>1, <2>3, <2>4, <2>5 DEF Chained
<1> QED
  BY <1>6, <1>7, <1>8

LEMMA DaemonEvidence ==
  ASSUME CbTypes, GateSide, Evidence, Takes \/ Gates \/ MovesLater \/ MovesAside \/ EvictsMoved \/ Spawns
  PROVE  Evidence'
<1>1. CASE Gates \/ MovesLater \/ MovesAside \/ EvictsMoved
  <2>1. host.gate /\ host' = host
    BY <1>1 DEF GateSide, Gates, MovesLater, MovesAside, EvictsMoved
  <2> QED
    BY <2>1 DEF Evidence, Calm
<1>2. CASE Takes \/ Spawns
  <2>1. /\ hist' = hist /\ UNCHANGED <<artifacts, clock, host, partials>>
        /\ file' = file \/ file' = [kind |-> "sound", id |-> C!Sound]
        /\ \A q \in Procs : cli'[q] = cli[q] \/ cli'[q] = C!Idle
    BY <1>2 DEF Takes, Spawns, Settled
  <2> SUFFICES ASSUME Calm PROVE StagedApart' /\ Holding' /\ Chained'
    BY <2>1 DEF Evidence, Calm
  <2>2. StagedApart /\ Holding /\ Chained
    BY DEF Evidence
  <2>3. Known
    BY <2>1 DEF Known, Preserved, Bad
  <2>4. \A q \in Procs : cli'[q].at = "publish" => cli'[q] = cli[q] /\ cli[q].name.at \in partials'
    BY <2>1, <2>2 DEF StagedApart, C!Idle
  <2>5. StagedApart' /\ Holding'
    BY <2>1, <2>2, <2>3, <2>4, StagedStays
  <2>6. ASSUME NEW q \in Procs, cli'[q].at \notin {"copy", "publish"} PROVE Safe(cli[q].seen)'
    <3>1. cli[q].seen \in Nat /\ cli[q].seen <= hist.last /\ C!Unread \in Nat /\ C!Unread <= hist.last
      BY HistNumbers DEF CbTypes, CliTyped, Errands, C!Unread
    <3>2. PICK s \in Nat : s = cli'[q].seen /\ s <= hist.last /\ Safe(s)
      <4>1. CASE cli'[q] = cli[q]
        BY <2>2, <2>6, <3>1, <4>1 DEF Chained
      <4>2. CASE cli'[q] = C!Idle
        BY <3>1, <4>2, SafeUnread DEF C!Idle
      <4> QED
        BY <2>1, <4>1, <4>2
    <3>3. Safe(s)'
      BY <3>2, <2>3, SafeStays
    <3> QED
      BY <3>2, <3>3 DEF Safe
  <2>7. CASE Takes
    <3>1. /\ queue \in Seq(C!Waiting) /\ queue # <<>> /\ queue' = Tail(queue)
          /\ job'.seen = Head(queue).seen
      BY <2>7 DEF Takes, CbTypes, QueueTyped
    <3>2. /\ 1 \in 1..Len(queue) /\ Head(queue) = queue[1] /\ Len(queue') = Len(queue) - 1
          /\ \A n \in 1..Len(queue') : n + 1 \in 1..Len(queue) /\ queue'[n] = queue[n + 1]
      BY <3>1
    <3>3. \A n \in 1..Len(queue) : Bad' /\ queue[n].seen = file'.id => Preserved'
      BY <2>2, <2>3, QueueSafe DEF Chained
    <3> QED
      BY <2>5, <2>6, <3>1, <3>2, <3>3 DEF Chained, Safe
  <2>8. CASE Spawns
    <3>1. queue' = queue /\ job' = C!NoJob
      BY <2>8 DEF Spawns
    <3>2. Safe(job.seen)'
      <4>1. CASE file' = file
        BY <2>1, <3>1, <4>1, SafeUnread DEF C!NoJob, Safe, Bad, Preserved
      <4>2. CASE file' = [kind |-> "sound", id |-> C!Sound]
        BY <4>2 DEF Safe, Bad
      <4> QED
        BY <2>1, <4>1, <4>2
    <3>3. \A n \in 1..Len(queue) : Bad' /\ queue[n].seen = file'.id => Preserved'
      BY <2>2, <2>3, QueueSafe DEF Chained
    <3> QED
      BY <2>5, <2>6, <3>1, <3>2, <3>3 DEF Chained, Safe
  <2> QED
    BY <1>2, <2>7, <2>8
<1> QED
  BY <1>1, <1>2

LEMMA FaultEvidence ==
  ASSUME CbTypes, Order, Evidence, Disturbs \/ Ticks \/ StepsBack \/ Reboots
  PROVE  Evidence'
<1>1. CASE StepsBack
  BY <1>1 DEF StepsBack, Evidence, Calm
<1>2. CASE Disturbs \/ Reboots
  <2>1. /\ hist'.published = hist.published /\ hist'.count = hist.count /\ hist'.disordered = hist.disordered
        /\ UNCHANGED <<artifacts, clock, host>> /\ partials' \subseteq partials
    BY <1>2 DEF Disturbs, Reboots, MildHist
  <2>2. \A q \in Procs : cli'[q] = C!Idle \/ (cli'[q] = cli[q] /\ partials' = partials)
    BY <1>2 DEF Disturbs, Reboots
  <2>3. Known
    <3>1. hist.last \in Nat
      BY HistNumbers DEF CbTypes
    <3>2. CASE file' = file
      BY <2>1, <3>2 DEF Known, Preserved
    <3>3. CASE file' = [kind |-> "link", id |-> C!Linked]
      BY <3>3 DEF Known, Bad
    <3>4. ASSUME NEW k \in C!Broken, file' = [kind |-> k, id |-> hist.last + 1] PROVE Known
      BY <3>1, <3>4 DEF Known
    <3> QED
      BY <1>2, <3>2, <3>3, <3>4 DEF Disturbs, Reboots
  <2> SUFFICES ASSUME Calm PROVE StagedApart' /\ Holding' /\ Chained'
    BY <2>1 DEF Evidence, Calm
  <2>4. StagedApart /\ Holding /\ Chained
    BY DEF Evidence
  <2>5. \A q \in Procs : cli'[q].at = "publish" => cli'[q] = cli[q] /\ cli[q].name.at \in partials'
    BY <2>2, <2>4 DEF StagedApart, C!Idle
  <2>6. StagedApart' /\ Holding'
    BY <2>1, <2>3, <2>4, <2>5, StagedStays
  <2>7. \A s \in Nat : s <= hist.last /\ Safe(s) => Safe(s)'
    BY <2>3, SafeStays
  <2>8. ASSUME NEW q \in Procs, cli'[q].at \notin {"copy", "publish"} PROVE Safe(cli[q].seen)'
    <3>1. cli[q].seen \in Nat /\ cli[q].seen <= hist.last /\ C!Unread \in Nat /\ C!Unread <= hist.last
      BY HistNumbers DEF CbTypes, CliTyped, Errands, C!Unread
    <3>2. PICK s \in Nat : s = cli'[q].seen /\ s <= hist.last /\ Safe(s)
      <4>1. CASE cli'[q] = cli[q]
        BY <2>4, <2>8, <3>1, <4>1 DEF Chained
      <4>2. CASE cli'[q] = C!Idle
        BY <3>1, <4>2, SafeUnread DEF C!Idle
      <4> QED
        BY <2>2, <4>1, <4>2
    <3> QED
      BY <2>7, <3>2 DEF Safe
  <2>9. C!Unread \in Nat /\ C!Unread <= hist.last /\ Safe(C!Unread)
    BY HistNumbers, SafeUnread DEF CbTypes, C!Unread
  <2>10. Bad' /\ C!Unread = file'.id => Preserved'
    <3>1. PICK s \in Nat : s = C!Unread /\ s <= hist.last /\ Safe(s)
      BY <2>9
    <3>2. Safe(s)'
      BY <2>7, <3>1
    <3> QED
      BY <3>1, <3>2 DEF Safe
  <2>11. Safe(job.seen)'
    <3>1. CASE job' = job
      BY <2>3, <2>4, <3>1, JobSafe DEF Chained, Safe
    <3>2. CASE job' = C!NoJob
      BY <2>10, <3>2 DEF Safe, C!NoJob
    <3> QED
      BY <1>2, <3>1, <3>2 DEF Disturbs, Reboots
  <2>12. ASSUME NEW n \in 1..Len(queue') PROVE Safe(queue[n].seen)'
    <3>1. CASE queue' = queue
      BY <2>3, <2>4, <2>12, <3>1, QueueSafe DEF Chained, Safe
    <3>2. CASE Reboots
      BY <2>10, <2>12, <3>2 DEF Safe, Reboots
    <3> QED
      BY <1>2, <3>1, <3>2 DEF Disturbs
  <2> QED
    BY <2>6, <2>8, <2>11, <2>12 DEF Chained, Safe
<1>3. CASE Ticks
  <2>1. clock' = clock + 1 /\ UNCHANGED <<file, artifacts, partials, queue, job, cli, host, hist>>
    BY <1>3 DEF Ticks
  <2> SUFFICES ASSUME Calm PROVE StagedApart' /\ Holding' /\ Chained'
    BY <2>1 DEF Evidence, Calm
  <2>2. StagedApart /\ Holding /\ Chained /\ AllDue
    BY DEF Evidence, Order, Calm
  <2>3. ASSUME NEW p \in Procs, cli[p].at = "publish" PROVE cli[p].name.at[1] # clock'
    <3>1. cli[p].name.at[1] \in Nat /\ clock \in Nat
      BY DEF CbTypes, CliTyped, Errands, Labels, Stamps, ClockTyped
    <3>2. cli[p].name.at[1] <= clock
      BY <2>2, <2>3 DEF AllDue, Due
    <3> QED
      BY <2>1, <3>1, <3>2
  <2>4. StagedApart'
    <3>1. partials' \cap C!Names' = {}
      BY <2>1, <2>2 DEF StagedApart, C!Names
    <3> QED
      BY <2>1, <2>2, <2>3, <3>1 DEF StagedApart, Bad
  <2>5. Holding'
    BY <2>1, <2>2 DEF Holding, Bad, Preserved, LastName, OutOfOrder, C!After, C!Last
  <2>6. Chained'
    BY <2>1, <2>2 DEF Chained, Safe, Bad, Preserved
  <2> QED
    BY <2>4, <2>5, <2>6
<1> QED
  BY <1>1, <1>2, <1>3

LEMMA GateStays ==
  ASSUME CbTypes, GateSide,
         \/ \E p \in Procs : Quiet(p) \/ Looks(p) \/ Stages(p) \/ Drops(p) \/ Strays(p) \/ Renumbers(p)
                             \/ Publishes(p) \/ Evicts(p) \/ Departs(p)
         \/ Takes \/ Gates \/ MovesLater \/ MovesAside \/ EvictsMoved \/ Spawns
         \/ Disturbs \/ Ticks \/ StepsBack \/ Reboots
  PROVE  GateSide'
<1>1. job.seen \in Nat /\ job.seen <= hist.last /\ hist.last \in Nat /\ (Bad => file.id > C!Unread)
  BY HistNumbers DEF CbTypes, JobTyped, Jobs, FileTyped
<1>2. CASE \E p \in Procs : Quiet(p) \/ Looks(p) \/ Stages(p) \/ Drops(p) \/ Strays(p) \/ Renumbers(p)
                            \/ Publishes(p) \/ Evicts(p) \/ Departs(p)
  <2>1. file' = file /\ host' = host /\ job'.at = job.at /\ job'.seen = job.seen
    BY <1>2 DEF Quiet, Looks, Stages, Drops, Strays, Renumbers, Publishes, Evicts, Departs, Aside
  <2> QED
    BY <2>1 DEF GateSide, Bad
<1>3. CASE Takes
  BY <1>3 DEF Takes, GateSide, C!AtGate
<1>4. CASE Gates \/ MovesLater
  <2>1. host.gate /\ host' = host /\ file' = file
    BY <1>4 DEF Gates, MovesLater, GateSide
  <2>2. job'.at \in {"idle", "gate", "move"} \/ (job'.at = "spawn" /\ ~Bad)
    BY <1>4, <2>1 DEF Gates, MovesLater, C!AtGate
  <2> QED
    BY <2>1, <2>2 DEF GateSide, Bad
<1>5. CASE MovesAside
  BY <1>5 DEF MovesAside, GateSide
<1>6. CASE EvictsMoved
  <2>1. host.gate /\ host' = host /\ file' = file /\ job'.seen = C!Unread /\ job'.at = "spawn"
    BY <1>6 DEF EvictsMoved, GateSide
  <2>2. Bad' => file'.id > C!Unread
    BY <1>1, <2>1 DEF Bad
  <2> QED
    BY <2>1, <2>2 DEF GateSide, C!Unread
<1>7. CASE Spawns \/ Reboots
  BY <1>7 DEF Spawns, Reboots, GateSide, C!NoJob
<1>8. CASE Disturbs
  <2>1. host' = host /\ job' = job
    BY <1>8 DEF Disturbs
  <2>2. CASE file' = file
    BY <2>1, <2>2 DEF GateSide, Bad
  <2>3. CASE file' = [kind |-> "link", id |-> C!Linked]
    BY <2>1, <2>3 DEF GateSide, Bad
  <2>4. ASSUME NEW k \in C!Broken, file' = [kind |-> k, id |-> hist.last + 1] PROVE GateSide'
    <3>1. job'.seen # file'.id
      BY <1>1, <2>1, <2>4
    <3> QED
      BY <2>1, <3>1 DEF GateSide
  <2> QED
    BY <1>8, <2>2, <2>3, <2>4 DEF Disturbs
<1>9. CASE Ticks \/ StepsBack
  BY <1>9 DEF Ticks, StepsBack, GateSide, Bad
<1> QED
  BY <1>2, <1>3, <1>4, <1>5, <1>6, <1>7, <1>8, <1>9

LEMMA UnjudgedStays ==
  ASSUME CbTypes, AllUnjudged,
         \/ \E p \in Procs : Quiet(p) \/ Looks(p) \/ Stages(p) \/ Drops(p) \/ Strays(p) \/ Renumbers(p)
                             \/ Publishes(p) \/ Evicts(p) \/ Departs(p)
         \/ Takes \/ Gates \/ MovesLater \/ MovesAside \/ EvictsMoved \/ Spawns
         \/ Disturbs \/ Ticks \/ StepsBack \/ Reboots
  PROVE  AllUnjudged'
<1>1. ASSUME NEW p \in Procs,
             Quiet(p) \/ Looks(p) \/ Stages(p) \/ Drops(p) \/ Strays(p) \/ Renumbers(p)
             \/ Publishes(p) \/ Evicts(p) \/ Departs(p)
      PROVE  AllUnjudged'
  <2>1. \A q \in Procs : q # p => cli'[q] = cli[q]
    BY <1>1 DEF Quiet, Looks, Stages, Drops, Strays, Renumbers, Publishes, Evicts, Departs, Plain, Others
  <2>2. Unjudged(p)'
    BY <1>1 DEF Quiet, Looks, Stages, Drops, Strays, Renumbers, Publishes, Evicts, Departs, Plain, Unjudged
  <2> QED
    BY <2>1, <2>2 DEF AllUnjudged, Unjudged
<1>2. CASE \/ Takes \/ Gates \/ MovesLater \/ MovesAside \/ EvictsMoved \/ Spawns
           \/ Disturbs \/ Ticks \/ StepsBack \/ Reboots
  <2>1. \A q \in Procs : cli'[q] = cli[q] \/ cli'[q] = C!Idle
    BY <1>2 DEF Takes, Gates, MovesLater, MovesAside, EvictsMoved, Spawns, Disturbs, Ticks, StepsBack, Reboots, Settled
  <2> QED
    BY <2>1 DEF AllUnjudged, Unjudged, C!Idle
<1> QED
  BY <1>1, <1>2

\* The invariant.
CbInv == CbTypes /\ AllUnjudged /\ Order /\ GateSide /\ Evidence

LEMMA CbInitInv == ASSUME CacheConstants, C!Init PROVE CbInv
<1>1. CbTypes
  BY CbInitTypes
<1>2. \A p \in Procs : cli[p] = C!Idle
  BY DEF C!Init
<1>3. AllUnjudged
  BY <1>2 DEF AllUnjudged, Unjudged, C!Idle
<1>4. artifacts = {} /\ hist.count = 0 /\ hist.published = <<>> /\ job = C!NoJob /\ queue = <<>>
      /\ partials = {} /\ file.kind = "sound"
  BY DEF C!Init
<1>5. Len(hist.published) = 0 /\ Len(queue) = 0 /\ C!Names = {}
  BY <1>4 DEF C!Names
<1>6. Order
  BY <1>2, <1>4, <1>5 DEF Order, Lined, AllDue, C!Idle, C!NoJob
<1>7. GateSide
  BY <1>4 DEF GateSide, C!NoJob
<1>8. Evidence
  BY <1>2, <1>4, <1>5 DEF Evidence, StagedApart, Holding, Chained, Safe, Bad, C!Idle
<1> QED
  BY <1>1, <1>3, <1>6, <1>7, <1>8 DEF CbInv

LEMMA CbNextInv ==
  ASSUME CacheConstants, CbInv, C!Next
  PROVE  CbInv'
<1> USE DEF CbInv
<1>1. ASSUME NEW p \in Procs, Quiet(p), UNCHANGED queue \/ Sends(p) PROVE CbInv'
  BY <1>1, QuietTypes, CliOrder, CliEvidence, GateStays, UnjudgedStays
<1>2. ASSUME NEW p \in Procs, Looks(p) \/ Drops(p) \/ Strays(p) PROVE CbInv'
  BY <1>2, CliTypes, CliOrder, CliEvidence, GateStays, UnjudgedStays
<1>3. ASSUME NEW p \in Procs, Stages(p) PROVE CbInv'
  BY <1>3, CliTypes, StageOrder, StageEvidence, GateStays, UnjudgedStays
<1>4. ASSUME NEW p \in Procs, Renumbers(p) PROVE CbInv'
  BY <1>4, CliTypes, StageOrder, RenumberEvidence, GateStays, UnjudgedStays
<1>5. ASSUME NEW p \in Procs, Publishes(p) PROVE CbInv'
  BY <1>5, PublishTypes, PublishOrder, PublishEvidence, GateStays, UnjudgedStays
<1>6. ASSUME NEW p \in Procs, Evicts(p) PROVE CbInv'
  BY <1>6, EvictsTypes, CliOrder, EvictEvidence, GateStays, UnjudgedStays
<1>7. ASSUME NEW p \in Procs, Departs(p) PROVE CbInv'
  BY <1>7, DepartTypes, CliOrder, CliEvidence, GateStays, UnjudgedStays
<1>8. CASE Takes \/ Gates \/ MovesLater \/ EvictsMoved \/ Spawns
  BY <1>8, DaemonTypes, DaemonOrder, DaemonEvidence, GateStays, UnjudgedStays
<1>9. CASE MovesAside
  BY <1>9, MoveAsideTypes, MoveAsideOrder, DaemonEvidence, GateStays, UnjudgedStays
<1>10. CASE Disturbs \/ Ticks \/ StepsBack \/ Reboots
  BY <1>10, FaultTypes, FaultOrder, FaultEvidence, GateStays, UnjudgedStays
<1>11. ASSUME NEW p \in Procs, C!CliStep(p) PROVE CbInv'
  <2>1. CASE C!Repair(p) \/ C!CheckCache(p) \/ C!MendCache(p)
    BY <1>1, <2>1, RepairQuiet, CheckCacheQuiet, MendCacheQuiet
  <2>2. CASE C!Judge(p)
    BY <1>2, <2>2, JudgeLooks
  <2>3. CASE C!Copy(p)
    BY <1>1, <1>2, <1>3, <2>3, CopyOutcome
  <2>4. CASE C!Publish(p)
    BY <1>2, <1>4, <1>5, <2>4, PublishOutcome
  <2>5. CASE C!Prune(p)
    BY <1>6, <2>5, PruneEvicts
  <2>6. CASE C!Send(p)
    BY <1>1, <2>6, SendQuiet
  <2> QED
    BY <1>11, <2>1, <2>2, <2>3, <2>4, <2>5, <2>6 DEF C!CliStep
<1>12. ASSUME NEW p \in Procs, C!Leave(p) PROVE CbInv'
  BY <1>7, <1>12, LeaveDeparts
<1>13. ASSUME NEW p \in Procs, NEW o \in {"start", "restart"}, NEW yes \in BOOLEAN, C!Invoke(p, o, yes)
       PROVE  CbInv'
  BY <1>1, <1>13, InvokeQuiet
<1>14. CASE C!Retry
  BY <1>1, <1>14, RetryQuiet DEF CacheConstants
<1>15. CASE C!DaemonStep
  BY <1>8, <1>9, <1>15, TakeOutcome, GateOutcome, MoveOutcome, PruneMovedEvicts, SpawnOutcome DEF C!DaemonStep
<1>16. CASE C!CoreDies \/ C!Touch \/ C!Drift
  BY <1>10, <1>16, FaultsDisturb
<1>17. CASE C!Tick \/ C!StepBack
  BY <1>10, <1>17, ClockOutcome
<1>18. CASE C!Reboot
  BY <1>10, <1>18, RebootOutcome
<1> QED
  BY <1>11, <1>12, <1>13, <1>14, <1>15, <1>16, <1>17, <1>18 DEF C!Next

LEMMA CbStepInv ==
  ASSUME CacheConstants, CbInv, [C!Next]_(C!vars)
  PROVE  CbInv'
<1>1. CASE C!Next
  BY <1>1, CbNextInv
<1>2. CASE UNCHANGED C!vars
  <2>1. C!Names' = C!Names
    BY <1>2 DEF C!vars, C!Names
  <2>2. CbTypes'
    BY <1>2 DEF CbInv, C!vars, CbTypes, FileTyped, PermTyped, HeldTyped, ClockTyped, QueueTyped, JobTyped,
       CliTyped, HistTyped, HostTyped, Bad
  <2>3. AllUnjudged' /\ GateSide'
    BY <1>2 DEF CbInv, C!vars, AllUnjudged, Unjudged, GateSide, Bad
  <2>4. Order'
    BY <1>2, <2>1 DEF CbInv, C!vars, Order, Lined, AllDue, Due, C!After
  <2>5. Evidence'
    <3>1. Calm => StagedApart' /\ Holding' /\ Chained'
      <4>1. StagedApart /\ Holding => StagedApart' /\ Holding'
        BY <1>2, <2>1 DEF C!vars, StagedApart, Holding, Bad, Preserved, Seq0, LastName, OutOfOrder, C!After, C!Last
      <4>2. Chained => Chained'
        BY <1>2 DEF C!vars, Chained, Safe, Bad, Preserved
      <4> QED
        BY <4>1, <4>2 DEF CbInv, Evidence
    <3> QED
      BY <1>2, <3>1 DEF C!vars, Evidence, Calm
  <2> QED
    BY <2>2, <2>3, <2>4, <2>5 DEF CbInv
<1> QED
  BY <1>1, <1>2

LEMMA CbInvTypeOK == ASSUME CacheConstants, CbInv PROVE C!TypeOK
<1>1. \A n \in 1..Len(queue) : queue[n] \in C!Waiting
  BY EntryTyped DEF CbInv, CbTypes, QueueTyped
<1>2. DOMAIN queue = 1..Len(queue)
  BY DEF CbInv, CbTypes, QueueTyped
<1>3. artifacts \subseteq [name : Nat \X Nat, id : Nat] /\ partials \subseteq Nat \X Nat
  BY DEF CbInv, CbTypes, HeldTyped, Artifacts, Stamps, ClockTyped
<1>4. job.at \in {"idle", "gate", "move", "prune", "spawn"} /\ \A p \in Procs : cli[p].at \in C!Ats
  BY DEF CbInv, CbTypes, JobTyped, Jobs, CliTyped, Errands
<1> QED
  BY <1>1, <1>2, <1>3, <1>4 DEF C!TypeOK, CbInv, CbTypes, FileTyped, PermTyped, ClockTyped

LEMMA CbInvNewest == ASSUME CbInv PROVE NewestKept
<1> SUFFICES ASSUME ~hist.disordered, NEW n \in Range(hist.published)
             PROVE  n \in {a.name : a \in artifacts}
  BY DEF NewestKept
<1>1. hist.published \in Seq(Stamps) /\ DOMAIN hist.published = 1..Len(hist.published)
  BY DEF CbInv, CbTypes, HistTyped, Hists
<1>2. PICK i \in 1..Len(hist.published) : hist.published[i] = n
  BY <1>1 DEF Range
<1> QED
  BY <1>2 DEF CbInv, Order, Lined, C!Names

LEMMA CbInvEvidence ==
  ASSUME CbInv, Removes, job.seen = file.id
  PROVE  hist.disordered \/ \E a \in artifacts : a.id = file.id
<1>1. job.at = "spawn" /\ Bad
  BY DEF Removes, Bad
<1>2. ~host.gate
  BY <1>1 DEF CbInv, GateSide
<1>3. CASE ~hist.disordered
  BY <1>1, <1>2, <1>3 DEF CbInv, Evidence, Calm, Chained, Safe, Preserved
<1> QED
  BY <1>3

\* (CacheDb.) The state around the database is of its type, of any number of commands: the
\* gate of the daemon, the copies and the repairs only meet databases and verdicts they know.
THEOREM CacheTyped == ASSUME CacheConstants PROVE C!Spec => []C!TypeOK
<1>1. CacheConstants => (C!Init => CbInv)
  BY CbInitInv
<1>2. CbInv /\ [C!Next]_(C!vars) => CbInv'
  BY CbStepInv
<1>3. CbInv => C!TypeOK
  BY CbInvTypeOK
<1> QED
  BY <1>1, <1>2, <1>3, PTL DEF C!Spec

\* (CacheDb.) As long as the names were published in the order of their seconds, the last
\* Keep artifacts are there, whoever publishes and evicts at the same time.
THEOREM CacheKeepsNewest == ASSUME CacheConstants PROVE C!Spec => []NewestKept
<1>1. CacheConstants => (C!Init => CbInv)
  BY CbInitInv
<1>2. CbInv /\ [C!Next]_(C!vars) => CbInv'
  BY CbStepInv
<1>3. CbInv => NewestKept
  BY CbInvNewest
<1> QED
  BY <1>1, <1>2, <1>3, PTL DEF C!Spec

\* (CacheDb.) A database the Core removes because it cannot open it was moved aside or copied
\* before, if the gate or the command that asked for the start had seen it; the copy is among
\* the artifacts then, however many commands stage, publish and evict others meanwhile.
THEOREM CacheEvidence == ASSUME CacheConstants PROVE C!Spec => EvidenceFirst
<1>1. CacheConstants => (C!Init => CbInv)
  BY CbInitInv
<1>2. CbInv /\ [C!Next]_(C!vars) => CbInv'
  BY CbStepInv
<1>3. CbInv => (Removes /\ job.seen = file.id => hist.disordered \/ \E a \in artifacts : a.id = file.id)
  BY CbInvEvidence
<1> QED
  BY <1>1, <1>2, <1>3, PTL DEF C!Spec, EvidenceFirst
=============================================================================
