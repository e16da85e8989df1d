-------------------------- MODULE SelectionMirror --------------------------
(* The user's node selections: the files of the user tree, under the         *)
(* selection lock; the daemon's mirror of them, pushed by the commands; the  *)
(* replay of the mirror when a Core is started or a daemon boots; and the    *)
(* sampler that compares the mirror with the running Core.                   *)
EXTENDS Naturals, FiniteSets, TLC

CONSTANTS Procs,              \* processes running commands
          Subs, Groups, Nodes,
          None,               \* nobody, nothing
          Absent,             \* a file that does not exist
          MaxCommands, MaxFaults   \* bounds on what happens

ASSUME NoneAssumption == /\ None \notin Procs \cup Subs \cup Groups \cup Nodes
                         /\ Absent \notin [Groups -> Nodes \cup {None}]
ASSUME BoundsAssumption == {MaxCommands, MaxFaults} \subseteq Nat

VARIABLES user,     \* the user tree: active subscription, config.yaml, selections/*.yaml
          lock,     \* holder of .selection-state.lock
          mirror,   \* the daemon's copy: active, a map per subscription, the binding
          core,     \* the Core: up, what it has loaded, the selected nodes
          daemon,   \* the daemon: up, owner of OWNER_LIFECYCLE_LOCK, drift tracker
          sample,   \* the sampler's tick
          cmd,      \* the command of each process
          history   \* tun: whether TUN runs (fixed); alone: see Begin; counters

vars == <<user, lock, mirror, core, daemon, sample, cmd, history>>

(***************************************************************************)
(* The revision of config.yaml is that of the subscription it was generated*)
(* from; with TUN running the daemon loads it merged with the snapshot.    *)
(***************************************************************************)
Pins == [Groups -> Nodes \cup {None}]
Files == Pins \cup {Absent}
Unpinned == [g \in Groups |-> None]
Content(file) == IF file = Absent THEN Unpinned ELSE file
Base(s) == [sub |-> s, tun |-> FALSE]
Merged(s) == [sub |-> s, tun |-> history.tun]
Revisions == [sub : Subs, tun : BOOLEAN]
Bindings == [sub : Subs, rev : Revisions]

PCs == {"idle", "lock", "open", "put", "attest", "load", "save", "undo", "read active",
        "record active", "push", "record", "reconcile", "payload", "request", "lifecycle", "start",
        "replay", "replay put", "finish", "probe", "restore"}
\* the handlers of the daemon that a DriftOpGuard brackets
InDaemon == {"put", "attest", "start", "replay", "replay put", "finish"}

Idle == [pc |-> "idle", name |-> "none", sub |-> None, group |-> None, node |-> None,
         file |-> Absent, rev |-> None, load |-> None, todo |-> {}, checked |-> FALSE,
         lost |-> FALSE]
NoSegment == [open |-> FALSE, owner |-> None]
NoSample == [pc |-> "idle", now |-> Unpinned, drifts |-> {}]
Drifts == [group : Groups, intent : Nodes, runtime : Nodes]

TypeOK ==
  /\ user \in [active : Subs, config : Subs, pins : [Subs -> Files]]
  /\ lock \in Procs \cup {None}
  /\ mirror \in [active : Subs \cup {None}, map : [Subs -> Files], bind : Bindings \cup {None}]
  /\ core \in [up : BOOLEAN, sub : Subs, now : [Groups -> Nodes]]
  /\ daemon \in [up : BOOLEAN, owner : Procs \cup {None}, segment : [open : BOOLEAN, owner : Subs \cup {None}]]
  /\ sample \in [pc : {"idle", "fetch", "compare", "publish"}, now : Pins, drifts : SUBSET Drifts]
  /\ cmd \in [Procs -> [pc : PCs, name : {"none", "select", "unpin", "switch", "restart", "probe"},
                        sub : Subs \cup {None}, group : Groups \cup {None},
                        node : Nodes \cup {None}, file : Files, rev : Revisions \cup {None},
                        load : Subs \cup {None}, todo : SUBSET (Subs \cup Groups),
                        checked : BOOLEAN, lost : BOOLEAN]]
  /\ history \in [tun : BOOLEAN, alone : [Procs -> BOOLEAN],
                  commands : 0..MaxCommands, faults : 0..MaxFaults]

Init ==
  /\ \E s \in Subs, now \in [Groups -> Nodes], tun \in BOOLEAN :
       /\ user = [active |-> s, config |-> s, pins |-> [t \in Subs |-> Absent]]
       /\ core = [up |-> TRUE, sub |-> s, now |-> now]
       /\ history = [tun |-> tun, alone |-> [p \in Procs |-> FALSE],
                     commands |-> 0, faults |-> 0]
  /\ lock = None
  /\ mirror = [active |-> None, map |-> [s \in Subs |-> Absent], bind |-> None]
  /\ daemon = [up |-> TRUE, owner |-> None, segment |-> NoSegment]
  /\ sample = NoSample
  /\ cmd = [p \in Procs |-> Idle]

At(p, step) == cmd[p].pc = step
Set(p, record) == cmd' = [cmd EXCEPT ![p] = record]
Goto(p, step) == Set(p, [cmd[p] EXCEPT !.pc = step])
\* A DriftOpGuard opens or closes: the sequence number moves.  The sampler
\* finds that out when it wants to publish; here the sample is gone at once.
\* (Mutant: the sequence number does not move.)
Unnoticed == UNCHANGED sample
Moved == sample' = NoSample

\* A command begins.  alone[p]: p runs a restart, and no other command ran at
\* any time of it.
Begin(p, record) ==
  LET others == \E q \in Procs \ {p} : ~At(q, "idle") IN
  /\ At(p, "idle") /\ history.commands < MaxCommands
  /\ Set(p, record)
  /\ history' = [history EXCEPT
       !.commands = @ + 1,
       !.alone = [q \in Procs |-> record.name = "restart" /\ q = p /\ ~others]]

Fault == /\ history.faults < MaxFaults
         /\ history' = [history EXCEPT !.faults = @ + 1]

\* A command ends, and lets go of the lock if it has it.
End(p) == /\ Set(p, Idle)
          /\ lock' = IF lock = p THEN None ELSE lock

(***************************************************************************)
(* select: PUT through the daemon, persist and push, all under the lock.   *)
(***************************************************************************)
Select(p, g, n) ==
  /\ lock = None
  /\ Begin(p, [Idle EXCEPT !.pc = "open", !.name = "select", !.sub = user.active,
                           !.group = g, !.node = n])
  /\ lock' = p
  /\ UNCHANGED <<user, mirror, core, daemon, sample>>

\* An explicit select by the TUN path opens the segment.
Guarded == daemon' = IF history.tun
                     THEN [daemon EXCEPT !.segment = [open |-> TRUE, owner |-> mirror.active]]
                     ELSE daemon
Unguarded == daemon' = IF history.tun THEN [daemon EXCEPT !.segment = NoSegment] ELSE daemon

SelectOpen(p) ==
  /\ At(p, "open")
  /\ IF daemon.up /\ core.up
     THEN Goto(p, "put") /\ Guarded /\ Moved /\ UNCHANGED lock
     ELSE End(p) /\ UNCHANGED <<daemon, sample>>
  /\ UNCHANGED <<user, mirror, core, history>>

SelectPut(p) ==
  /\ At(p, "put")
  /\ IF core.up
     THEN /\ core' = [core EXCEPT !.now[cmd[p].group] = cmd[p].node]
          /\ Goto(p, "attest")
          /\ UNCHANGED <<lock, daemon, sample>>
     ELSE End(p) /\ Unguarded /\ Moved /\ UNCHANGED core
  /\ UNCHANGED <<user, mirror, history>>

SelectAttest(p) ==
  /\ At(p, "attest")
  /\ Moved
  /\ IF core.up /\ core.now[cmd[p].group] = cmd[p].node
     THEN Goto(p, "load") /\ UNCHANGED <<lock, daemon>>
     ELSE End(p) /\ Unguarded
  /\ UNCHANGED <<user, mirror, core, history>>

(***************************************************************************)
(* unpin: the scope is resolved, then the entry, or with --all every entry,*)
(* of the active subscription is removed under the lock, and the file      *)
(* pushed after it, also when there was nothing to remove.                 *)
(***************************************************************************)
About(c) == IF c.group = None THEN Groups ELSE {c.group}

Unpin(p, g) ==
  /\ Begin(p, [Idle EXCEPT !.pc = "lock", !.name = "unpin", !.sub = user.active, !.group = g])
  /\ UNCHANGED <<user, lock, mirror, core, daemon, sample>>

\* (Mutant: the entry is removed without the lock.)
UnpinUnlocked(p) ==
  /\ At(p, "lock")
  /\ Goto(p, "load")
  /\ UNCHANGED <<user, lock, mirror, core, daemon, sample, history>>

UnpinLock(p) ==
  /\ At(p, "lock") /\ lock = None
  /\ lock' = p
  /\ Goto(p, "load")
  /\ UNCHANGED <<user, mirror, core, daemon, sample, history>>

Load(p) ==
  /\ At(p, "load")
  /\ Set(p, [cmd[p] EXCEPT !.pc = "save", !.file = user.pins[cmd[p].sub]])
  /\ UNCHANGED <<user, lock, mirror, core, daemon, sample, history>>

Saved(c) == [c EXCEPT !.pc = "push", !.group = None, !.node = None, !.file = Absent]
Edited(c) == [g \in Groups |-> IF g \in About(c) THEN c.node ELSE Content(c.file)[g]]
Save(p) ==
  LET c == cmd[p] IN
  /\ At(p, "save")
  /\ UNCHANGED <<mirror, core, daemon, sample>>
  /\ CASE c.name = "unpin" ->
            /\ user' = IF \A g \in About(c) : Content(c.file)[g] = None THEN user
                       ELSE [user EXCEPT !.pins[c.sub] = Edited(c)]
            /\ lock' = IF lock = p THEN None ELSE lock
            /\ Set(p, [Saved(c) EXCEPT !.sub = user.active])
            /\ UNCHANGED history
       [] c.name = "select" ->
            /\ UNCHANGED lock
            /\ \/ /\ user' = [user EXCEPT !.pins[c.sub] = Edited(c)]
                  /\ Set(p, Saved(c)) /\ UNCHANGED history
               \/ Goto(p, "undo") /\ Fault /\ UNCHANGED user

\* The selection could not be persisted: the Core gets the old one back.
Undo(p) ==
  LET c == cmd[p] old == Content(c.file)[c.group] IN
  /\ At(p, "undo")
  /\ Set(p, Saved(c))
  /\ IF old # None /\ daemon.up /\ core.up
     THEN Guarded /\ Moved /\ core' = [core EXCEPT !.now[c.group] = old]
     ELSE UNCHANGED <<core, daemon, sample>>
  /\ UNCHANGED <<user, lock, mirror, history>>

(***************************************************************************)
(* Pushes.  What is sent was read before; a push may fail, also when tried *)
(* again, and nothing is done about it.                                    *)
(***************************************************************************)
ReadActive(p) ==
  /\ At(p, "read active")
  /\ Set(p, [cmd[p] EXCEPT !.pc = "record active", !.sub = user.active,
                           !.rev = IF cmd[p].name = "switch" THEN Base(user.config) ELSE @])
  /\ UNCHANGED <<user, lock, mirror, core, daemon, sample, history>>

Bound(c) == [sub |-> c.sub, rev |-> c.rev]
Written == {s \in Subs : user.pins[s] # Absent}

RecordActive(p) ==
  LET c == cmd[p] IN
  /\ At(p, "record active")
  /\ UNCHANGED <<user, lock, core, daemon>>
  /\ \/ /\ daemon.up
        /\ mirror' = [mirror EXCEPT !.active = c.sub, !.bind = Bound(c)]
        /\ Moved
        /\ Set(p, [c EXCEPT !.pc = "push",
                            !.todo = IF c.name = "restart" THEN Written ELSE {}])
        /\ UNCHANGED history
     \/ /\ Set(p, [c EXCEPT !.pc = IF c.name = "switch" THEN "payload" ELSE "request",
                            !.lost = TRUE])
        /\ \/ ~daemon.up /\ UNCHANGED <<mirror, sample, history>>
           \/ daemon.up /\ Fault /\ UNCHANGED <<mirror, sample>>
           \/ daemon.up /\ Fault /\ Moved   \* the active file is not written
              /\ mirror' = [mirror EXCEPT !.bind = Bound(c)]

\* What follows the push of one file.
AfterPush(p, c) ==
  CASE c.name \in {"select", "unpin"} -> End(p)
    [] c.name = "switch" -> Set(p, [c EXCEPT !.pc = "payload", !.file = Absent]) /\ UNCHANGED lock
    [] c.name = "restart" -> Set(p, c) /\ UNCHANGED lock

\* A restart pushes one file after the other, the others the one they changed.
Push(p) ==
  LET c == cmd[p] IN
  /\ At(p, "push")
  /\ IF c.name = "restart"
     THEN /\ UNCHANGED lock
          /\ IF c.todo = {} THEN Goto(p, "reconcile")
             ELSE \E s \in c.todo :
                    Set(p, [c EXCEPT !.pc = "record", !.sub = s, !.todo = @ \ {s},
                                     !.file = user.pins[s]])
     ELSE IF user.pins[c.sub] = Absent THEN AfterPush(p, c)
          ELSE /\ Set(p, [c EXCEPT !.pc = "record", !.file = user.pins[c.sub],
                                   !.rev = Base(user.config)])
               /\ UNCHANGED lock
  /\ UNCHANGED <<user, mirror, core, daemon, sample, history>>

SegmentAfter(s) == IF daemon.segment.owner \in {None, s} THEN NoSegment ELSE daemon.segment
\* Where a restart goes on; a push that fails once the mirror was compared is lost.
AfterRecord(p, failed) ==
  LET c == cmd[p] IN
  AfterPush(p, IF c.name = "restart"
               THEN [c EXCEPT !.pc = IF c.checked THEN "reconcile" ELSE "push", !.file = Absent,
                              !.lost = @ \/ (failed /\ c.checked)]
               ELSE c)

Record(p) ==
  LET c == cmd[p] IN
  /\ At(p, "record")
  /\ UNCHANGED <<user, core>>
  /\ \/ /\ daemon.up
        /\ daemon' = [daemon EXCEPT !.segment = SegmentAfter(c.sub)]
        /\ Moved
        /\ \/ /\ mirror' = [mirror EXCEPT !.bind = Bound(c), !.map[c.sub] = c.file]
              /\ AfterRecord(p, FALSE) /\ UNCHANGED history
           \/ /\ mirror' = [mirror EXCEPT !.bind = Bound(c)]   \* the map is not written
              /\ AfterRecord(p, TRUE) /\ Fault
     \/ /\ IF daemon.up /\ c.name = "restart" THEN Fault ELSE UNCHANGED history
        /\ AfterRecord(p, TRUE)
        /\ UNCHANGED <<mirror, daemon, sample>>

\* reconcile_selection_mirror: what the mirror lacks or has otherwise.
Drifted == {s \in Written : mirror.map[s] # user.pins[s]}

Reconcile(p) ==
  LET c == cmd[p] IN
  /\ At(p, "reconcile")
  /\ CASE ~c.checked /\ daemon.up -> Set(p, [c EXCEPT !.checked = TRUE, !.todo = Drifted])
       [] ~c.checked /\ ~daemon.up -> Set(p, [c EXCEPT !.pc = "request", !.lost = TRUE])
       [] c.checked /\ c.todo = {} -> Goto(p, "request")
       [] c.checked /\ c.todo # {} ->
            \E s \in c.todo :
              Set(p, [c EXCEPT !.pc = "record", !.sub = s, !.todo = @ \ {s},
                               !.file = user.pins[s], !.rev = Base(user.config)])
  /\ UNCHANGED <<user, lock, mirror, core, daemon, sample, history>>

(***************************************************************************)
(* Commands that have a configuration loaded.                              *)
(***************************************************************************)
\* A switch writes the active pointer and config.yaml (see UserConfig).
Switch(p, s) ==
  /\ Begin(p, [Idle EXCEPT !.pc = "read active", !.name = "switch"])
  /\ user' = [user EXCEPT !.active = s, !.config = s]
  /\ UNCHANGED <<lock, mirror, core, daemon, sample>>

Restart(p) ==
  /\ Begin(p, [Idle EXCEPT !.pc = "read active", !.name = "restart", !.load = user.config,
                           !.rev = Merged(user.config)])
  /\ UNCHANGED <<user, lock, mirror, core, daemon, sample>>

Payload(p) ==
  /\ At(p, "payload")
  /\ Set(p, [cmd[p] EXCEPT !.pc = "request", !.load = user.config])
  /\ UNCHANGED <<user, lock, mirror, core, daemon, sample, history>>

\* The request names the subscription whose selections are to be replayed.
\* (Mutant: only a switch does.)
RequestOnSwitch(p) ==
  /\ At(p, "request")
  /\ Set(p, [cmd[p] EXCEPT !.pc = "lifecycle", !.rev = None,
                           !.sub = IF cmd[p].name = "switch" THEN user.active ELSE None])
  /\ UNCHANGED <<user, lock, mirror, core, daemon, sample, history>>

Request(p) ==
  /\ At(p, "request")
  /\ Set(p, [cmd[p] EXCEPT !.pc = "lifecycle", !.sub = user.active, !.rev = None])
  /\ UNCHANGED <<user, lock, mirror, core, daemon, sample, history>>

\* promote_system_config, under OWNER_LIFECYCLE_LOCK.  What it replays is
\* decided at its beginning: nothing, unless the mirror is about the
\* subscription that was requested.
Promote(p) ==
  /\ At(p, "lifecycle")
  /\ IF daemon.up
     THEN /\ daemon.owner = None
          /\ daemon' = [daemon EXCEPT !.owner = p]
          /\ Set(p, [cmd[p] EXCEPT !.pc = "start",
                      !.sub = IF mirror.active = @ THEN @ ELSE None])
          /\ Moved /\ UNCHANGED lock
     ELSE End(p) /\ UNCHANGED <<daemon, sample>>
  /\ UNCHANGED <<user, mirror, core, history>>

\* A full restart may restore any selection (the Core's own cache), a hot
\* reload keeps them; a failure restores the configuration that was loaded.
Start(p) ==
  LET c == cmd[p] IN
  /\ At(p, "start")
  /\ \/ /\ \E now \in IF c.name = "restart" \/ ~core.up THEN [Groups -> Nodes] ELSE {core.now} :
             core' = [up |-> TRUE, sub |-> c.load, now |-> now]
        /\ Goto(p, IF c.sub = None THEN "finish" ELSE "replay")
        /\ UNCHANGED history
     \/ /\ \E now \in [Groups -> Nodes] : core' = [core EXCEPT !.up = TRUE, !.now = now]
        /\ Set(p, [c EXCEPT !.pc = "finish", !.lost = TRUE])
        /\ Fault
  /\ UNCHANGED <<user, lock, mirror, daemon, sample>>

\* replay_mirror_selection_intent reads the map, then PUTs group by group.
Pinned(file) == {g \in Groups : Content(file)[g] # None}
Replay(p) ==
  LET c == cmd[p] IN
  /\ At(p, "replay")
  /\ Set(p, [c EXCEPT !.pc = IF core.up THEN "replay put" ELSE "finish",
                      !.file = mirror.map[c.sub], !.todo = Pinned(mirror.map[c.sub])])
  /\ UNCHANGED <<user, lock, mirror, core, daemon, sample, history>>

ReplayPut(p) ==
  LET c == cmd[p] IN
  /\ At(p, "replay put")
  /\ IF c.todo = {}
     THEN Goto(p, "finish") /\ UNCHANGED <<core, sample, history>>
     ELSE \E g \in c.todo :
            /\ Moved
            /\ \/ /\ core.up
                  /\ core' = [core EXCEPT !.now[g] = c.file[g]]
                  /\ Set(p, [c EXCEPT !.todo = @ \ {g}]) /\ UNCHANGED history
               \/ /\ Set(p, [c EXCEPT !.todo = @ \ {g}, !.lost = TRUE])
                  /\ IF core.up THEN Fault ELSE UNCHANGED history
                  /\ UNCHANGED core
  /\ UNCHANGED <<user, lock, mirror, daemon>>

Finish(p) ==
  /\ At(p, "finish")
  /\ End(p) /\ Moved
  /\ daemon' = [daemon EXCEPT !.owner = None]
  /\ UNCHANGED <<user, mirror, core, history>>

\* StopCore is not bracketed.
Stop(p) ==
  /\ Begin(p, Idle)
  /\ daemon.up /\ daemon.owner = None
  /\ core' = [core EXCEPT !.up = FALSE]
  /\ UNCHANGED <<user, lock, mirror, daemon, sample>>

\* exit-ip: a group is switched for the time of a probe, without any lock.
\* --node, --group and --url all come down to a group and a node in it; a node
\* that is selected already, DIRECT and REJECT switch nothing.
NeedsSwitch(g, n) == core.now[g] # n
Probe(p, g, n) ==
  /\ core.up /\ NeedsSwitch(g, n)
  /\ Begin(p, [Idle EXCEPT !.pc = "probe", !.name = "probe", !.group = g, !.node = core.now[g]])
  /\ core' = [core EXCEPT !.now[g] = n]
  /\ daemon.up /\ Moved
  /\ UNCHANGED <<user, lock, mirror, daemon>>

ProbeRestore(p) ==
  LET c == cmd[p] IN
  /\ At(p, "probe")
  /\ End(p)
  /\ IF daemon.up /\ core.up
     THEN /\ core' = [core EXCEPT !.now[c.group] = c.node]
          /\ Moved
     ELSE UNCHANGED <<core, sample>>
  /\ UNCHANGED <<user, mirror, daemon, history>>

\* `select`, with a node or with --unpin and a group or --all.
SelectCommand(p) == \/ \E g \in Groups \cup {None} : Unpin(p, g)
                    \/ \E g \in Groups, n \in Nodes : Select(p, g, n)

CommandStep(p) ==
  \/ SelectOpen(p) \/ SelectPut(p) \/ SelectAttest(p) \/ UnpinLock(p) \/ Load(p) \/ Save(p)
  \/ Undo(p) \/ ReadActive(p) \/ RecordActive(p) \/ Push(p) \/ Record(p) \/ Reconcile(p)
  \/ Payload(p) \/ Request(p) \/ Promote(p) \/ Start(p) \/ Replay(p) \/ ReplayPut(p)
  \/ Finish(p) \/ ProbeRestore(p)

(***************************************************************************)
(* The drift sampler.  While a handler is in flight or a segment is open   *)
(* there is no tick; a tick that a handler straddles is thrown away.  The  *)
(* suppression of sampling for some time after a write only delays a tick, *)
(* and is left out.                                                        *)
(***************************************************************************)
InFlight == \E p \in Procs : cmd[p].pc \in InDaemon

SampleBegin ==
  /\ daemon.up /\ sample.pc = "idle"
  /\ ~daemon.segment.open /\ ~InFlight
  /\ sample' = [NoSample EXCEPT !.pc = "fetch"]
  /\ UNCHANGED <<user, lock, mirror, core, daemon, cmd, history>>

SampleFetch ==
  /\ sample.pc = "fetch"
  /\ sample' = IF core.up THEN [sample EXCEPT !.pc = "compare", !.now = core.now] ELSE NoSample
  /\ UNCHANGED <<user, lock, mirror, core, daemon, cmd, history>>

\* compare_selection_drift
Differences(file, now) ==
  {d \in Drifts : /\ Content(file)[d.group] = d.intent
                  /\ now[d.group] = d.runtime /\ d.intent # d.runtime}

SampleCompare ==
  /\ sample.pc = "compare"
  /\ sample' = IF mirror.active = None THEN NoSample
               ELSE [sample EXCEPT !.pc = "publish", !.now = Unpinned,
                                   !.drifts = Differences(mirror.map[mirror.active], sample.now)]
  /\ UNCHANGED <<user, lock, mirror, core, daemon, cmd, history>>

Published == sample.pc = "publish" /\ ~InFlight

SamplePublish ==
  /\ sample.pc = "publish"
  /\ sample' = NoSample
  /\ UNCHANGED <<user, lock, mirror, core, daemon, cmd, history>>

(***************************************************************************)
(* Failures.  A command is killed between two of its steps; the daemon dies*)
(* with the handlers it runs, and the Core with it or not.                 *)
(***************************************************************************)
Kill(p) ==
  /\ ~At(p, "idle") /\ cmd[p].pc \notin InDaemon
  /\ End(p) /\ Fault
  /\ UNCHANGED <<user, mirror, core, daemon, sample>>

Crash ==
  /\ daemon.up /\ Fault
  /\ daemon' = [up |-> FALSE, owner |-> None, segment |-> NoSegment]
  /\ sample' = NoSample
  /\ cmd' = [p \in Procs |-> IF cmd[p].pc \in InDaemon THEN Idle ELSE cmd[p]]
  /\ lock' = IF lock # None /\ cmd'[lock] = Idle THEN None ELSE lock
  /\ \E up \in {core.up, FALSE} : core' = [core EXCEPT !.up = up]
  /\ UNCHANGED <<user, mirror>>

\* startup_replay_admission: the mirror has to be about the loaded configuration.
Admitted ==
  /\ mirror.active # None /\ mirror.bind # None
  /\ mirror.map[mirror.active] # Absent
  /\ mirror.bind = [sub |-> mirror.active, rev |-> Merged(core.sub)]

Restored(now) == [g \in Groups |-> IF Content(mirror.map[mirror.active])[g] = None THEN now[g]
                                  ELSE mirror.map[mirror.active][g]]

\* A Core that survived is taken over, otherwise autostart may start one with
\* the file that was loaded last.
Boot ==
  /\ ~daemon.up
  /\ \E started \in BOOLEAN, now \in [Groups -> Nodes] :
       /\ (~core.up /\ started) \/ now = core.now
       /\ core' = [core EXCEPT !.up = @ \/ started,
                               !.now = IF (core.up \/ started) /\ Admitted THEN Restored(now)
                                       ELSE now]
       /\ daemon' = [daemon EXCEPT !.up = TRUE]
  /\ UNCHANGED <<user, lock, mirror, sample, cmd, history>>

Next ==
  \/ \E p \in Procs :
       \/ SelectCommand(p)
       \/ \E g \in Groups, n \in Nodes : Probe(p, g, n)
       \/ \E s \in Subs : Switch(p, s)
       \/ Restart(p) \/ Stop(p) \/ CommandStep(p) \/ Kill(p)
  \/ SampleBegin \/ SampleFetch \/ SampleCompare \/ SamplePublish
  \/ Crash \/ Boot

Spec == Init /\ [][Next]_vars

(***************************************************************************)
(* Properties                                                              *)
(***************************************************************************)
\* A drift that is published is one: the mirror asks for that node and the
\* Core, if it still runs, uses the other one.  A sample that a selection, a
\* push, a promotion or a replay straddles is never published
\* (drift_sample_once, DriftOpGuard).
DriftIsSimultaneous ==
  Published => \A d \in sample.drifts :
    /\ Content(mirror.map[mirror.active])[d.group] = d.intent
    /\ core.up => core.now[d.group] = d.runtime

\* Commands do not undo each other's entries: a file of selections changes only when a
\* command for that subscription saves it, and then in the groups that this command is
\* about (all of them with --unpin --all); what it does not name is as the last command
\* before it left it (remember_selection_for_scope_locked, unpin_selection_for_scope,
\* unpin_all_selections_for_scope).
NoLostSelection ==
  [][\A s \in Subs : user'.pins[s] # user.pins[s] =>
       \E p \in Procs :
         /\ At(p, "save") /\ cmd[p].sub = s /\ cmd'[p] # cmd[p]
         /\ \A g \in Groups \ About(cmd[p]) :
              Content(user'.pins[s])[g] = Content(user.pins[s])[g]]_vars

\* A restart alone that did not fail leaves every pinned group of the active
\* subscription at its node, whatever the Core's own cache restored
\* (replay_mirror_selection_intent).
RestartRestores ==
  [][\A p \in Procs :
       At(p, "finish") /\ cmd[p].name = "restart" /\ history.alone[p] /\ ~cmd[p].lost /\ core.up
         => \A g \in Pinned(user.pins[user.active]) : core.now[g] = user.pins[user.active][g]]_vars

=============================================================================
