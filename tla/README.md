# A verification project for mihomo-cli

mihomo-cli is a command line client and a root daemon that install, configure and supervise the
Mihomo proxy Core. Much of it is text (YAML editing, service files, menus), and some of it is a client
of an HTTP API. The part that is hard to get right changes several durable things at once, from
several processes, and has to survive being killed in between. This directory models that part in
TLA+, model-checks it with TLC and proves its main promises with TLAPS.

Paths below are relative to the repository's Rust source directory (`src/src/…` in `PROJECT.json`).

## 1. The system

### 1.1 Components

| component | state | operations | must hold |
|---|---|---|---|
| System TUN transaction (`tun_transaction.rs`, `main.rs`) | `transactions/active/`, the generation counter, the user admission gate, `tun-config.yaml`, the user's `config.yaml`; the files of an older version | publish, validate, promote, apply, record, commit, cancel, roll back, clean up, migrate | the user's edits survive; a reported outcome happened; it agrees with files and Core; an open transaction ends |
| Recovery (`main.rs`) | the same, the recovery marker | `maybe_auto_recover_active_transaction`, `plan_recovery`, `execute_recovery_action`, controlled reset | makes progress from every state a crash leaves |
| Daemon transaction handlers (`daemon.rs`) | the Core | validate, apply, quiesce, restore, attest, status | touch no process the journal does not name |
| Daemon Core lifecycle, promotion (`daemon.rs`, `core_identity.rs`) | Core process, PID file, the promoted configuration | start, stop, promote, reload, restore, take over, autostart | one Core; what is reported is what runs |
| Daemon command gate (`daemon.rs`, `ipc.rs`) | `OWNER_LIFECYCLE_LOCK`, the queue before it | admit, refuse, time out | no change behind an open transaction |
| Generation store, pipeline, adoption (`generation.rs`, `main.rs`, `generation_adoption.rs`) | generation directories, three slots, lock, installed files | stage, apply, prove, commit, roll back, withdraw, adopt, migrate, collect | the baseline to return to is never lost; the files end as candidate or baseline |
| Configuration, lock, overlays (`config.rs`, `lock.rs`, `rules.rs`, `groups.rs`, `dns.rs`) | subscriptions and caches, active pointer, overlays, `config.yaml` | add, switch, refresh, remove, import, edit, restore, fix | all or none of a change; the generated file is loadable |
| Selections (`selection.rs`, `daemon.rs`, `main.rs`) | the user's selection files, the daemon's mirror, drift samples | select, unpin, push, reconcile, replay, sample | the user's choice survives; drift is real |
| Installer, instances, services (`installer.rs`, `instance.rs`, `service.rs`, `backup.rs`) | binaries, units, part files, settings | install, update, start, stop, uninstall, download, resolve the mode | the two modes exclude each other; an interrupted command can be repeated |
| cache.db hygiene (`utils.rs`, `main.rs`, `daemon.rs`) | the Core's database, its copies, owners and modes | judge, repair, copy, move aside, evict | evidence is kept before the Core removes it |
| API client, status, probes, command line, menus | none | read, print | — |

### 1.2 How they interact

A `mihomo-cli` process runs with the user's rights plus, for system mode, root rights; several may run
at once. Processes share **files** under separate locks (`CoordinatorLock` for the transaction directory,
`ConfigLock` for the configuration, the selection lock, the generation lock) and send **commands** to the
daemon, which runs lifecycle commands one at a time under `OWNER_LIFECYCLE_LOCK` and rereads the journal
before it acts. Locks are released between the steps of a command, so what matters happens *between*
critical sections. A TUN switch goes

    capture intent + publish (Prepared, gate) → ValidatePreparedRuntime → PromotionPending
      → write tun-config.yaml → SnapshotPromoted → ApplyPromotedSnapshot → record pid, CoreApplied
      → compare-and-commit config.yaml → attest → IntentCommitted → remove gate → archive

and on an error after the promotion RollbackPending → quiesce → restore snapshot → restore Core →
RolledBack. Every command first recovers whatever transaction it finds. A configuration command goes
lock → pre-images → files one by one → regenerate → validate (or restore) → unlock → reconcile → promote.
An upgrade goes stage (baseline + candidate) → quiesce → replace file by file → start → prove → commit, or
back to the baseline behind a tombstone.

### 1.3 What is hard here

* a process dies between any two steps, and another one continues from the files alone;
* a command reads, waits (for a download, a lock, the user, the daemon) and acts on what it read;
* the user edits files with an editor that takes no lock; several commands run at once;
* the daemon restarts, the Core exits, comes up without TUN, or does not come up; a client stops waiting
  while the daemon goes on;
* pushes to the daemon are best effort; mirrors answer with anything; a part file does not say what it
  is a part of;
* evidence that a rollback or a repair needs is missing, or describes something else by now.

`PROJECT.json` lists these under `hazards`, each at the line where it bites.

## 2. Modules

| module | about | states of the code it stands for |
|---|---|---|
| `TunJournal` | the journal, the phase graph, classifications, `plan_recovery` | pure functions |
| `TunTransaction` | CLIs, daemon, files, environment of a TUN transaction and its recovery | `journal`, `gate`, `generation`, `snapshot`, `activeCfg`, `intent`, `core`; of each CLI `pc`, `op`, `role`, and the values it carries (`held`, `seen`) |
| `TunSwitch` | abstract: what a switch promises; implemented by `TunTransaction` | one record |
| `RecoveryMarker` | the marker's file protocol, one file operation a step | the marker file, the next operation of each process |
| `LegacyMigration` | extends `RecoveryMarker`: the journal of an older version behind the marker | the old files, the migrated journal, `recovery-target.yaml`, snapshot, intent, Core, daemon |
| `GenerationStore`, `GenerationUpgrade` | the store, and every command that works on it | slots, directories with their marks, lock, installed files, what runs, each process's job |
| `UpgradeContract` | abstract: settled, staged or revoked; implemented by `GenerationUpgrade` | scene, base, target |
| `UserConfig` | commands on the configuration directory as lock, plan, write, merge, validate, undo, apply | each file, the lock file, `LOCK_DEPTH`, the process's remaining writes and pre-images, what was promoted |
| `GroupOverlay` | the overlay of proxy groups, strict and tolerant merge, rules | overlay and cache per subscription, `config.yaml`, the file as read in the first critical section |
| `CoreLifecycle` | the daemon, the Core processes, start, stop, promotion, rollback, take-over | `DaemonState`, PID file, target file, processes by id, the command in progress |
| `SelectionMirror` | selection files, pushes, reconciliation, replay, sampler | user tree, mirror, Core, drift tracker, each command |
| `InstanceModes` | the two installations of a Linux host | units, enablement, running services, binaries and backup, configuration, leftovers, preference |
| `Downloads` | the Core's archive in a shared part file, the geo databases in private ones | files as sequences of chunks with the release they came from |
| `CacheDb` | judgement, repair, copies and gate of `cache.db`, the queue of the daemon | the database by kind and content, owners and modes, copies by name, clock, queue |
| `DownloadPromises`, `EvidencePromises` | what `Downloads` and `CacheDb` promise, over the variables these promises are about | `past`; `file`, `artifacts`, `job`, `hist` |
| `TunTransactionProofs`, `RecoveryProofs` (of `RecoveryMarker` and `LegacyMigration`), `InstanceModesProofs` (and of `Downloads`), `CoreLifecycleProofs` (and of `CacheDb`), `GenerationUpgradeProofs`, `UserConfigProofs`, `SelectionMirrorProofs`, `GroupOverlayProofs` | theorems of section 4 | — |
| `MC…` | instances: symmetry, command sets, initial states, restricted specifications | — |

The last two components have their theorems beside those of the component they serve: the downloads are part of an
installation, the gate of `cache.db` is part of a start. Such a proof module has both states side by side, the
second through `D == INSTANCE Downloads` and `C == INSTANCE CacheDb WITH core <- cacheCore`. The promises are modules
of their own so that the component and the proof module both extend them, and a theorem names the very definition
that the run checks.

A comment that starts with *Mutant* or *Defect* marks a definition that is not part of the model: the
plausible wrong version of a definition, which `PROJECT.json` pairs with the property that fails when it
is substituted. Every property of every passing run has one.

How to read the correspondence: `map` in `PROJECT.json` gives the lines of each definition. One action is one
critical section, one unlocked file access, or one command of the daemon. Error returns are actions or
disjuncts of their own (`Fail`, `End`, `StepFails`, `GeoFailed`, …), a killed process is `Crash`, `Kill` or
`Die`, and everything that bounds a behaviour (`MaxFaults`, `MaxCommands`, …) is a constant in a guard.

### 2.1 Abstractions, module by module

* **TunTransaction.** A configuration is a counter of the user's edits and the `tun.enable` key; a SHA-256
  revision is the configuration itself. A daemon command is atomic, because the daemon runs them under one
  lock and rereads the journal inside; a daemon that dies half way is `StartsWrong` and an error to the CLI.
  The recovery marker is an ideal lock here. The system configuration exists.
* **LegacyMigration.** A configuration is one of three contents. A command of the daemon is one step, and a
  request of a CLI that died does not arrive later. Process ids that something names are not reused; links in
  place of files are not modelled. In the run three processes work over the marker, of which one survives.
* **GenerationStore, GenerationUpgrade.** The geo files are artifacts like the Core and are folded into it;
  ids grow with the clock; the copy of a migration is private until one rename, hence one step. `KeepLimit`
  is 2 in the code and 0 in the run, so that collection happens. Without a `config.yaml` only the daemon is started
  and proved, and this happens at every start, proof and rollback. `DirectInstall` and `Upgrade` write without
  the lock and are counted as `outside`, which the contract excludes. The refusal of an open TUN transaction
  is not composed.
* **UserConfig.** Contents of files are valid or not; DNS policies, the fake-ip filter, the DNS template, rules,
  groups and override share one overlay file, since they differ only in the order of write and checks. The
  lock nests one level deep, as the code does. A failed validation puts the old `config.yaml` back, which may fail
  itself. The menu's delete is `RemoveCommands`; its switch and refresh do
  not apply the result. `rule position` writes without the lock and is left out.
* **GroupOverlay.** Members are sets; prepend and append are one function; override and DNS are left out, and so
  are the removal of subscriptions and the unpinning after a delete (in `SelectionMirror`). A logical rule is its
  target. A Core that refuses the file means everything is restored, hence no step, and upstream's own groups are
  ones the Core loads. A rules file that cannot be read is one without rules (main.rs:16542, config.rs:3178), to which
  `RuleReplace` can set it; that one read fails and the next succeeds is not modelled.
* **CoreLifecycle.** Whether the target is a TUN snapshot is fixed in a behaviour. The stop of an orphan is one
  step. A service manager may kill the Core with the daemon, or not: both happen. Unix only.
* **SelectionMirror.** A failing push is both attempts lost; the suppression window is left out (it only delays a
  sample); a sample that an operation straddles is dropped at once. The Core's own cache may restore any node.
  `select --unpin --all` clears the pins of the active subscription (selection.rs:275-289), and those of no other.
  A user-mode Core, which the command replays itself, and the open-transaction check of a boot are left out.
* **InstanceModes.** Linux. A binary is none, torn or good, for all the files of a mode. Plans of users and
  permissions are the success or failure of the activation. systemd is external. Not modelled: the legacy root
  unit, `--skip-config`, the port check of a user start, the abort preflight of `tun`. A user installation run
  through sudo removes a valid binary before it downloads (installer.rs:701-703), one that is not keeps it.
* **Downloads.** A file is the sequence of its chunks. System installs stage in a directory of their own, so the
  shared part file is the user's. The Core's version is part of its URL. Core and geo behaviours are separate.
* **CacheDb.** The commands are root's (without, they run themselves again under sudo). Zero length is the same
  as missing. Contents of sound databases are not told apart. Every managed asset but `cache.db` is one. `Keep` is
  3 in the code and 1 in the run. The modes of local configuration files are left out. A copy that could not be written
  to its end stays under its staged name, but in the last second of the run's clock, where it would block copies for ever.

## 3. Runs

| run | instance | checks | shows |
|---|---|---|---|
| `transaction` | one CLI, every command, 1 edit, 2 transactions, 2 faults, `FairSpec` | `NoLostEdit`, `CommittedLanded`, `RolledBackRestoresSnapshot`, `GateOwned`, `TerminalMatchesRuntime`, `CommandsEnd`, `SwitchEnds` | whatever two crashes, failed starts, Core exits or lost files happen at any step, journal, files, gate and Core agree; commands end; without faults, and with a Core started from the snapshot, switches end |
| `switch` | two CLIs, every command, 1 transaction, 1 edit or 1 fault | `ImplementsSwitch`, `ResetBehindStop` | processes that recover each other's transactions implement `TunSwitch`; no Core runs while one of them resets a transaction |
| `killed_command` | one CLI, one kill, a user who keeps trying `restart --yes` and `stop` | `TransactionEnds`, violated | section 5 |
| `legacy` | three processes, two of them at work at a time; 2 faults, 1 edit, 1 command besides `restart --yes`, together at most 2 if the third takes part | `ExclusiveWhileAllLive`, `ResetUnderGate`, `LegacyEnds` | recovery is exclusive until a death; a reset never works under a live Core until two live recoveries have met behind the marker; `restart --yes` ends what an older version left |
| `generations` | two processes, 2 contents, 4 generations, 1 fault, 1 change outside the protocol; both only in the first upgrade | `BaselineKept`, `ImplementsContract` | no command, crash or collection loses the baseline; the files follow `UpgradeContract` |
| `config` | two processes, 3 ids, 2 URLs, 3 commands, 1 fault of each kind | `LockHonest`, `ActiveUsable`, `RestoredOnFailure`, `NoResurrection` | the reentrant lock is sound; the active pointer is usable after any crash; a failed command leaves no trace; a stale refresh revives nothing |
| `groups` | 2 subscriptions, 3 group commands, 2 changes upstream or switches, 1 rule command, 1 fault | `GroupsSound`, `IncrementsKept`, `NoReroute`, `AcceptedTakesEffect` | what is generated loads and leaks no relay; edits that upstream still allows are kept; no rule loses its target; an accepted edit is in the result |
| `lifecycle` | 3 process ids, 2 revisions, 2 commands, 2 faults | `OneCore`, `LaunchedHonest`, `RolledBackRestores`, `NoSilentTunLoss`, `StrangersSafe`, `LifecycleEnds` | daemon, PID file and processes agree; no stranger is signalled; TUN is not lost silently; commands end |
| `selection` | 2 processes, subscriptions, groups and nodes, 3 commands, 1 fault | `DriftIsSimultaneous`, `NoLostSelection`, `RestartRestores` | a published drift is one; commands do not undo each other; a restart makes up for lost pushes and restores every pin |
| `instances` | 2 processes, 3 commands, 2 faults | `OneRuntime`, `NoOrphan`, `InstallRuns` | no sequence of commands, failures and reboots gets both services running; no service runs without a unit; a reported installation runs |
| `downloads` | 2 processes, 2 URLs, 2 attempts, 3 commands, 2 faults | `Heals`, `InstalledIsAsked`, `DownloadEnds` | a bad part file costs one command at most; the version asked for is installed; downloads end |
| `cache` | 2 processes, 2 faults, 2 seconds, new or old daemon | `NewestKept`, `EvidenceFirst`, `CoreReturns` | what the Core would remove has been kept; the newest copies survive; the Core comes back |

**Bounds.** Two processes are the least that interleave, and three commands the least for one to act on what a
second changed after a first; where two transactions or generations can be confused, there are at least two.
Faults: one reaches every failure, two one that strikes the repair of the other (where the space allowed two).
`MaxGens = 4` is two upgrades with their baselines; a fault and a change outside the protocol
together happen only in the first one (`DisturbedSpec`). `Pids`, `Cores` and `Ids` are large enough for a fresh id
whenever one is needed. `RetiredLimit = 1`, `KeepLimit = 0` and `Keep = 1` are smaller than in the code so that
eviction happens within the bounds. The two CLIs of `switch` have one edit or one fault between them
(`ContendedSpec`); the proofs of the same two properties have no such bound. `RolledBackRestoresSnapshot`, `GateOwned`
and `TerminalMatchesRuntime` are checked for one CLI, since two can violate them by the races of section 5; their
theorems have the same hypothesis, but no bound on edits, transactions, faults or pids (and `GateOwned` holds of many
CLIs if none resets). In `legacy` the third process is what makes a double reclaim matter: when the holder of the
marker dies, two others can both take it over. `MCLegacyMigration` lets it take part when faults, edits and commands
are at most two together, and otherwise is the instance with two processes. Deadlock is off where the commands of
an instance are used up; it is checked in `transaction`, `switch`, `generations` and `legacy`, where something
can always be done.

**Fairness.** Weak fairness of a running command's (or daemon's) next step, everywhere: between two of its
steps there is straight-line code, file access, and calls with a timeout. Otherwise:

* `CoreLifecycle`: a Core that was told to exit, and a stranger, exit at some time (a stranger has to, or the
  few ids of the instance would be used up).
* `LegacyMigration`: `restart --yes`, which is what the program tells users to do, goes on being run.
* `CacheDb`: time passes; the process `Again` tries `restart --yes` while no Core runs and everything else is over.
* `KillsSpec`, for the violated run only: strong fairness of the user's attempts at `restart --yes` and `stop`
  while the transaction is open. It makes the finding stronger: persistence does not help.

No other fairness is assumed: the user need not invoke a command, and faults need not happen.

**What the properties leave out** is named in each comment. `SwitchEnds`: other commands and Cores started from
`active-config.yaml`. `LegacyEnds`: a journal whose candidate is gone (`Headless`) and a marker never completed
(`Wedged`). `OneRuntime`, `NoOrphan`: commands that met in `hist.clash`. `InstalledIsAsked`: part files that a kill
or a concurrent command left (`past.left`). `EvidenceFirst`, `NewestKept`: copies whose names are out of order
(`hist.disordered`). `OneCore`: a Core whose daemon died before recording it, and one that was recorded before it
served because such a lost Core answered in its place. `ImplementsContract`: changes outside the protocol.
`ResetBehindStop`: a transaction that another live command still drives, or that had ended before the Core was stopped
(`past.sole`). `ResetUnderGate`: what follows after two live recoveries met behind the marker (`past.met`). `GateOwned`
admits a gate without a transaction if its removal failed (`past.stuck`), and no other. Each of these is a behaviour of
the code, listed in section 5.

## 4. Proofs

Eight modules hold theorems. Each states what a run checks, for every value of the constants that the
assumptions allow: any number of processes, identifiers, commands, transactions, generations and faults.

| module | theorem | statement |
|---|---|---|
| `TunTransactionProofs` | `TypeCorrect` | `Spec => []TypeOK` |
| | `EditsKept` | `Spec => []NoLostEdit`: the intent file always has the user's last edit |
| | `CommitsLanded` | `Spec => []CommittedLanded`: nothing is reported committed that did not land |
| | `SwitchImplemented` | `Spec => ImplementsSwitch`: refinement of `TunSwitch` |
| | `SnapshotIsRestored` | `OneCli => (Spec => []RolledBackRestoresSnapshot)` |
| | `ResetsAreSafe` | `Spec => []ResetBehindStop` |
| | `OutcomesMatchRuntime` | `OneCli => (Spec => TerminalMatchesRuntime)` |
| | `GateIsOwned` | `OneCli \/ NoResets => (Spec => []GateOwned)` |
| `RecoveryProofs` | `MarkerTyped`, `MarkerExcludes` | of the marker alone: `Spec => []TypeOK`, `Spec => []ExclusiveWhileAllLive` |
| | `LegacyTypeCorrect`, `RecoveriesExclude` | with the commands behind it: `LegacySpec => []LegacyTypeOK`, `LegacySpec => []ExclusiveWhileAllLive` |
| | `ResetsAreGuarded` | `LegacySpec => []ResetUnderGate` |
| | `RecoveriesMeetLate` | `LegacySpec => [](Watched => ~past.met)` |
| `InstanceModesProofs` | `ModesTypeCorrect`, `ModesExclude`, `NoOrphans`, `InstallationsRun` | `TypeOK`, `OneRuntime`, `NoOrphan`; the action property `InstallRuns` |
| | `DownloadsTyped`, `DownloadsHeal`, `DownloadsInstallAsked` | of `Downloads`: `TypeOK`, `Heals`, `InstalledIsAsked` |
| `CoreLifecycleProofs` | `LifecycleTypeCorrect`, `OneCoreRuns`, `LaunchedRevision` | `TypeOK`, `OneCore`, `LaunchedHonest` |
| | `StrangersAreSafe`, `RollbacksRestore`, `TunLossIsTold` | the action properties `StrangersSafe`, `RolledBackRestores`, `NoSilentTunLoss` |
| | `CacheTyped`, `CacheKeepsNewest`, `CacheEvidence` | of `CacheDb`: `TypeOK`, `NewestKept`; the action property `EvidenceFirst` |
| `GenerationUpgradeProofs` | `UpgradeTypeCorrect`, `BaselinesAreKept` | `TypeOK`, `BaselineKept` |
| | `UpgradeImplemented` | `Spec => ImplementsContract`: refinement of `UpgradeContract` |
| `UserConfigProofs` | `LockIsHonest`, `PointerStaysUsable`, `FailureRestores` | `LockHonest`, `ActiveUsable`, `RestoredOnFailure` |
| | `RemovedStaysRemoved` | the action property `NoResurrection` |
| | `ConfigTypeCorrect` | `RegisteredRanked => (Spec => []TypeOK)` |
| `SelectionMirrorProofs` | `SelectionTypeCorrect`, `DriftsAreReal` | `TypeOK`, `DriftIsSimultaneous` |
| | `SelectionsAreKept`, `RestartsRestore` | the action properties `NoLostSelection`, `RestartRestores` |
| `GroupOverlayProofs` | `GroupsTypeCorrect`, `GroupsAreSound`, `IncrementsAreKept` | `TypeOK`, `GroupsSound`, `IncrementsKept` |
| | `RulesKeepTargets`, `AcceptedEditsTakeEffect` | the action properties `NoReroute`, `AcceptedTakesEffect` |

**Assumptions.** Those the modules state, and nothing else: bounds are natural numbers, pids positive; null values
differ from what they stand beside (`NullsAssumption`, `CoreAssumption`, `NoneAssumption`, `NoMarkerAssumption`,
`UpgradeAssumption`, `IdsAssumption`, `GenAssumption`); the names of the configuration's files are no identifiers
of subscriptions and there are finitely many of these (`IdsAssumption`); registered subscriptions have different
URLs, as `add` sees to (`RegisteredAssumption`); there is room for the two generations a first upgrade stages
(`UpgradeAssumption`); commands are commands the program has (`OpsAssumption`); a new Core finds an identifier that
nothing names (`IdsAssumption` of `LegacyMigration`); groups, proxies, providers and built-in policies have different
names (`NamesAssumption`), and what a subscription's own groups hold is known, acyclic and leaks no relay
(`ContentsAssumption`, `LoadableAssumption`: the code leaves these groups alone without an overlay and restores the old
file if the Core refuses the new one). TLC evaluates each of them. What `Downloads` and `CacheDb` assume of their
constants is restated as the hypothesis of their theorems (`DownloadsConstants`, `CacheConstants`), since an instance
brings no assumption of its own: the shared part file is not named like a process, there is a URL and an attempt; at
least one copy is kept, the process that tries again is a process, the clock's bound is a natural number.

`OneCli` (`\A c, d \in CLIs : c = d`) is a hypothesis of `SnapshotIsRestored`, `OutcomesMatchRuntime` and (or
that nobody resets) of `GateIsOwned`, because these properties fail for two commands at once: a promotion without a lock
overwrites a restored snapshot, and a reset can archive the journal of a live transaction (section 5).
`GateOwned` needs only that no command is a controlled reset. The hypothesis bounds neither how many commands follow each other, nor crashes, edits, faults or pids.

`RegisteredRanked` (the directory starts with at most `RetiredLimit` tombstones, of different times) is a hypothesis of
`ConfigTypeCorrect` because the code trims the list only when it adds to it: what a directory starts with beyond the
limit stays until the next removal. The other theorems about `UserConfig` do without it.

`ResetUnderGate` holds until two live recoveries have met behind the marker (`past.met`); after that it does not: one of
them applies the recovery target, which starts a Core, between the other's removal of the gate and of the journal
(section 5). `RecoveriesMeetLate` says when they can meet at all: not while nobody has died, and never with two processes
(`Watched`); it takes a dead one and two that take over its marker.

**The inductive invariants.** No property above is inductive. What each needs besides:

* `TunTransactionProofs`: `Typed` and `History`. A step writes into the journal or the snapshot what a CLI carries,
  so `Carries` says at which steps `held` is a journal and `seen` an observation. `Commit` writes the candidate of a
  *carried* journal, and `AdvancePhase` marks the current one committed on the strength of what happened some steps
  earlier; `History` links them: the active journal's candidate is its base with the TUN key changed, carries no
  newer edit than the user's last, and has landed if it is the intent or recorded as committed (`JournalHistory`);
  a carried journal was published, and agrees with the active one on base and candidate if of the same generation
  (`HeldHistory`); a CLI about to write the intent carries an open journal, and one about to attest or to record
  the commit finds it landed (`CommitHistory`). `QuietStep` handles the many actions that leave journal and intent
  alone. The refinement maps `journal` to an open, committed or rolled back switch: reaching `IntentCommitted` is
  `Commit` (needs `History`), reaching `RolledBack` is `RollBack`, the write of the intent is `Land` or a stutter,
  `Publish` is `Begin`, and whatever removes the journal is `Forget`.
  For the outcomes, on top of these, `Solo`: a command past its publication carries the active journal
  (`Follows`), the old snapshot is in place from the restoration on (`Restores`), an observation of the Core still
  holds at the step that relies on it (`Knows`), and in `CoreApplied` no Core but the candidate's runs
  (`AppliedRuns`). For many CLIs without resets, `Gated`: a gate that is absent or foreign belongs to a CLI that is
  about to publish or to clean up, or is stuck. For resets among many CLIs, `Marked /\ Unrivalled`: a command that resets
  holds the marker, and while its transaction was open and driven by no other at the stop proof nobody comes to drive it.
* `RecoveryProofs`: `Held`. While all live nobody reclaims, and whoever has created the marker and not released
  it is the holder the file names; so `create_new`, which needs an absent file, admits nobody else. With the commands
  behind it, `Typed /\ Held /\ Sync /\ Apart /\ Guarded /\ Unmet`: a command past its begin is
  where the marker's protocol lets it be (`Sync`), and a process between the removal of the gate and of the journal has the transaction open and no Core
  running (`Windowed`): the daemon starts none behind an open journal (`Outside`), and until two live ones
  have met no other recovery is at work (`Apart`).
* `InstanceModesProofs`: `Typed /\ Sided /\ CoreOwned /\ Owned /\ OfUser`. Whoever installs or starts a mode has seen
  the other one absent, and nobody brings it back meanwhile unless the two met in `hist.clash` (`Sided`); whoever
  removes a mode has stopped and disabled its service before the unit goes (`Owned`); the system's Core runs
  under the system's daemon (`CoreOwned`).
* `CoreLifecycleProofs`: `Typed /\ Staged /\ Held /\ Alone /\ Truthful`. What a command has done by the step it is at
  (`Staged`), what the daemon's record and the PID file say of the Core they name (`Held`), that a Core which can be
  counted is the one tracked or just spawned (`Alone`), and that the revision of such a Core is the recorded one
  (`Truthful`).
* `Downloads` (in `InstanceModesProofs`): `DlInv`. A behaviour downloads geo databases or Cores, and the one does
  nothing to the other (`GeoSide`, `CoreSide`). At most one command that has been alone since its beginning is at work
  (`OneAlone`). As long as no kill or concurrent download left a whole archive (`past.left`), a whole release in the
  part file is on somebody's way (`Attended`), and what a command that was alone has in the file, in memory and still
  to write decodes to its own version or to nothing (`OwnRelease`): this gives `InstalledIsAsked`. A command that was
  alone and failed has removed the file (`Cleared`); after one such failure the next one finds nothing and, served
  well, has at each step the first part of its own release (`Course`), so that it cannot fail in turn: this is `Heals`.
* `CacheDb` (in `CoreLifecycleProofs`): `CbInv`. A command that has judged nothing has seen nothing (`AllUnjudged`). Until a
  name is published behind a later one (`hist.disordered`), the last names ascend and are there, every other name is
  older, and none is of a second to come (`Lined`); a chosen name comes after all those published by then (`AllDue`). So
  eviction, which takes the oldest, keeps the last `Keep`: a copy that was removed has `Keep` newer ones, which would have
  to stand behind it among the last `Keep` (`PrunedKeepsLast`, by the sizes of two sets). The number is the maximum of those
  in use plus one, which needs that a finite set of numbers has a maximum (`MaximumExists`). For the evidence, `GateSide`:
  what the gate has seen is no broken database by the spawn. Without the gate, what a command has seen and staged is
  followed through three places: staged copies have names that nobody has, each of another second (`StagedApart`); a
  database that is held is held by the last copy published, and whatever else is still staged will be out of order
  (`Holding`); and what was seen and is being told to the daemon is held (`Chained`).
* `GenerationUpgradeProofs`: `TypeOK /\ Locking /\ Before /\ Fresh /\ Sound /\ Working`. Who is inside holds the lock,
  and only he; before the migration the store is empty; no directory has a future id; a directory that a process is
  filling is named by no slot; what a process carries (`Works`) agrees with the slots. The refinement also needs
  `Covered`: while no writer went past the lock, what a process has observed of the files still holds, so that the
  abstract target follows from the slots and the step.
* `UserConfigProofs`: `Shaped /\ Locking /\ Asked /\ Kept /\ Free /\ Pointer`, and for each process `Safe /\ Holds`. The
  depth of the reentrant lock is what the step implies (`Locking`); a free lock means the files are those of the last
  complete hold (`Free`); inside a hold the files are that state with a prefix of the plan applied, and the
  pre-images not yet undone restore it (`Planned`, `Touched`, `Done`, `Pending`). `config --fix` writes
  without the lock: `Stable` excludes the one file it may change.
  The types need `Types` besides: each file holds what belongs in it whatever the others hold (`FileOK`), so that any
  prefix of writes or of undoing is typed, and a command past its plan carries typed contents and pre-images. That at
  most `RetiredLimit` tombstones are left needs their times to be different (`Ranked`, `RetiredAfterRanked`).
* `SelectionMirrorProofs`: `Typed /\ Served /\ Locked /\ Sampled /\ Alone`. `Carries` again; handlers end with the daemon
  (`Served`); an edit holds the selection lock and what it loaded is current (`Locked`); a sample in progress is of
  this moment and none is taken while a handler is between its brackets (`Sampled`); and of a restart alone, what
  mirror and Core have by each of its steps (`Restores`): no subscription but those still to be pushed has drifted
  from its file, and every group not still to be put is at its node.

* `GroupOverlayProofs`: `Typed /\ Made /\ Current`. `config.yaml` was generated from some overlay, file and rules that
  merge (`Made`), and from those there are now unless something failed (`Current`); every step that changes one of them
  ends in `Finish`, so `FinishKeeps` is proved once. `Typed` says that no patch removes what it adds, which `Adding` and
  `Removing` see to. The lemmas about the merge do the rest: `DraftedGroups` and `ToleratedGroups` say what each mode
  makes of a group, `StrictIsDrafted` that a strict merge has nothing to tolerate, and for each command one says
  what overlay it saves and that no rule's group is missing from it.

TLC checked each of these as an invariant of its run's instance (all but `Made`, which quantifies over every
overlay). In each module a step lemma has one step per action; actions that leave a part of the invariant alone are
handled together by a frame lemma.

**Only model-checked**, and why:

* Liveness: `CommandsEnd`, `SwitchEnds`, `LegacyEnds`, `LifecycleEnds`, `DownloadEnds`, `CoreReturns`. TLAPS has no
  reasoning about ENABLED, which fairness needs.

Every safety invariant, action property and refinement that a passing run checks is proved.

## 5. Where the code disagrees with itself

One disagreement is a run that fails on purpose:

* **`killed_command`**: a `tun on` killed after the daemon started the candidate and before CoreApplied was
  recorded stays in SnapshotPromoted. Recovery wants to commit, which the phase graph forbids from there
  (tun_transaction.rs:1062), and neither `restart --yes` nor `stop` ends it while the Core runs. If the Core goes
  away once the intent is written, `stop` rolls the runtime back under an intent that keeps the candidate.

The others were met while modelling. The models contain them, since they are what the code does; the properties
name them as exceptions.

**TUN transaction and recovery**

* For a transaction still in Prepared the planner asks for the repair to SnapshotPromoted, which the phase graph
  forbids (tun_transaction.rs:1975): `restart` fails every time.
* `promote_snapshot` checks and writes without a lock (tun_transaction.rs:1424) and can overwrite the TUN snapshot
  for a transaction that a concurrent `stop` is rolling back.
* `terminal_cleanup` ignores that the removal of the gate failed (tun_transaction.rs:1852, 1631) and archives the journal.
  The gate then names nothing, refuses every later transaction, and no command removes it.
* A controlled reset relies on the active journal to keep the daemon from starting a Core; the process whose live
  transaction is being reset can archive that journal inside the window (main.rs:7471).
* The evidence always names the TUN snapshot as launch source (main.rs:7988), also for a Core started from
  `active-config.yaml`: the restoration of the old runtime is then refused for ever.
* Two processes that found the same dead holder both reclaim the marker (tun_transaction.rs:2408), and the reset of one
  may then remove the journal under a Core that the other's recovery started; one that dies
  between creating and completing it leaves a marker nobody reclaims (2425), and every later recovery is refused.
* Older versions' journals: a migrated journal names no candidate process, so `ApplyLegacyRecoveryTarget` refuses
  while any Core runs that is not the recorded target; a kill between the daemon's start of the target and
  `record_recovery_runtime` makes every `stop` refuse until `restart --yes`; an intent edited after a failed attempt is
  "already fenced to another value" until a reset; a journal whose candidate is gone is migrated by nothing
  (tun_transaction.rs:2235) while the gate still refuses configuration commands (1730); a crash in the cleanup after
  archiving migrates the same transaction again.

**Daemon, Core, selections**

* The stop of an orphan Core drops the result of observing its exit (daemon.rs:6712) and goes on to issue a stopped
  proof, although "Only a stable kernel-handle observation of the exit counts" (daemon.rs:6697-6698).
* A Core whose daemon died between spawning it and writing the PID file can never be taken over (daemon.rs:3425).
* While such a Core serves, the next start takes its answer for that of the Core it just spawned and records that one
  before it serves. If the first Core then exits and the daemon restarts, the recorded one does not answer yet, is not
  taken over, and another is started beside it.
* A promotion is read under the configuration lock and sent after its release: a late one can replace a newer
  (main.rs:13924, against 13969-13970).
* The pushes at a restart go in directory order (main.rs:13748), so the mirror's binding may be left for another
  subscription than the active one, and the next boot refuses the replay (daemon.rs:1926).
* `exit-ip` restores the node it saw, undoing a selection made meanwhile.

**Generations**

* `rollback_to_baseline` never records the withdrawal that `finish_withdrawn_compensation` asks for: after a crash
  between tombstone and slot (main.rs:6974), which the comment calls "nearly complete" (main.rs:7010-7011), no run
  finishes the rollback or stages again.
* `update` of the system Core writes outside the generation lock.

**Configuration and groups**

* An override is saved before the Core binary is resolved (main.rs:18622), a group overlay too (16908): an error of
  that leaves the edit in place. `override.yaml` is not among the files of a backup.
* `config --fix` writes what it read before it had the lock (main.rs:13612, config.rs:1726).
* The menu's addition leaves a subscription active whose merge was rejected (main.rs:14666, 14855), against
  CHANGELOG.md:284.
* A relay whose member group fell back to DIRECT goes direct; a `group remove` reports success although upstream has
  come to list what the patch had added; `group add` on a hidden native group has no effect; a group command that
  worked on a subscription no longer active reports success for an unchanged file.
* After a refresh that empties two edited groups, no single group command passes the strict merge; a refreshed
  inactive subscription that clashes with a custom group can neither be activated nor its overlay edited; a provider
  that upstream drops and the overlay uses makes every regeneration fail.
* `group delete` of a native group sends the subscription's own rules for it to DIRECT.

**Installation**

* Leftovers of the old root layout make `Presence` empty, so the check for the other mode misses it, and two
  installations at once both pass it: after a reboot both services run, against "v3 uses mutually exclusive modes".
* `tun on` with the user's Core running never offers the switch (main.rs:1009 comes before 1026); the switch removes
  the user service before it installs the system one, and a failure leaves neither.
* An interrupted `uninstall --system` or `--user` cannot be rerun once the unit is gone (`uninstall --all` works); a
  torn unit counts as present; "atomically" (service.rs:81) is a truncating write (service.rs:1389).
* `update` prints "Original binary restored" for the system binary though nothing is restored; a killed update
  followed by another overwrites the good backup.
* docs/user-guide/subscription.md:102 says a fresh installation does not start at boot: the user installation runs
  `enable --now`, and the system's autostart marker survives every uninstallation.
* `install --user --force` with a valid binary does not download again (installer.rs:704-706), unless it runs through
  sudo (701-703): then the valid binary is removed before the download, and a failed download leaves none.

**Downloads and cache.db**

* The part file does not say which version it is of. A whole archive left by a kill and resumed for a larger version
  installs the old version under the new one's name, since `GzDecoder` ignores what follows the first member.
* Two user downloads at once share the part file and can make each other fail until the attempts run out.
* When one geo database fails, the other is installed unvalidated, a served error page too.
* A re-release during a download mixes two releases: nothing like an ETag is compared.
* The daemon chooses the number of a copy before it renames; enough copies by others in the same second make it
  take an evicted number, and its copy is pruned at once. A clock that steps back has every new copy evicted. A
  staged copy left by a kill makes copies fail for the rest of that second.
* With a daemon that has no gate, an unsafe database whose copy failed is lost with the start.
* Ownership is repaired (main.rs:9519) before the confirmation the comment promises "for every privilege-taking
  repair" (main.rs:9512) and before the copy of main.rs:9527-9557.
* A link in place of `cache.db` makes `restart` and `start` fail before they reach the gate that would move it aside.

## 6. Not modelled, and why

* Text conversions (YAML, subscription formats, service files, menus, the merge of TUN keys), HTTP, and formatting of
  status, `doctor`, `list` and `show`: no state of their own, nothing for a model checker to explore.
* macOS and Windows services, the legacy root unit, `--skip-config`, user and permission commands.
* Helpers that open, create and remove files without following links: file-system plumbing.
* Values of `RecoveryAction` that the planner never produces, peer checks, framing of the IPC.
* `rule position`; the daemon's own `download_geo_file`; the replay a user-mode command does itself.
* Compositions: the open TUN transaction with adoption, with the records of the mirror, and with the pending
  generation of a restart are refusals at entry and are taken as outcomes.

## 7. Plan

| order | what | question |
|---|---|---|
| done | the modules of section 2, the runs of section 3, the theorems of section 4 | |
| 1 | user-mode replay; the composition of `SelectionMirror` with `CoreLifecycle` | pins after a rollback |
