-------------------------- MODULE LegacyMigration ---------------------------
(***************************************************************************)
(* The TUN transaction an older version left behind: a journal and a       *)
(* candidate beside the snapshot.  A recovery, behind the recovery marker, *)
(* migrates them to a transaction of this version in RecoveryRequired and  *)
(* then finalises it, converges it to the user's intent, or, for a         *)
(* `restart` the user confirmed, stops the Core and resets what is left.   *)
(*                                                                         *)
(* A configuration file is one of a few contents.  A command of the daemon *)
(* is one step; the command that sent it may be killed before it answers.  *)
(***************************************************************************)
EXTENDS RecoveryMarker

CONSTANTS Ids,                    \* process identifiers of Cores
          MaxEdits, MaxCommands   \* bounds: edits of the intent; commands but `restart --yes`

Base == 1        \* the intent the old transaction began with
Candidate == 2   \* the configuration it was to switch to
Contents == {Base, Candidate, 3}
None == 0        \* no file, no revision, no process

\* A new Core has an identifier that nothing names.
ASSUME IdsAssumption ==
  /\ Ids \subseteq Nat \ {None} /\ 1 \in Ids
  /\ \A f \in [Procs -> Ids \cup {None}], i, j \in Ids \cup {None} :
        \E k \in Ids : k \notin {f[p] : p \in Procs} \cup {i, j}

VARIABLES
  legacy,    \* the old version's files: which exist
  tx,        \* transactions/active: the migrated journal
  target,    \* recovery-target.yaml in it
  snapshot,  \* tun-config.yaml
  intent,    \* the user's config.yaml
  core,      \* the managed Core
  daemon,    \* "new", "old" (does not know the admission of a legacy reset) or "down"
  cmd,       \* the command of each process
  past       \* edits and commands so far; the last generation; whether two live
             \* recoveries have been behind the marker at once

migration == <<legacy, tx, target, snapshot, intent, core, daemon, past>>
legacyVars == <<vars, migration, cmd>>

\* tun-journal.json and tun-candidate.yaml: which exist.
OldFiles == [journal: BOOLEAN, candidate: BOOLEAN]

NoTx == [gen |-> None]
NoCore == [id |-> None]
Open(t) == t # NoTx /\ t.phase = "RecoveryRequired"
Ended(t) == t # NoTx /\ ~Open(t)
Idle == [op |-> "none", at |-> "idle", gen |-> None, rev |-> None, id |-> None]

Ops == {"restart-yes", "restart", "tun", "stop"}
Direction(p) == IF cmd[p].op = "stop" THEN "Abort" ELSE "Resume"

\* The window of a reset, from the proof that the Core has stopped to its end.
Window == {"wSnapshot", "wJournal", "wCandidate", "wActive"}
Ats == {"idle", "begin", "migrate", "publish", "read", "target", "fence", "apply", "record",
        "converge", "finalize", "archive", "dropJournal", "dropCandidate", "reset",
        "quiesce", "done", "failed", "continue"} \cup Window

LegacyInit ==
  /\ Init
  /\ legacy \in {old \in OldFiles : old.journal}
  /\ tx = NoTx /\ target = None
  /\ snapshot \in {None, Base, Candidate} /\ intent \in Contents
  /\ core \in {NoCore} \cup [id : {1}, rev : {Base, Candidate}]
  /\ daemon \in {"new", "old", "down"}
  /\ cmd = [p \in Procs |-> Idle]
  /\ past = [edits |-> 0, commands |-> 0, gen |-> 0, met |-> FALSE]

At(p, l) == Alive(p) /\ cmd[p].at = l
Go(p, l) == cmd' = [cmd EXCEPT ![p].at = l]
Fails(p) == Go(p, "failed") /\ UNCHANGED migration

\* CoordinatorLock: held from one of these steps to the next.
Unlocked == \A p \in Procs : ~(Alive(p) /\ cmd[p].at \in {"publish", "dropJournal", "dropCandidate"})

\* What a configuration command asks before it writes anything.
Blocked == legacy.journal \/ Open(tx)
\* What the daemon asks before it starts or stops a Core for anybody else.
Gate == Open(tx)

Fenced(p) == tx # NoTx /\ tx.gen = cmd[p].gen /\ tx.phase = "RecoveryRequired"
FreshId == CHOOSE i \in Ids : i \notin {core.id} \cup {cmd[p].id : p \in Procs}
                                         \cup (IF tx = NoTx THEN {} ELSE {tx.recId})

-----------------------------------------------------------------------------
(* A command and the recovery marker.                                      *)

Invoke(p, op) ==
  /\ At(p, "idle") /\ pc[p] = "idle"
  /\ op # "restart-yes" => past.commands < MaxCommands
  /\ cmd' = [cmd EXCEPT ![p] = [Idle EXCEPT !.op = op,
               !.at = IF tx = NoTx /\ ~legacy.journal THEN "continue" ELSE "begin"]]
  /\ past' = [past EXCEPT !.commands = IF op = "restart-yes" THEN @ ELSE @ + 1]
  /\ UNCHANGED <<vars, legacy, tx, target, snapshot, intent, core, daemon>>

\* "recovery already in progress": the marker's holder lives, or the marker is there
\* again when it is to be created.
GivesUp(p) ==
  /\ At(p, "begin") /\ pc[p] = "idle" /\ Readable /\ Alive(marker.holder)
  /\ cmd' = [cmd EXCEPT ![p] = Idle]
  /\ UNCHANGED <<vars, migration>>

Survived == \E p \in Procs : pc'[p] # "dead"

\* The recoveries that p is to go by: after a death, two may reclaim at once.
Others(p) == {q \in Procs \ {p} : pc[q] = "recovering"}

Acquire(p) ==
  /\ At(p, "begin")
  /\ Read(p) \/ Reclaim(p) \/ Create(p) \/ Write(p)
  /\ Survived
  /\ cmd' = [cmd EXCEPT ![p] = CASE pc'[p] = "recovering"     -> [@ EXCEPT !.at = "migrate"]
                                 [] pc'[p] \in {"idle", "dead"} -> Idle
                                 [] OTHER                     -> @]
  /\ past' = [past EXCEPT !.met = @ \/ (pc'[p] = "recovering" /\ Others(p) # {})]
  /\ UNCHANGED <<legacy, tx, target, snapshot, intent, core, daemon>>

\* The guard of the marker is dropped; the command goes on if its recovery succeeded.
Leave(p) ==
  /\ Alive(p) /\ cmd[p].at \in {"done", "failed"}
  /\ Finish(p) \/ Release(p)
  /\ cmd' = [cmd EXCEPT ![p] = IF pc'[p] = "release" THEN @
                               ELSE IF @.at = "done" THEN [Idle EXCEPT !.op = cmd[p].op, !.at = "continue"]
                               ELSE Idle]
  /\ UNCHANGED migration

-----------------------------------------------------------------------------
(* Migration (check_and_migrate_legacy_journal).                           *)

\* Under the coordinator lock: nothing to migrate, or the files and the intent are read.
Migrate(p) ==
  /\ At(p, "migrate") /\ Unlocked
  /\ cmd' = [cmd EXCEPT ![p] =
               IF ~legacy.journal \/ ~legacy.candidate \/ tx # NoTx THEN [@ EXCEPT !.at = "read"]
               ELSE [@ EXCEPT !.at = "publish", !.rev = IF intent = Base THEN Base ELSE None]]
  /\ UNCHANGED <<vars, migration>>

\* The directory is private until it is renamed to active/.  Nothing is known of the
\* Core of the old transaction: the evidence is a placeholder.
Publish(p) ==
  /\ At(p, "publish")
  /\ tx' = [gen |-> past.gen + 1, phase |-> "RecoveryRequired", base |-> cmd[p].rev,
            target |-> None, recId |-> None]
  /\ past' = [past EXCEPT !.gen = @ + 1]
  /\ Go(p, "read")
  /\ UNCHANGED <<vars, legacy, target, snapshot, intent, core, daemon>>

\* plan_recovery for a migrated journal.
Plan(p) ==
  CASE Direction(p) = "Resume" /\ intent = Candidate   -> "finalize"
    [] Direction(p) = "Abort" /\ snapshot = Candidate  -> "target"
    [] OTHER -> "refuse"

\* (Mutant: only the answer to the question counts.)
ResetAnswered(p) == cmd[p].op = "restart"
\* `restart --yes`, or the user's answer to the question `restart` asks.
ResetAllowed(p) == cmd[p].op \in {"restart-yes", "restart"}

ReadJournal(p) ==
  /\ At(p, "read")
  /\ \/ tx = NoTx /\ Go(p, "done")
     \/ tx # NoTx
        /\ \E l \in IF Ended(tx) THEN {"archive"}
                     ELSE IF Plan(p) # "refuse" THEN {Plan(p)}
                     ELSE IF cmd[p].op = "restart" THEN {"reset", "failed"}
                     ELSE IF ResetAllowed(p) THEN {"reset"}
                     ELSE {"failed"} :
             cmd' = [cmd EXCEPT ![p] = [@ EXCEPT !.at = l, !.gen = tx.gen, !.rev = None]]
  /\ UNCHANGED <<vars, migration>>

-----------------------------------------------------------------------------
(* Convergence to the current intent (`stop`, an installation, an          *)
(* uninstallation).                                                        *)

WriteTarget(p) ==
  /\ At(p, "target")
  /\ \/ tx = NoTx /\ Fails(p)
     \/ /\ tx # NoTx
        /\ target' = intent
        /\ cmd' = [cmd EXCEPT ![p] = [@ EXCEPT !.at = "fence", !.rev = intent]]
        /\ UNCHANGED <<legacy, tx, snapshot, intent, core, daemon, past>>
  /\ UNCHANGED vars

\* A target is fenced once: another intent is refused from then on.
FenceTarget(p) ==
  /\ At(p, "fence") /\ Unlocked
  /\ IF Fenced(p) /\ tx.target \in {None, cmd[p].rev}
     THEN /\ tx' = [tx EXCEPT !.target = cmd[p].rev]
          /\ Go(p, "apply")
          /\ UNCHANGED <<legacy, target, snapshot, intent, core, daemon, past>>
     ELSE Fails(p)
  /\ UNCHANGED vars

\* runtime_matches_recovery_target
RunsTarget == core # NoCore /\ core.rev = tx.target /\ core.id = tx.recId

\* ApplyLegacyRecoveryTarget: a running Core is left alone, for it is never the one the
\* migrated journal names as its candidate; it names none.
ApplyAdmitted(p) == daemon # "down" /\ Fenced(p) /\ tx.target = cmd[p].rev /\ target = cmd[p].rev

ApplyTarget(p) ==
  /\ At(p, "apply")
  /\ \/ /\ ApplyAdmitted(p) /\ RunsTarget
        /\ cmd' = [cmd EXCEPT ![p] = [@ EXCEPT !.at = "record", !.id = core.id]]
        /\ UNCHANGED <<faults, core>>
     \/ /\ ApplyAdmitted(p) /\ core = NoCore
        /\ core' = [id |-> FreshId, rev |-> target]
        /\ cmd' = [cmd EXCEPT ![p] = [@ EXCEPT !.at = "record", !.id = FreshId]]
        /\ UNCHANGED faults
     \/ ~(ApplyAdmitted(p) /\ (core = NoCore \/ RunsTarget))
        /\ Go(p, "failed") /\ UNCHANGED <<faults, core>>
     \/ ApplyAdmitted(p) /\ core = NoCore /\ Fault /\ Go(p, "failed") /\ UNCHANGED core
  /\ UNCHANGED <<marker, pc, legacy, tx, target, snapshot, intent, daemon, past>>

\* record_recovery_runtime takes the process from the daemon's answer.
Record(p) ==
  /\ At(p, "record") /\ Unlocked
  /\ IF Fenced(p) /\ tx.target = cmd[p].rev
     THEN /\ tx' = [tx EXCEPT !.recId = cmd[p].id]
          /\ Go(p, "converge")
          /\ UNCHANGED <<legacy, target, snapshot, intent, core, daemon, past>>
     ELSE Fails(p)
  /\ UNCHANGED vars

-----------------------------------------------------------------------------
(* The end of the transaction.                                             *)

Terminate(p) ==
  /\ Alive(p) /\ cmd[p].at \in {"converge", "finalize"} /\ Unlocked
  /\ IF Fenced(p)
     THEN /\ tx' = [tx EXCEPT !.phase = IF cmd[p].at = "finalize" THEN "IntentCommitted"
                                        ELSE "RolledBack"]
          /\ Go(p, "archive")
          /\ UNCHANGED <<legacy, target, snapshot, intent, core, daemon, past>>
     ELSE Fails(p)
  /\ UNCHANGED vars

\* terminal_cleanup: the journal is archived, and then the old version's files removed.
Archive(p) ==
  /\ At(p, "archive") /\ Unlocked
  /\ IF Ended(tx) /\ tx.gen = cmd[p].gen
     THEN tx' = NoTx /\ target' = None /\ Go(p, "dropJournal")
     ELSE UNCHANGED <<tx, target>> /\ Go(p, "done")
  /\ UNCHANGED <<vars, legacy, snapshot, intent, core, daemon, past>>

\* Errors of the removals are ignored.
Drop(p) ==
  /\ \/ At(p, "dropJournal") /\ legacy' = [legacy EXCEPT !.journal = FALSE]
        /\ Go(p, "dropCandidate") /\ UNCHANGED faults
     \/ At(p, "dropJournal") /\ Fault /\ Go(p, "dropCandidate") /\ UNCHANGED legacy
     \/ At(p, "dropCandidate") /\ legacy' = [legacy EXCEPT !.candidate = FALSE]
        /\ Go(p, "done") /\ UNCHANGED faults
  /\ UNCHANGED <<marker, pc, tx, target, snapshot, intent, core, daemon, past>>

-----------------------------------------------------------------------------
(* The controlled reset.                                                   *)

\* is_legacy_reset_journal_form: an untouched placeholder, which names no candidate.
LegacyForm(t) == t.phase = "RecoveryRequired"

\* (Mutant: the transaction goes first.)
ResetGateFirst == <<"wActive", "wSnapshot", "wJournal", "wCandidate">>
\* reset_managed_runtime_artifacts: "releasing the gate is the end of the reset window".
ResetOrder == <<"wSnapshot", "wJournal", "wCandidate", "wActive">>
Begun == ResetOrder[1]

\* The journal is read again; if it has gone meanwhile there is nothing to reset.
Reset(p) ==
  /\ At(p, "reset")
  /\ cmd' = [cmd EXCEPT ![p] = IF tx = NoTx THEN [@ EXCEPT !.at = "done"]
                               ELSE [@ EXCEPT !.at = "quiesce", !.gen = tx.gen]]
  /\ UNCHANGED <<vars, migration>>

\* prove_current_instance_ownership: a live child of the daemon, or the process that answers
\* the endpoint of the launch record.
Owned == core # NoCore
\* The transaction has the form of a migrated one, and the Core is this instance's own.
Admitted == Owned /\ LegacyForm(tx)

\* Nothing runs; or the Core is admitted and exits, is not seen to exit in time, or is
\* not admitted. A Core that is not seen to exit may exit all the same.
Stops(p) ==
  \/ core = NoCore /\ Go(p, Begun) /\ UNCHANGED <<core, faults>>
  \/ Admitted /\ core' = NoCore /\ Go(p, Begun) /\ UNCHANGED faults
  \/ Admitted /\ Fault /\ core' \in {core, NoCore} /\ Go(p, "failed")
  \/ core # NoCore /\ ~Admitted /\ Go(p, "failed") /\ UNCHANGED <<core, faults>>

\* The daemon's admission of a legacy reset, its proof that the Core is this instance's,
\* and the observed exit.
QuiesceByDaemon(p) ==
  /\ daemon = "new" /\ Fenced(p)
  /\ Stops(p)
  /\ UNCHANGED daemon

\* An older daemon refuses; the command applies the same admission and stops the Core
\* itself, by the identity of the process that answers the endpoint.
QuiesceByCli(p) ==
  /\ daemon = "old" /\ Fenced(p)
  /\ Stops(p)
  /\ UNCHANGED daemon

\* Without a daemon, that no Core runs is proof; else the daemon is started and asked,
\* without the command's own admission to fall back on.
QuiesceAlone(p) ==
  /\ daemon = "down" /\ Fenced(p)
  /\ \/ core = NoCore /\ Go(p, Begun) /\ UNCHANGED <<daemon, faults>>
     \/ core # NoCore /\ daemon' = "new" /\ UNCHANGED <<cmd, faults>>
     \/ core # NoCore /\ daemon' = "old" /\ Go(p, "failed") /\ UNCHANGED faults
     \/ core # NoCore /\ Fault /\ Go(p, "failed") /\ UNCHANGED daemon
  /\ UNCHANGED core

Quiesce(p) ==
  /\ At(p, "quiesce")
  /\ \/ QuiesceByDaemon(p) \/ QuiesceByCli(p) \/ QuiesceAlone(p)
     \/ ~Fenced(p) /\ Go(p, "failed") /\ UNCHANGED <<core, daemon, faults>>
  /\ UNCHANGED <<marker, pc, legacy, tx, target, snapshot, intent, past>>

NextIn(l) == LET i == CHOOSE k \in 1..4 : ResetOrder[k] = l
             IN  IF i = 4 THEN "done" ELSE ResetOrder[i + 1]

\* remove_managed_snapshot, remove_legacy_artifacts, quarantine_active_transaction, each
\* of which may fail and leave the rest.
ResetStep(p) ==
  LET l == cmd[p].at IN
  /\ Alive(p) /\ l \in Window
  /\ l = "wActive" => Unlocked
  /\ IF l = "wActive" /\ tx = NoTx THEN Fails(p)
     ELSE /\ snapshot' = IF l = "wSnapshot" THEN None ELSE snapshot
          /\ legacy' = [journal   |-> legacy.journal /\ l # "wJournal",
                        candidate |-> legacy.candidate /\ l # "wCandidate"]
          /\ tx' = IF l = "wActive" THEN NoTx ELSE tx
          /\ target' = IF l = "wActive" THEN None ELSE target
          /\ Go(p, NextIn(l))
          /\ UNCHANGED <<intent, core, daemon, past>>
  /\ UNCHANGED vars

-----------------------------------------------------------------------------
(* After the recovery, and around it.                                      *)

\* `restart` has the daemon start a Core from the intent, `stop` has it stop one, behind
\* its gate; `tun` goes on to a transaction of this version.
Continue(p) ==
  /\ At(p, "continue") /\ pc[p] = "idle"
  /\ cmd' = [cmd EXCEPT ![p] = Idle]
  /\ \/ UNCHANGED <<core, daemon>> /\ (Gate \/ cmd[p].op = "tun")
     \/ /\ ~Gate /\ cmd[p].op \in {"restart", "restart-yes"}
        /\ core' = [id |-> FreshId, rev |-> intent]
        /\ daemon' = IF daemon = "down" THEN "new" ELSE daemon
     \/ ~Gate /\ cmd[p].op = "stop" /\ core' = NoCore /\ UNCHANGED daemon
  /\ UNCHANGED <<vars, legacy, tx, target, snapshot, intent, past>>

\* The daemon is started again, of this version, and its Core with it; a transaction of
\* either version blocks the autostart (autostart_transaction_blocker).
Boot ==
  /\ Fault
  /\ daemon' = "new"
  /\ core' = IF Blocked THEN NoCore ELSE [id |-> FreshId, rev |-> intent]
  /\ UNCHANGED <<marker, pc, legacy, tx, target, snapshot, intent, cmd, past>>

CoreExits ==
  /\ core # NoCore /\ Fault
  /\ core' = NoCore
  /\ UNCHANGED <<marker, pc, legacy, tx, target, snapshot, intent, daemon, cmd, past>>

Edit ==
  /\ past.edits < MaxEdits
  /\ intent' \in Contents \ {intent}
  /\ past' = [past EXCEPT !.edits = @ + 1]
  /\ UNCHANGED <<vars, legacy, tx, target, snapshot, core, daemon, cmd>>

\* Somebody is left to run the next command.
Kill(p) ==
  /\ Die(p) /\ Survived
  /\ cmd' = [cmd EXCEPT ![p] = Idle]
  /\ UNCHANGED migration

CommandStep(p) ==
  \/ GivesUp(p) \/ Acquire(p) \/ Leave(p) \/ Continue(p)
  \/ Migrate(p) \/ Publish(p) \/ ReadJournal(p)
  \/ WriteTarget(p) \/ FenceTarget(p) \/ ApplyTarget(p) \/ Record(p)
  \/ Terminate(p) \/ Archive(p) \/ Drop(p)
  \/ Reset(p) \/ Quiesce(p) \/ ResetStep(p)

LegacyNext ==
  \/ \E p \in Procs : \/ CommandStep(p) \/ Kill(p)
                      \/ \E op \in Ops : Invoke(p, op)
  \/ Boot \/ CoreExits \/ Edit

LegacySpec == LegacyInit /\ [][LegacyNext]_legacyVars

\* Running commands go on, and the user goes on running `restart --system --yes`.
LegacyFairSpec ==
  /\ LegacySpec
  /\ \A p \in Procs : WF_legacyVars(CommandStep(p))
  /\ WF_legacyVars(\E p \in Procs : Invoke(p, "restart-yes"))

-----------------------------------------------------------------------------
LegacyTypeOK ==
  /\ TypeOK
  /\ legacy \in OldFiles
  /\ tx \in {NoTx} \cup
           [gen: Nat, phase: {"RecoveryRequired", "IntentCommitted", "RolledBack"},
            base: {None, Base}, target: Contents \cup {None}, recId: Ids \cup {None}]
  /\ target \in Contents \cup {None} /\ snapshot \in {None, Base, Candidate}
  /\ intent \in Contents
  /\ core \in {NoCore} \cup [id: Ids, rev: Contents]
  /\ daemon \in {"new", "old", "down"}
  /\ cmd \in [Procs -> [op: Ops \cup {"none"}, at: Ats, gen: Nat, rev: Contents \cup {None},
                       id: Ids \cup {None}]]

\* From the proof that the Core has stopped to the release of the transaction no Core
\* runs, whoever starts one or restarts the daemon meanwhile: the destructive steps of a
\* reset never work under a live Core ("no new Core start can be admitted by the daemon").
\* Where two recoveries have met, having both reclaimed the marker of a dead one, the
\* release of one opens the window of the other, and it does not hold.
ResetUnderGate ==
  ~past.met => ((\E p \in Procs : Alive(p) /\ cmd[p].at \in Window) => core = NoCore)

\* The journal was left without its candidate: nothing migrates it, and nothing removes it.
Headless == legacy.journal /\ ~legacy.candidate /\ tx = NoTx
\* A process died over the marker it had created: no one can tell whose it was.
Wedged == marker # NoMarker /\ ~marker.written /\ ~Alive(marker.holder)

\* `restart --yes` ends what the old version left behind, whatever recovery was tried
\* before, wherever it was killed, and whatever the intent has become: the configuration
\* commands are admitted again. Two states are left out in which it never is.
LegacyEnds == Blocked ~> (~Blocked \/ Headless \/ Wedged)
=============================================================================
