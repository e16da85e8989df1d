--------------------------- MODULE TunTransaction ---------------------------
(***************************************************************************)
(* The system TUN transaction: the mihomo-cli processes that drive it      *)
(* (`tun on`, `tun off`, and the recovery inside `restart`, `stop`), the   *)
(* daemon that owns the Core, and the files they share.                    *)
(*                                                                         *)
(* A CLI step that holds CoordinatorLock or ConfigLock is one action.  A   *)
(* daemon command is one action: lifecycle commands are serialized under   *)
(* OWNER_LIFECYCLE_LOCK.  Everything else may interleave, and a CLI may    *)
(* die between any two steps.                                              *)
(***************************************************************************)
EXTENDS TunJournal

CONSTANTS
  CLIs,       \* concurrent mihomo-cli processes
  Ops,        \* the commands they may run, a subset of AllOps
  MaxFaults   \* bound: crashes, Core exits, failed starts and damaged files

AllOps == {"tun-on", "tun-off", "restart", "restart-yes", "stop"}

ASSUME OpsAssumption == Ops \subseteq AllOps /\ MaxFaults \in Nat

VARIABLES
  journal,    \* transactions/active/: a journal with its artifacts, or NoTx
  gate,       \* the user admission gate: the generation it names, or NoGen
  generation, \* transactions/generation
  snapshot,   \* tun-config.yaml, or NoFile
  activeCfg,  \* active-config.yaml
  intent,     \* the user's config.yaml
  core,       \* the managed Core process, or NoCore
  pc,         \* the next step of each CLI
  op,         \* the command each CLI runs
  role,       \* what a CLI is doing: see Roles
  held,       \* the journal value each CLI carries (its fence), or NoTx
  seen,       \* the daemon observation or proof each CLI carries, or NoCore
  lastEdit,   \* history: the user's last edit
  landed,     \* history: the candidate has been the intent since Publish
  past,       \* history: the gate whose removal failed; whether the last reset stopped
              \* the Core behind an open transaction that was its own alone
  faults      \* faults so far

files  == <<journal, gate, generation, snapshot, activeCfg>>
locals == <<op, role, held, seen>>
vars   == <<files, intent, core, pc, locals, lastEdit, landed, past, faults>>

\* "recovery" holds the recovery marker; "switch" runs its own transaction,
\* "conflict" rolls that transaction back because the intent changed under it.
Roles == {"none", "recovery", "switch", "conflict"}

PCs == {"idle", "observe", "plan", "replan", "repair", "apply", "record",
        "casApplied", "commit", "attest", "casCommitted", "casRollback", "quiesce",
        "restoreSnapshot", "restoreRuntime", "casRolledBack", "cleanGate", "cleanActive",
        "resetStop", "resetGate", "resetSnapshot", "resetActive", "ready", "publish",
        "validate", "cancel", "casPending", "promoteCheck", "promoteWrite", "casConflict",
        "casPromoted", "markRequired"}

Direction(c)    == IF op[c] = "stop" THEN "Abort" ELSE "Resume"
ResetAllowed(c) == op[c] = "restart-yes"
Target(c)       == op[c] = "tun-on"

Init ==
  /\ journal = NoTx /\ gate = NoGen /\ generation = 0
  /\ \E tun \in BOOLEAN : intent = [user |-> 0, tun |-> tun]
  /\ activeCfg = [user |-> 0, tun |-> FALSE]
  /\ \/ snapshot = NoFile /\ ~intent.tun      \* TUN was never on
     \/ snapshot = intent                     \* left by an earlier transaction
  /\ \E p \in Pids, src \in Sources :
       /\ \A q \in Pids : p <= q
       /\ intent.tun => src = "snapshot"
       /\ src = "snapshot" => snapshot # NoFile
       /\ core = [pid |-> p, rev |-> intent, tun |-> intent.tun, api |-> TRUE, src |-> src]
  /\ pc = [c \in CLIs |-> "idle"] /\ op = [c \in CLIs |-> "none"]
  /\ role = [c \in CLIs |-> "none"]
  /\ held = [c \in CLIs |-> NoTx] /\ seen = [c \in CLIs |-> NoCore]
  /\ lastEdit = 0 /\ landed = FALSE /\ faults = 0
  /\ past = [stuck |-> NoGen, sole |-> FALSE]

-----------------------------------------------------------------------------
(* A CLI's control.                                                        *)

Goto(c, l) == pc' = [pc EXCEPT ![c] = l]

\* The process ends: with it go its journal value and the recovery marker.
Exit(c) ==
  /\ Goto(c, "idle")
  /\ op' = [op EXCEPT ![c] = "none"]
  /\ role' = [role EXCEPT ![c] = "none"]
  /\ held' = [held EXCEPT ![c] = NoTx]
  /\ seen' = [seen EXCEPT ![c] = NoCore]

\* An error return.  While rolling back after an intent conflict it is caught.
Fail(c) ==
  IF role[c] = "conflict" /\ pc[c] # "markRequired"
  THEN Goto(c, "markRequired") /\ UNCHANGED locals
  ELSE Exit(c)

\* Recovery returns Ok: the marker is released and the command goes on.
Recovered(c) ==
  /\ Goto(c, "ready")
  /\ role' = [role EXCEPT ![c] = "none"]
  /\ held' = [held EXCEPT ![c] = NoTx]
  /\ seen' = [seen EXCEPT ![c] = NoCore]
  /\ UNCHANGED op

\* The identity every fenced write rechecks under CoordinatorLock.
Fenced(c) ==
  /\ journal # NoTx
  /\ journal.gen = held[c].gen
  /\ journal.phase = held[c].phase
  /\ journal.cand = held[c].cand

Fault == faults < MaxFaults /\ faults' = faults + 1

-----------------------------------------------------------------------------
(* The daemon's start of a Core.                                           *)

UsedPids == (IF core = NoCore THEN {} ELSE {core.pid})
            \cup (IF journal = NoTx THEN {} ELSE {journal.ev.pid, journal.candPid})
            \cup {IF seen[c] = NoCore THEN NoPid ELSE seen[c].pid : c \in CLIs}

FreshPids == {p \in Pids \ UsedPids : \A q \in Pids \ UsedPids : p <= q}

\* start_core from cfg as found in the file src: the Core comes up as asked, or
\* (a fault) with TUN disabled because the device failed, or not at all.
Launched(src, cfg, tun) ==
  \E p \in FreshPids :
    core' = [pid |-> p, rev |-> cfg, tun |-> tun, api |-> TRUE, src |-> src]
StartsAsAsked(src, cfg) == Launched(src, cfg, cfg.tun) /\ UNCHANGED faults
StartsWrong(src, cfg) ==
  Fault /\ (core' = NoCore \/ (cfg.tun /\ Launched(src, cfg, FALSE)))

SourceFile(src) == IF src = "snapshot" THEN snapshot ELSE activeCfg

-----------------------------------------------------------------------------
(* Commands, and the recovery every one of them begins with                *)
(* (maybe_auto_recover_active_transaction).                                *)

\* With no journal there is nothing to recover.  Otherwise the command takes the
\* recovery marker and reads the journal under it, or, if another recovery has
\* the marker, fails at once (that changes nothing).
Invoke(c) ==
  /\ pc[c] = "idle"
  /\ \E o \in Ops : op' = [op EXCEPT ![c] = o]
  /\ \/ /\ journal = NoTx
        /\ Goto(c, "ready") /\ UNCHANGED <<role, held>>
     \/ /\ journal # NoTx
        /\ \A d \in CLIs : role[d] # "recovery"
        /\ role' = [role EXCEPT ![c] = "recovery"]
        /\ held' = [held EXCEPT ![c] = journal]
        /\ Goto(c, IF Open(journal) THEN "observe" ELSE "cleanGate")
  /\ UNCHANGED <<files, intent, core, seen, lastEdit, landed, past, faults>>

\* get_runtime_observation: a running Core is proved only when its API answers.
Observation == IF core # NoCore /\ core.api THEN core ELSE NoCore

\* GetTransactionStatus.
Observe(c) ==
  /\ pc[c] = "observe"
  /\ seen' = [seen EXCEPT ![c] = Observation]
  /\ Goto(c, "plan")
  /\ UNCHANGED <<files, intent, core, op, role, held, lastEdit, landed, past, faults>>

\* classify_old_runtime_evidence: the artifact now in active/, against the digest
\* of the journal the CLI carries.
EvidencePresent(c) == journal # NoTx /\ journal.evOk /\ journal.ev = held[c].ev

\* Defect: a refused recovery starts over.
RefusalRetried(c) == Goto(c, "observe") /\ UNCHANGED locals

\* route_recovery_action.  In the executor's recursion ("replan") a refusal is an
\* error even when a controlled reset is allowed.
RouteRefusal(c) ==
  IF pc[c] = "plan" /\ ResetAllowed(c)
  THEN Goto(c, "resetStop") /\ UNCHANGED locals
  ELSE Exit(c)

\* execute_recovery_action: where each action of the planner starts.
PlannedStep(c, action) ==
  CASE action = "RepairPhaseToSnapshotPromoted" -> "repair"
    [] action = "RetryApply"                    -> "apply"
    [] action = "CommitIntent"                  -> "commit"
    [] action = "FinalizeCommittedIntent"       -> "casCommitted"
    [] action = "CleanupTerminal"               -> "cleanGate"
    [] OTHER -> IF held[c].phase = "RollbackPending" THEN "quiesce" ELSE "casRollback"

\* plan_recovery over the journal and the observation read earlier, and the
\* files as they are now.
Plan(c) ==
  /\ pc[c] \in {"plan", "replan"}
  /\ LET action == PlanRecovery([held[c] EXCEPT !.evOk = EvidencePresent(c)],
                                ClassifySnapshot(snapshot, held[c]),
                                ClassifyIntent(intent, held[c]), seen[c], Direction(c))
     IN  IF action = "Refuse"
         THEN RouteRefusal(c)
         ELSE Goto(c, PlannedStep(c, action)) /\ UNCHANGED locals
  /\ UNCHANGED <<files, intent, core, lastEdit, landed, past, faults>>

-----------------------------------------------------------------------------
(* cas_update_phase: the compare-and-swap that moves the journal.          *)

CasPCs == {"repair", "casPromoted", "cancel", "casRolledBack", "casPending", "casApplied",
           "casCommitted", "casRollback", "casConflict"}

CasTarget(l) ==
  CASE l \in {"repair", "casPromoted"}   -> "SnapshotPromoted"
    [] l \in {"cancel", "casRolledBack"} -> "RolledBack"
    [] l = "casPending"   -> "PromotionPending"
    [] l = "casApplied"   -> "CoreApplied"
    [] l = "casCommitted" -> "IntentCommitted"
    [] l = "casRollback"  -> "RollbackPending"
    [] l = "casConflict"  -> "RecoveryRequired"

AfterCas(c) ==
  CASE pc[c] = "repair"       -> "replan"
    [] pc[c] = "casPending"   -> "promoteCheck"
    [] pc[c] = "casPromoted"  -> "apply"
    [] pc[c] = "casApplied"   -> IF role[c] = "recovery" THEN "replan" ELSE "commit"
    [] pc[c] = "casRollback"  -> "quiesce"
    [] OTHER                  -> "cleanGate"

CasPossible(c) == Fenced(c) /\ ValidPhaseTransition(journal.phase, CasTarget(pc[c]))

AdvancePhase(c) ==
  /\ pc[c] \in CasPCs /\ CasPossible(c)
  /\ journal' = [journal EXCEPT !.phase = CasTarget(pc[c])]
  /\ IF pc[c] = "casConflict"
     THEN Exit(c)
     ELSE /\ held' = [held EXCEPT ![c] = journal']
          /\ Goto(c, AfterCas(c)) /\ UNCHANGED <<op, role, seen>>
  /\ UNCHANGED <<gate, generation, snapshot, activeCfg, intent, core, lastEdit, landed, past, faults>>

\* A stale fence or an illegal transition.  A cancelled `tun` ignores the error
\* and goes on to clean up.
CasRejected(c) ==
  /\ pc[c] \in CasPCs /\ ~CasPossible(c)
  /\ IF pc[c] = "cancel" THEN Goto(c, "cleanGate") /\ UNCHANGED locals ELSE Fail(c)
  /\ UNCHANGED <<files, intent, core, lastEdit, landed, past, faults>>

-----------------------------------------------------------------------------
(* A `tun` command's own transaction (execute_system_tun_transaction).     *)

\* GetStatus: the evidence of the old runtime.  An unreadable TUN state is
\* recorded as off.
CollectEvidence(c) ==
  /\ pc[c] = "ready" /\ op[c] \in {"tun-on", "tun-off"}
  /\ IF core = NoCore
     THEN Exit(c)
     ELSE /\ role' = [role EXCEPT ![c] = "switch"]
          /\ seen' = [seen EXCEPT ![c] = [core EXCEPT !.tun = core.tun /\ core.api]]
          /\ Goto(c, "publish") /\ UNCHANGED <<op, held>>
  /\ UNCHANGED <<files, intent, core, lastEdit, landed, past, faults>>

\* Capture the intent and publish the transaction in one critical section.
\* `tun on` first folds a pending override edit into the intent.  The journal
\* becomes visible before the gate is written: a crash may fall in between.
Publish(c) ==
  /\ pc[c] = "publish" /\ gate = NoGen /\ ~Open(journal) /\ generation < MaxGen
  /\ \/ UNCHANGED <<intent, lastEdit>>
     \/ /\ Target(c) /\ lastEdit < MaxEdits
        /\ lastEdit' = lastEdit + 1 /\ intent' = [intent EXCEPT !.user = lastEdit']
  /\ generation' = generation + 1
  /\ journal' = [gen |-> generation', phase |-> "Prepared", target |-> Target(c),
                 base |-> intent', cand |-> Candidate(intent', Target(c)), old |-> snapshot,
                 ev |-> [pid |-> seen[c].pid, rev |-> seen[c].rev, tun |-> seen[c].tun,
                         src |-> "snapshot"],
                 evOk |-> TRUE, candPid |-> NoPid]
  /\ landed' = (journal'.cand = intent')
  /\ \/ /\ gate' = generation' /\ held' = [held EXCEPT ![c] = journal']
        /\ Goto(c, "validate")
        /\ seen' = [seen EXCEPT ![c] = NoCore]
        /\ UNCHANGED <<op, role, faults>>
     \/ Fault /\ Exit(c) /\ UNCHANGED gate
  /\ UNCHANGED <<snapshot, activeCfg, core, past>>

\* A gate, an open transaction, or an exhausted generation counter.
PublishRefused(c) ==
  /\ pc[c] = "publish" /\ (gate # NoGen \/ Open(journal) \/ generation = MaxGen)
  /\ Exit(c)
  /\ UNCHANGED <<files, intent, core, lastEdit, landed, past, faults>>

\* ValidatePreparedRuntime; any refusal cancels the transaction.
Validate(c) ==
  /\ pc[c] = "validate"
  /\ LET valid == /\ journal # NoTx /\ journal.gen = held[c].gen /\ journal.phase = "Prepared"
                  /\ MatchesRestoredOld(held[c].ev, core)
     IN  Goto(c, IF valid THEN "casPending" ELSE "cancel")
  /\ UNCHANGED <<files, intent, core, locals, lastEdit, landed, past, faults>>

\* promote_snapshot holds no lock: it checks the candidate artifact and the
\* snapshot it is about to replace, then writes.
PromoteCheck(c) ==
  /\ pc[c] = "promoteCheck"
  /\ LET unchanged == journal # NoTx /\ journal.cand = held[c].cand /\ snapshot = held[c].old
     IN  Goto(c, IF unchanged THEN "promoteWrite" ELSE "casConflict")
  /\ UNCHANGED <<files, intent, core, locals, lastEdit, landed, past, faults>>

PromoteWrite(c) ==
  /\ pc[c] = "promoteWrite"
  /\ snapshot' = held[c].cand
  /\ Goto(c, "casPromoted")
  /\ UNCHANGED <<journal, gate, generation, activeCfg, intent, core, locals, lastEdit, landed, past, faults>>

-----------------------------------------------------------------------------
(* Steps shared by a transaction and its recovery.                         *)

\* ApplyPromotedSnapshot on the daemon: what lets it act at all.
ApplyAdmitted(c) ==
  /\ journal # NoTx /\ journal.gen = held[c].gen /\ journal.phase = "SnapshotPromoted"
  /\ journal.cand = held[c].cand /\ snapshot = journal.cand /\ journal.evOk
  /\ core = NoCore \/ RunsCandidate(journal, core) \/ MatchesOldEvidence(journal.ev, core)

ApplyRefused(c) ==
  IF role[c] = "recovery" THEN Exit(c) ELSE Goto(c, "casRollback") /\ UNCHANGED locals

\* The daemon stops the attested old Core and starts the snapshot; a Core that
\* comes up with the wrong TUN state is reported and left running.
Apply(c) ==
  /\ pc[c] = "apply"
  /\ \/ /\ ~ApplyAdmitted(c) /\ ApplyRefused(c) /\ UNCHANGED <<core, faults>>
     \/ /\ ApplyAdmitted(c)
        /\ IF RunsCandidate(journal, core)
           THEN UNCHANGED <<core, faults>>
           ELSE StartsAsAsked("snapshot", snapshot)
        /\ seen' = [seen EXCEPT ![c] = core']
        /\ Goto(c, "record") /\ UNCHANGED <<op, role, held>>
     \/ /\ ApplyAdmitted(c) /\ ~RunsCandidate(journal, core)
        /\ StartsWrong("snapshot", snapshot) /\ ApplyRefused(c)
  /\ UNCHANGED <<files, intent, lastEdit, landed, past>>

\* record_candidate_runtime: the proven process becomes the candidate's.
Record(c) ==
  /\ pc[c] = "record"
  /\ IF Fenced(c)
     THEN /\ journal' = [journal EXCEPT !.candPid = seen[c].pid]
          /\ held' = [held EXCEPT ![c] = journal']
          /\ Goto(c, "casApplied") /\ UNCHANGED <<op, role, seen>>
     ELSE UNCHANGED journal /\ Fail(c)
  /\ UNCHANGED <<gate, generation, snapshot, activeCfg, intent, core, lastEdit, landed, past, faults>>

\* Defect: the commit does not compare the intent it replaces.
IntentUnchecked(c) == TRUE

\* The intent is still the one the candidate was built from, or the candidate.
IntentUnmoved(c) == intent \in {held[c].base, held[c].cand}

\* compare_and_commit_user_intent.  A conflict aborts a recovery, and makes a
\* transaction roll its runtime back.
Commit(c) ==
  /\ pc[c] = "commit"
  /\ LET next == IF role[c] = "recovery" THEN "casCommitted" ELSE "attest" IN
     \/ /\ Fenced(c) /\ IntentUnmoved(c)
        /\ intent' = held[c].cand /\ landed' = TRUE
        /\ Goto(c, next) /\ UNCHANGED locals
     \/ /\ Fenced(c) /\ ~IntentUnmoved(c)
        /\ IF role[c] = "recovery"
           THEN Exit(c)
           ELSE /\ role' = [role EXCEPT ![c] = "conflict"]
                /\ Goto(c, "casRollback") /\ UNCHANGED <<op, held, seen>>
        /\ UNCHANGED <<intent, landed>>
     \/ ~Fenced(c) /\ Fail(c) /\ UNCHANGED <<intent, landed>>
  /\ UNCHANGED <<files, core, lastEdit, past, faults>>

Attest(c) ==
  /\ pc[c] = "attest"
  /\ IF Fenced(c) /\ journal.phase = "CoreApplied" /\ RunsCandidate(journal, core)
     THEN Goto(c, "casCommitted") /\ UNCHANGED locals
     ELSE Fail(c)
  /\ UNCHANGED <<files, intent, core, lastEdit, landed, past, faults>>

-----------------------------------------------------------------------------
(* Rollback (execute_automatic_rollback, BeginRollback, ContinueRollback). *)

\* QuiesceCandidateRuntime on the daemon: it stops only a Core it can name.
QuiesceAdmitted(jr) ==
  /\ jr.phase \in {"RollbackPending", "RecoveryRequired"}
  /\ \/ core = NoCore
     \/ MatchesCandidate(jr, core)
     \/ jr.evOk /\ MatchesOldEvidence(jr.ev, core)

\* `restart --yes` may itself stop an already restored old Core (Linux):
\* restored_old_compat_observation, cli_quiesce_restored_old_core.
RestoredOldObserved == MatchesRestoredOld(journal.ev, core) /\ core.src = journal.ev.src

CompatQuiesce(c) == role[c] = "recovery" /\ ResetAllowed(c) /\ RestoredOldObserved

\* After the stop the CLI reads the old-runtime evidence, before it accepts the proof.
Quiesce(c) ==
  /\ pc[c] = "quiesce"
  /\ LET stops == Fenced(c) /\ (QuiesceAdmitted(journal) \/ (journal.evOk /\ CompatQuiesce(c)))
     IN  /\ core' = IF stops THEN NoCore ELSE core
         /\ IF stops /\ journal.evOk
            THEN Goto(c, "restoreSnapshot") /\ UNCHANGED locals
            ELSE Fail(c)
  /\ UNCHANGED <<files, intent, lastEdit, landed, past, faults>>

\* Defect: a snapshot that did not exist before is not removed.
SnapshotKept(c) == IF held[c].old = NoFile THEN snapshot ELSE held[c].old

\* What restore_snapshot puts back: the saved file, or no file.
SavedSnapshot(c) == held[c].old

RestoreSnapshot(c) ==
  /\ pc[c] = "restoreSnapshot"
  /\ IF Fenced(c) /\ journal.old = held[c].old
     THEN /\ snapshot' = SavedSnapshot(c)
          /\ Goto(c, "restoreRuntime") /\ UNCHANGED locals
     ELSE UNCHANGED snapshot /\ Fail(c)
  /\ UNCHANGED <<journal, gate, generation, activeCfg, intent, core, lastEdit, landed, past, faults>>

\* RestoreOldRuntime on the daemon: the launch source the evidence names must
\* still hold the old revision.
RestoreAdmitted(c) ==
  /\ Fenced(c) /\ journal.phase = "RollbackPending" /\ journal.evOk
  /\ SourceFile(journal.ev.src) = journal.ev.rev
  /\ core = NoCore \/ MatchesRestoredOld(journal.ev, core) \/ MatchesCandidate(journal, core)

RestoreRuntime(c) ==
  /\ pc[c] = "restoreRuntime"
  /\ \/ ~RestoreAdmitted(c) /\ Fail(c) /\ UNCHANGED <<core, faults>>
     \/ /\ RestoreAdmitted(c)
        /\ IF MatchesRestoredOld(journal.ev, core)
           THEN UNCHANGED <<core, faults>>
           ELSE StartsAsAsked(journal.ev.src, journal.ev.rev)
        /\ IF MatchesRestoredOld(journal.ev, core')
           THEN Goto(c, "casRolledBack") /\ UNCHANGED locals
           ELSE Fail(c)
     \/ /\ RestoreAdmitted(c) /\ ~MatchesRestoredOld(journal.ev, core)
        /\ StartsWrong(journal.ev.src, journal.ev.rev)
        /\ IF MatchesRestoredOld(journal.ev, core')
           THEN Goto(c, "casRolledBack") /\ UNCHANGED locals
           ELSE Fail(c)
  /\ UNCHANGED <<files, intent, lastEdit, landed, past>>

\* A rollback after an intent conflict failed: record it on the current journal.
MarkRequired(c) ==
  /\ pc[c] = "markRequired"
  /\ journal' = IF /\ Open(journal) /\ journal.gen = held[c].gen
                   /\ ValidPhaseTransition(journal.phase, "RecoveryRequired")
                THEN [journal EXCEPT !.phase = "RecoveryRequired"] ELSE journal
  /\ Exit(c)
  /\ UNCHANGED <<gate, generation, snapshot, activeCfg, intent, core, lastEdit, landed, past, faults>>

-----------------------------------------------------------------------------
(* Terminal cleanup and the controlled reset.                              *)

\* Defect: the gate is left behind.
GateLeft(gen) == gate

\* remove_user_gate: it removes the gate of that transaction only.
GateWithout(gen) == IF gate = gen THEN NoGen ELSE gate

\* The caller ignores the error of a removal that fails (a fault), and goes on.
RemoveGate(c) ==
  \/ gate' = GateWithout(held[c].gen) /\ UNCHANGED <<past, faults>>
  \/ /\ gate = held[c].gen /\ Fault
     /\ past' = [past EXCEPT !.stuck = gate] /\ UNCHANGED gate

\* The gate goes first, whatever the phase; only a terminal journal follows it.
CleanGate(c) ==
  /\ pc[c] = "cleanGate"
  /\ RemoveGate(c)
  /\ Goto(c, "cleanActive")
  /\ UNCHANGED <<journal, generation, snapshot, activeCfg, intent, core, locals, lastEdit, landed>>

CleanActive(c) ==
  /\ pc[c] = "cleanActive"
  /\ journal' = IF journal # NoTx /\ journal.gen = held[c].gen /\ ~Open(journal)
                THEN NoTx ELSE journal
  /\ IF role[c] = "recovery" THEN Recovered(c) ELSE Exit(c)
  /\ UNCHANGED <<gate, generation, snapshot, activeCfg, intent, core, lastEdit, landed, past, faults>>

\* no_running_core_without_daemon: the proof when the daemon cannot be asked.
NoRunningCore == core = NoCore

\* A command that still carries the journal of the active transaction.
Drives(d) == held[d] # NoTx /\ held[d].gen = journal.gen

\* reset_managed_system_runtime rereads the journal and asks for a stop proof.
\* With the daemon down (a fault) the absence of a Core process is the proof.
ResetStop(c) ==
  /\ pc[c] = "resetStop"
  /\ \/ journal = NoTx /\ Recovered(c) /\ UNCHANGED <<core, past, faults>>
     \/ /\ journal # NoTx
        /\ \/ QuiesceAdmitted(journal) /\ core' = NoCore /\ UNCHANGED faults
           \/ NoRunningCore /\ Fault /\ UNCHANGED core
        /\ held' = [held EXCEPT ![c] = journal]
        /\ past' = [past EXCEPT !.sole = Open(journal) /\ \A d \in CLIs \ {c} : ~Drives(d)]
        /\ Goto(c, "resetGate") /\ UNCHANGED <<op, role, seen>>
     \/ /\ journal # NoTx /\ ~QuiesceAdmitted(journal) /\ Exit(c)
        /\ UNCHANGED <<core, past, faults>>
  /\ UNCHANGED <<files, intent, lastEdit, landed>>

ResetGate(c) ==
  /\ pc[c] = "resetGate"
  /\ RemoveGate(c)
  /\ Goto(c, "resetSnapshot")
  /\ UNCHANGED <<journal, generation, snapshot, activeCfg, intent, core, locals, lastEdit, landed>>

ResetSnapshot(c) ==
  /\ pc[c] = "resetSnapshot"
  /\ snapshot' = NoFile
  /\ Goto(c, "resetActive")
  /\ UNCHANGED <<journal, gate, generation, activeCfg, intent, core, locals, lastEdit, landed, past, faults>>

\* quarantine_active_transaction moves whatever is active aside.
ResetActive(c) ==
  /\ pc[c] = "resetActive"
  /\ IF journal = NoTx THEN Exit(c) ELSE Recovered(c)
  /\ journal' = NoTx
  /\ past' = [past EXCEPT !.sole = FALSE]
  /\ UNCHANGED <<gate, generation, snapshot, activeCfg, intent, core, lastEdit, landed, faults>>

-----------------------------------------------------------------------------
(* The lifecycle commands themselves.                                      *)

\* Defect: a start is refused only while the user's gate is there.
AdmittedByGate == gate = NoGen

\* gate_admits, autostart_transaction_blocker: the daemon neither
\* starts nor stops a Core behind an open transaction.
Admitted == ~Open(journal)

Write(src, cfg) ==
  IF src = "snapshot" THEN snapshot' = cfg /\ UNCHANGED activeCfg
                      ELSE activeCfg' = cfg /\ UNCHANGED snapshot

\* promote_system_config for RestartCore: into the TUN snapshot when that says
\* TUN is on (and keeping it on), else into active-config.yaml; then restart.  A
\* Core without the TUN that ran before, or that the snapshot asks for, is
\* replaced by one started from the previous file, and so is one that fails.
Promote(c) ==
  LET src    == IF snapshot # NoFile /\ snapshot.tun THEN "snapshot" ELSE "active"
      old    == SourceFile(src)
      new    == IF src = "snapshot" THEN [intent EXCEPT !.tun = TRUE] ELSE intent
      needed == src = "snapshot" \/ (core # NoCore /\ core.api /\ core.tun)
  IN
  /\ pc[c] = "ready" /\ op[c] \in {"restart", "restart-yes"}
  /\ \/ ~Admitted /\ UNCHANGED <<snapshot, activeCfg, core, faults>>
     \/ /\ Admitted
        /\ StartsAsAsked(src, new) \/ StartsWrong(src, new)
        /\ core' # NoCore /\ (needed => core'.tun)
        /\ Write(src, new)
     \/ /\ Admitted /\ needed /\ ~new.tun
        /\ StartsAsAsked(src, old) /\ Write(src, old)
     \/ /\ Admitted /\ Fault
        /\ core' = NoCore \/ Launched(src, old, old.tun)
        /\ Write(src, old)
  /\ Exit(c)
  /\ UNCHANGED <<journal, gate, generation, intent, lastEdit, landed, past>>

StopCore(c) ==
  /\ pc[c] = "ready" /\ op[c] = "stop"
  /\ core' = IF Admitted THEN NoCore ELSE core
  /\ Exit(c)
  /\ UNCHANGED <<files, intent, lastEdit, landed, past, faults>>

-----------------------------------------------------------------------------
(* The environment.                                                        *)

\* The user changes the configuration, perhaps its TUN key: an editor, or a command that passed
\* ensure_no_non_terminal_transaction before the transaction was published.
Edit ==
  /\ lastEdit < MaxEdits
  /\ lastEdit' = lastEdit + 1
  /\ \E tun \in BOOLEAN : intent' = [user |-> lastEdit', tun |-> tun]
  /\ UNCHANGED <<files, core, pc, locals, landed, past, faults>>

\* A CLI is killed, or an IPC call fails and it gives up with an error.
Crash(c) ==
  /\ pc[c] # "idle" /\ Fault /\ Exit(c)
  /\ UNCHANGED <<files, intent, core, lastEdit, landed, past>>

CoreExits ==
  /\ core # NoCore /\ Fault
  /\ \/ core' = NoCore
     \/ core.api /\ core' = [core EXCEPT !.api = FALSE]
  /\ UNCHANGED <<files, intent, pc, locals, lastEdit, landed, past>>

\* The evidence file of the active transaction is lost or damaged.
EvidenceLost ==
  /\ journal # NoTx /\ journal.evOk /\ Fault
  /\ journal' = [journal EXCEPT !.evOk = FALSE]
  /\ UNCHANGED <<gate, generation, snapshot, activeCfg, intent, core, pc, locals, lastEdit, landed, past>>

\* Every process dies; the daemon may autostart a Core, but never behind an
\* open transaction (autostart_transaction_blocker).
Reboot ==
  /\ Fault
  /\ \/ core' = NoCore
     \/ /\ Admitted
        /\ LET src == IF snapshot # NoFile /\ snapshot.tun THEN "snapshot" ELSE "active"
           IN  Launched(src, SourceFile(src), SourceFile(src).tun)
  /\ pc' = [c \in CLIs |-> "idle"] /\ op' = [c \in CLIs |-> "none"]
  /\ role' = [c \in CLIs |-> "none"]
  /\ held' = [c \in CLIs |-> NoTx] /\ seen' = [c \in CLIs |-> NoCore]
  /\ UNCHANGED <<files, intent, lastEdit, landed, past>>

-----------------------------------------------------------------------------
\* The steps of a running command.
Step(c) ==
  \/ Observe(c) \/ Plan(c) \/ AdvancePhase(c) \/ CasRejected(c)
  \/ CollectEvidence(c) \/ Publish(c) \/ PublishRefused(c) \/ Validate(c)
  \/ PromoteCheck(c) \/ PromoteWrite(c) \/ Apply(c) \/ Record(c) \/ Commit(c) \/ Attest(c)
  \/ Quiesce(c) \/ RestoreSnapshot(c) \/ RestoreRuntime(c) \/ MarkRequired(c)
  \/ CleanGate(c) \/ CleanActive(c)
  \/ ResetStop(c) \/ ResetGate(c) \/ ResetSnapshot(c) \/ ResetActive(c)
  \/ Promote(c) \/ StopCore(c)

Next ==
  \/ \E c \in CLIs : Invoke(c) \/ Step(c) \/ Crash(c)
  \/ Edit \/ CoreExits \/ EvidenceLost \/ Reboot

Spec == Init /\ [][Next]_vars

\* Weak fairness of a running command: its steps are straight-line code and IPC
\* calls with a timeout, so it always takes the next one.
FairSpec == Spec /\ \A c \in CLIs : WF_vars(Step(c))

-----------------------------------------------------------------------------
(* Properties.                                                             *)

\* The switch the user sees behind the journal.
Outcome(phase) == CASE phase = "IntentCommitted" -> "committed"
                    [] phase = "RolledBack"      -> "rolledBack"
                    [] OTHER                     -> "open"
NoSwitch == [state |-> "none"]
Switch == IF journal = NoTx
          THEN NoSwitch
          ELSE [state |-> Outcome(journal.phase), base |-> journal.base, cand |-> journal.cand]

Promise == INSTANCE TunSwitch WITH switch <- Switch

\* Through every phase, crash, recovery and reset, the transaction implements the
\* switch the user was promised.
ImplementsSwitch == Promise!Spec

\* Every variable ranges over the values its code can hold.
TypeOK ==
  /\ journal \in Journals \cup {NoTx}
  /\ gate \in 0..MaxGen /\ generation \in 0..MaxGen
  /\ snapshot \in Configs \cup {NoFile} /\ activeCfg \in Configs /\ intent \in Configs
  /\ core \in Cores \cup {NoCore}
  /\ pc \in [CLIs -> PCs] /\ op \in [CLIs -> AllOps \cup {"none"}]
  /\ role \in [CLIs -> Roles]
  /\ held \in [CLIs -> Journals \cup {NoTx}] /\ seen \in [CLIs -> Cores \cup {NoCore}]
  /\ lastEdit \in 0..MaxEdits /\ landed \in BOOLEAN /\ faults \in 0..MaxFaults
  /\ past \in [stuck : 0..MaxGen, sole : BOOLEAN]

\* However commands, recoveries and edits interleave, the intent file keeps the
\* user's last edit: committing a candidate built from an older base never
\* overwrites it (compare_and_commit_user_intent).
NoLostEdit == intent.user = lastEdit

\* A transaction is IntentCommitted only if its candidate really became the
\* user's intent since it was published: recovery, which finalizes on the
\* strength of a classification made earlier, never reports a commit that did
\* not happen.
CommittedLanded ==
  journal # NoTx /\ journal.phase = "IntentCommitted" => landed

\* A RolledBack transaction has put back the TUN snapshot it found, whatever
\* was promoted in between and however often the rollback was restarted.
RolledBackRestoresSnapshot ==
  journal # NoTx /\ journal.phase = "RolledBack" => snapshot = journal.old

\* The admission gate in the user's directory names the active transaction.
\* Without one it is the gate of a removal that failed: terminal_cleanup ignores
\* that and archives the journal, and such a gate refuses every later transaction,
\* for no command removes it.  No other order of kills, recoveries and cleanups
\* leaves a gate behind.
GateOwned ==
  gate # NoGen => IF journal # NoTx THEN journal.gen = gate ELSE gate = past.stuck

\* From the stop proof of a controlled reset to the end of its destructive
\* cleanup no other command, daemon start or edit makes a Core run, and the
\* transaction that keeps Core starts out is still the open one the reset was
\* authorized for (reset_managed_runtime_artifacts): provided that when the Core
\* was stopped the transaction was still open, and driven by no other command.
ResetBehindStop ==
  \A c \in CLIs : pc[c] \in {"resetGate", "resetSnapshot", "resetActive"} /\ past.sole =>
    core = NoCore /\ Open(journal) /\ journal.gen = held[c].gen

\* A step that reports an outcome agrees with the runtime: committing a
\* transaction finds no Core or the candidate, and completing a rollback finds
\* no Core or one with the old revision and TUN state.
TerminalMatchesRuntime ==
  [][ /\ journal # NoTx /\ journal' # NoTx /\ core # NoCore
      => /\ journal.phase # "IntentCommitted" /\ journal'.phase = "IntentCommitted"
           => core.rev = journal.cand /\ core.tun = journal.target
         /\ journal.phase = "RollbackPending" /\ journal'.phase = "RolledBack"
           => core.rev = journal.ev.rev /\ core.tun = journal.ev.tun ]_vars

\* Every command ends: recovery recurses through the planner, but never for ever.
CommandsEnd == \A c \in CLIs : pc[c] # "idle" ~> pc[c] = "idle"

\* An open transaction ends: its own command, or a recovery, brings it to a
\* terminal phase.
TransactionEnds == Open(journal) ~> ~Open(journal)

\* Where nothing fails, and the Core was started from the TUN snapshot, a switch
\* ends although the user edits the intent under it.
SwitchEnds ==
  /\ core # NoCore /\ core.src = "snapshot"
  /\ [](faults = 0 /\ \A c \in CLIs : op[c] \in {"none", "tun-on", "tun-off", "stop"})
  => TransactionEnds
=============================================================================
