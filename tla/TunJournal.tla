----------------------------- MODULE TunJournal -----------------------------
(***************************************************************************)
(* The durable journal of a system TUN transaction and the pure functions  *)
(* the CLI and the daemon evaluate over it (src/tun_transaction.rs): the   *)
(* phase graph, the snapshot and intent classifications, the predicates    *)
(* that bind a running Core to the journal, and the recovery planner.      *)
(*                                                                         *)
(* A configuration file is abstracted to the user's own content (a counter *)
(* of the edits made so far) and its tun.enable key; a SHA-256 revision is *)
(* the configuration itself, so equal revisions are equal contents.        *)
(***************************************************************************)
EXTENDS Naturals

CONSTANTS
  MaxEdits,  \* bound: edits the user makes to the intent configuration
  MaxGen,    \* bound: transactions published (the durable generation counter)
  Pids,      \* process identifiers a Core may get
  NoFile,    \* an absent configuration file
  NoTx,      \* an absent transaction journal
  NoCore     \* no managed Core process

ASSUME BoundsAssumption == MaxEdits \in Nat /\ MaxGen \in Nat /\ Pids \subseteq Nat \ {0}

Configs == [user: 0..MaxEdits, tun: BOOLEAN]
Sources == {"active", "snapshot"}         \* active-config.yaml, tun-config.yaml
NoPid   == 0
NoGen   == 0

Phases == {"Prepared", "PromotionPending", "SnapshotPromoted", "CoreApplied",
           "IntentCommitted", "RollbackPending", "RolledBack", "RecoveryRequired"}
Terminal == {"IntentCommitted", "RolledBack"}

\* What the CLI recorded about the Core it found (OldRuntimeEvidence).
Evidence == [pid: Pids, rev: Configs, tun: BOOLEAN, src: Sources]

\* TunJournal together with the files of its active/ directory; evOk is the
\* verdict on old-runtime.json (present and hashing to old_runtime_digest).
Journals == [gen: 1..MaxGen, phase: Phases, target: BOOLEAN, base: Configs, cand: Configs,
             old: Configs \cup {NoFile}, ev: Evidence, evOk: BOOLEAN, candPid: Pids \cup {NoPid}]

Cores == [pid: Pids, rev: Configs, tun: BOOLEAN, api: BOOLEAN, src: Sources]

ASSUME NullsAssumption == NoFile \notin Configs /\ NoTx \notin Journals /\ NoCore \notin Cores

Candidate(base, target) == [base EXCEPT !.tun = target]

Open(jr) == jr # NoTx /\ jr.phase \notin Terminal

-----------------------------------------------------------------------------
\* Defect: a phase graph in which a pending rollback cannot be completed.
NoRollbackEnd(from, to) ==
  \/ from \in {"Prepared", "PromotionPending", "SnapshotPromoted", "CoreApplied"}
     /\ to \in Phases \ {"Prepared", "RolledBack"}
  \/ from = "Prepared" /\ to = "RolledBack"
  \/ from = "RollbackPending" /\ to = "RecoveryRequired"

ValidPhaseTransition(from, to) ==
  \/ /\ from = "Prepared"
     /\ to \in {"PromotionPending", "RollbackPending", "RolledBack", "RecoveryRequired"}
  \/ /\ from = "PromotionPending"
     /\ to \in {"SnapshotPromoted", "RollbackPending", "RecoveryRequired"}
  \/ /\ from = "SnapshotPromoted"
     /\ to \in {"CoreApplied", "RollbackPending", "RecoveryRequired"}
  \/ /\ from = "CoreApplied"
     /\ to \in {"IntentCommitted", "RollbackPending", "RecoveryRequired"}
  \/ /\ from = "RollbackPending"
     /\ to \in {"RolledBack", "RecoveryRequired"}
  \/ /\ from = "RecoveryRequired"
     /\ to \in Phases \ {"Prepared", "RecoveryRequired"}

ClassifySnapshot(snapshot, jr) ==
  CASE snapshot = NoFile   -> IF jr.old = NoFile THEN "Old" ELSE "Missing"
    [] snapshot = jr.cand  -> "Candidate"
    [] OTHER               -> IF snapshot = jr.old THEN "Old" ELSE "Other"

\* Defect: the intent is recognized as the candidate by its TUN key alone.
ClassifyTunKey(intent, jr) ==
  CASE intent.tun = jr.target -> "Candidate"
    [] intent = jr.base       -> "Base"
    [] OTHER                  -> "Other"

ClassifyIntent(intent, jr) ==
  CASE intent = jr.cand -> "Candidate"
    [] intent = jr.base -> "Base"
    [] OTHER            -> "Other"

\* Defect: the restored Core is recognized by its revision alone.
MatchesOldRevision(ev, core) == core # NoCore /\ core.api /\ core.rev = ev.rev

\* runtime_matches_old_evidence: the very process the evidence names.
MatchesRestoredOld(ev, core) ==
  core # NoCore /\ core.api /\ core.rev = ev.rev /\ core.tun = ev.tun
MatchesOldEvidence(ev, core) == MatchesRestoredOld(ev, core) /\ core.pid = ev.pid

\* runtime_matches_candidate: the process recorded by record_candidate_runtime.
MatchesCandidate(jr, core) ==
  core # NoCore /\ core.pid = jr.candPid /\ core.rev = jr.cand

\* The test the planner, ApplyPromotedSnapshot and AttestCurrentTransaction share.
RunsCandidate(jr, core) ==
  core # NoCore /\ core.api /\ core.rev = jr.cand /\ core.tun = jr.target

-----------------------------------------------------------------------------
(* plan_recovery for a journal this version published (legacy_source is    *)
(* false). dir is "Resume" or "Abort"; obs is the daemon's observation.    *)

PlanBeforePromotion(snap, dir) ==
  CASE snap \in {"Old", "Missing"} /\ dir = "Abort"  -> "BeginRollback"
    [] snap \in {"Old", "Missing"} /\ dir = "Resume" -> "RepairPhaseToSnapshotPromoted"
    [] snap = "Candidate"                            -> "RepairPhaseToSnapshotPromoted"
    [] OTHER                                         -> "Refuse"

PlanPromoted(jr, snap, int, obs, dir) ==
  CASE snap = "Other" -> "Refuse"
    [] snap = "Candidate" /\ RunsCandidate(jr, obs) ->
         IF int = "Candidate" THEN "FinalizeCommittedIntent" ELSE "CommitIntent"
    [] OTHER -> IF dir = "Resume" THEN "RetryApply" ELSE "BeginRollback"

PlanApplied(int, dir) ==
  CASE int = "Candidate" -> IF dir = "Resume" THEN "FinalizeCommittedIntent" ELSE "Refuse"
    [] int = "Base"      -> IF dir = "Resume" THEN "CommitIntent" ELSE "BeginRollback"
    [] OTHER             -> "BeginRollback"

PlanRequired(jr, snap, int, obs, dir) ==
  IF snap = "Other" THEN "Refuse"
  ELSE IF int = "Other" THEN "BeginRollback"
  ELSE CASE snap = "Candidate" /\ dir = "Resume" /\ RunsCandidate(jr, obs) ->
              IF int = "Candidate" THEN "FinalizeCommittedIntent" ELSE "CommitIntent"
         [] int = "Base" /\ dir = "Abort" ->
              IF snap = "Candidate" THEN "BeginRollback" ELSE "ContinueRollback"
         [] OTHER -> "Refuse"

PlanRecovery(jr, snap, int, obs, dir) ==
  CASE jr.phase \in Terminal -> "CleanupTerminal"
    [] jr.phase \in {"Prepared", "PromotionPending"} -> PlanBeforePromotion(snap, dir)
    [] jr.phase = "SnapshotPromoted" -> PlanPromoted(jr, snap, int, obs, dir)
    [] jr.phase = "CoreApplied" -> PlanApplied(int, dir)
    [] jr.phase = "RollbackPending" ->
         IF snap = "Other" \/ ~jr.evOk THEN "Refuse" ELSE "ContinueRollback"
    [] OTHER -> PlanRequired(jr, snap, int, obs, dir)
=============================================================================
