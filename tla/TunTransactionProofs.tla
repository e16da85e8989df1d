------------------------ MODULE TunTransactionProofs ------------------------
(***************************************************************************)
(* What TunTransaction guarantees for every number of commands, edits,     *)
(* transactions and faults: for any processes, and then for one at a time. *)
(***************************************************************************)
EXTENDS TunTransaction, TLAPS

\* From its journal on, a command carries a journal value, and where it needs a
\* proof from the daemon it has one.
Carries ==
  \A c \in CLIs :
    /\ pc[c] \notin {"idle", "ready", "publish"} => held[c] # NoTx
    /\ pc[c] \in {"publish", "record"} => seen[c] # NoCore

LocalsOK ==
  /\ pc \in [CLIs -> PCs] /\ op \in [CLIs -> AllOps \cup {"none"}]
  /\ role \in [CLIs -> Roles]
  /\ held \in [CLIs -> Journals \cup {NoTx}] /\ seen \in [CLIs -> Cores \cup {NoCore}]
  /\ Carries

FilesOK ==
  /\ journal \in Journals \cup {NoTx}
  /\ gate \in 0..MaxGen /\ generation \in 0..MaxGen
  /\ snapshot \in Configs \cup {NoFile} /\ activeCfg \in Configs

StateOK ==
  /\ intent \in Configs
  /\ core \in Cores \cup {NoCore}
  /\ lastEdit \in 0..MaxEdits /\ landed \in BOOLEAN /\ faults \in 0..MaxFaults
  /\ past \in [stuck : 0..MaxGen, sole : BOOLEAN]

Typed == LocalsOK /\ FilesOK /\ StateOK

-----------------------------------------------------------------------------
(* The ways a command's own state changes.                                 *)

LEMMA ExitTyped ==
  ASSUME LocalsOK, NEW c \in CLIs, Exit(c)
  PROVE  LocalsOK'
BY DEF LocalsOK, Carries, Exit, Goto, PCs, Roles, AllOps

LEMMA GotoTyped ==
  ASSUME LocalsOK, NEW c \in CLIs, NEW l \in PCs \ {"publish", "record"},
         pc[c] \notin {"idle", "ready", "publish"}, Goto(c, l), UNCHANGED locals
  PROVE  LocalsOK'
BY DEF LocalsOK, Carries, Goto, PCs, locals

LEMMA FailTyped ==
  ASSUME LocalsOK, NEW c \in CLIs, pc[c] \notin {"idle", "ready", "publish"}, Fail(c)
  PROVE  LocalsOK'
<1>1. CASE Exit(c)
  BY <1>1, ExitTyped
<1>2. CASE Goto(c, "markRequired") /\ UNCHANGED locals
  BY <1>2, GotoTyped DEF PCs
<1> QED BY <1>1, <1>2 DEF Fail

LEMMA RecoveredTyped ==
  ASSUME LocalsOK, NEW c \in CLIs, Recovered(c)
  PROVE  LocalsOK'
BY DEF LocalsOK, Carries, Recovered, Goto, PCs, Roles, AllOps

-----------------------------------------------------------------------------
(* A started Core is a Core.                                               *)

LEMMA LaunchedTyped ==
  ASSUME NEW src \in Sources, NEW cfg \in Configs, NEW tun \in BOOLEAN, Launched(src, cfg, tun)
  PROVE  core' \in Cores
BY DEF Launched, FreshPids, Cores

LEMMA ConfigTun == ASSUME NEW cfg \in Configs PROVE cfg.tun \in BOOLEAN
BY DEF Configs

LEMMA StartsTyped ==
  ASSUME StateOK, NEW src \in Sources, NEW cfg \in Configs
  PROVE  /\ StartsAsAsked(src, cfg) => core' \in Cores /\ faults' \in 0..MaxFaults
         /\ StartsWrong(src, cfg) => core' \in Cores \cup {NoCore} /\ faults' \in 0..MaxFaults
<1>1. StartsAsAsked(src, cfg) => core' \in Cores /\ faults' \in 0..MaxFaults
  BY LaunchedTyped, ConfigTun DEF StartsAsAsked, StateOK
<1>2. Fault => faults' \in 0..MaxFaults
  BY OpsAssumption DEF Fault, StateOK
<1>3. StartsWrong(src, cfg) => core' \in Cores \cup {NoCore} /\ faults' \in 0..MaxFaults
  BY <1>2, LaunchedTyped DEF StartsWrong
<1> QED BY <1>1, <1>3

LEMMA FaultTyped == ASSUME StateOK, Fault PROVE faults' \in 0..MaxFaults
BY OpsAssumption DEF Fault, StateOK

LEMMA PhaseTyped ==
  ASSUME NEW jr \in Journals, NEW phase \in Phases
  PROVE  [jr EXCEPT !.phase = phase] \in Journals
BY DEF Journals

LEMMA CasTargetTyped == ASSUME NEW l \in CasPCs PROVE CasTarget(l) \in Phases
BY DEF CasPCs, CasTarget, Phases

-----------------------------------------------------------------------------
(* Every step keeps the types.                                             *)

LEMMA InvokeTyped == ASSUME Typed, NEW c \in CLIs, Invoke(c) PROVE Typed'
<1>1. LocalsOK'
  BY OpsAssumption, NullsAssumption
  DEF Typed, LocalsOK, FilesOK, Carries, Invoke, Goto, PCs, Roles, AllOps
<1>2. FilesOK' /\ StateOK'
  BY DEF Typed, FilesOK, StateOK, Invoke, files
<1> QED BY <1>1, <1>2 DEF Typed

LEMMA ObserveTyped == ASSUME Typed, NEW c \in CLIs, Observe(c) PROVE Typed'
<1>1. LocalsOK'
  BY DEF Typed, LocalsOK, StateOK, Carries, Observe, Observation, Goto, PCs
<1>2. FilesOK' /\ StateOK'
  BY DEF Typed, FilesOK, StateOK, Observe, files
<1> QED BY <1>1, <1>2 DEF Typed

LEMMA PlanTyped == ASSUME Typed, NEW c \in CLIs, Plan(c) PROVE Typed'
<1>1. LocalsOK'
  <2>1. pc[c] \notin {"idle", "ready", "publish"}
    BY DEF Plan
  <2>2. CASE RouteRefusal(c)
    <3>1. CASE Exit(c)
      BY <3>1, ExitTyped DEF Typed
    <3>2. CASE Goto(c, "resetStop") /\ UNCHANGED locals
      BY <3>2, <2>1, GotoTyped DEF Typed, PCs
    <3> QED BY <2>2, <3>1, <3>2 DEF RouteRefusal
  <2>3. ASSUME NEW action, Goto(c, PlannedStep(c, action)), UNCHANGED locals
        PROVE  LocalsOK'
    <3>1. PlannedStep(c, action) \in PCs \ {"publish", "record"}
      BY DEF PlannedStep, PCs
    <3> QED BY <2>1, <2>3, <3>1, GotoTyped DEF Typed
  <2> QED BY <2>2, <2>3 DEF Plan
<1>2. FilesOK' /\ StateOK'
  BY DEF Typed, FilesOK, StateOK, Plan, files
<1> QED BY <1>1, <1>2 DEF Typed

LEMMA AdvancePhaseTyped == ASSUME Typed, NEW c \in CLIs, AdvancePhase(c) PROVE Typed'
<1>1. journal' \in Journals
  <2>1. journal \in Journals /\ CasTarget(pc[c]) \in Phases
    BY CasTargetTyped DEF AdvancePhase, CasPossible, Fenced, Typed, FilesOK
  <2> QED BY <2>1, PhaseTyped DEF AdvancePhase
<1>2. LocalsOK'
  <2>1. CASE Exit(c)
    BY <2>1, ExitTyped DEF Typed
  <2>2. CASE ~Exit(c)
    <3>1. /\ held' = [held EXCEPT ![c] = journal']
          /\ Goto(c, AfterCas(c)) /\ UNCHANGED <<op, role, seen>>
      BY <2>2 DEF AdvancePhase
    <3>2. AfterCas(c) \in PCs \ {"publish", "record"}
      BY DEF AfterCas, PCs
    <3> QED BY <1>1, <3>1, <3>2, NullsAssumption DEF Typed, LocalsOK, Carries, Goto
  <2> QED BY <2>1, <2>2
<1>3. FilesOK' /\ StateOK'
  BY <1>1 DEF Typed, FilesOK, StateOK, AdvancePhase
<1> QED BY <1>2, <1>3 DEF Typed

LEMMA CasRejectedTyped == ASSUME Typed, NEW c \in CLIs, CasRejected(c) PROVE Typed'
<1>1. pc[c] \notin {"idle", "ready", "publish"}
  BY DEF CasRejected, CasPCs
<1>2. LocalsOK'
  <2>1. CASE Fail(c)
    BY <1>1, <2>1, FailTyped DEF Typed
  <2>2. CASE Goto(c, "cleanGate") /\ UNCHANGED locals
    BY <1>1, <2>2, GotoTyped DEF Typed, PCs
  <2> QED BY <2>1, <2>2 DEF CasRejected
<1>3. FilesOK' /\ StateOK'
  BY DEF Typed, FilesOK, StateOK, CasRejected, files
<1> QED BY <1>2, <1>3 DEF Typed

LEMMA CollectEvidenceTyped == ASSUME Typed, NEW c \in CLIs, CollectEvidence(c) PROVE Typed'
<1>1. LocalsOK'
  <2>1. CASE core = NoCore
    BY <2>1, ExitTyped DEF CollectEvidence, Typed
  <2>2. CASE core # NoCore
    <3>1. [core EXCEPT !.tun = core.tun /\ core.api] \in Cores
      BY <2>2 DEF Typed, StateOK, Cores
    <3> QED BY <2>2, <3>1, NullsAssumption
        DEF CollectEvidence, Typed, LocalsOK, Carries, Goto, PCs, Roles
  <2> QED BY <2>1, <2>2
<1>2. FilesOK' /\ StateOK'
  BY DEF Typed, FilesOK, StateOK, CollectEvidence, files
<1> QED BY <1>1, <1>2 DEF Typed

LEMMA CandidateTyped ==
  ASSUME NEW base \in Configs, NEW target \in BOOLEAN
  PROVE  /\ Candidate(base, target) \in Configs
         /\ Candidate(base, target).user = base.user
BY DEF Candidate, Configs

LEMMA PublishedTyped ==
  ASSUME Typed, NEW c \in CLIs, Publish(c)
  PROVE  /\ intent' \in Configs /\ lastEdit' \in 0..MaxEdits
         /\ generation' \in 1..MaxGen /\ journal' \in Journals
<1>1. intent' \in Configs /\ lastEdit' \in 0..MaxEdits
  BY BoundsAssumption DEF Publish, Typed, StateOK, Configs
<1>2. generation' \in 1..MaxGen
  BY BoundsAssumption DEF Publish, Typed, FilesOK
<1>3. seen[c] \in Cores
  BY DEF Publish, Typed, LocalsOK, Carries
<1>4. journal' \in Journals
  <2>1. Candidate(intent', Target(c)) \in Configs /\ Target(c) \in BOOLEAN
    BY <1>1, CandidateTyped DEF Target
  <2>2. [pid |-> seen[c].pid, rev |-> seen[c].rev, tun |-> seen[c].tun, src |-> "snapshot"]
          \in Evidence
    BY <1>3 DEF Cores, Evidence, Sources
  <2>3. snapshot \in Configs \cup {NoFile}
    BY DEF Typed, FilesOK
  <2> QED BY <1>1, <1>2, <2>1, <2>2, <2>3 DEF Publish, Journals, Phases
<1> QED BY <1>1, <1>2, <1>4

LEMMA PublishTyped == ASSUME Typed, NEW c \in CLIs, Publish(c) PROVE Typed'
<1>1. intent' \in Configs /\ lastEdit' \in 0..MaxEdits
  BY PublishedTyped
<1>2. generation' \in 1..MaxGen
  BY PublishedTyped
<1>4. journal' \in Journals
  BY PublishedTyped
<1>5. landed' \in BOOLEAN
  BY DEF Publish
<1>6. CASE /\ gate' = generation' /\ held' = [held EXCEPT ![c] = journal']
           /\ Goto(c, "validate")
           /\ seen' = [seen EXCEPT ![c] = NoCore]
           /\ UNCHANGED <<op, role, faults>>
  <2>1. LocalsOK'
    BY <1>4, <1>6, NullsAssumption DEF Typed, LocalsOK, Carries, Goto, PCs
  <2>2. gate' \in 0..MaxGen
    BY <1>2, <1>6, BoundsAssumption
  <2> QED BY <1>1, <1>2, <1>4, <1>5, <1>6, <2>1, <2>2 DEF Publish, Typed, FilesOK, StateOK
<1>7. CASE Fault /\ Exit(c) /\ UNCHANGED gate
  <2>1. LocalsOK' /\ faults' \in 0..MaxFaults
    BY <1>7, ExitTyped, FaultTyped DEF Typed
  <2> QED BY <1>1, <1>2, <1>4, <1>5, <1>7, <2>1 DEF Publish, Typed, FilesOK, StateOK
<1> QED BY <1>6, <1>7 DEF Publish

LEMMA PublishRefusedTyped == ASSUME Typed, NEW c \in CLIs, PublishRefused(c) PROVE Typed'
BY ExitTyped DEF PublishRefused, Typed, FilesOK, StateOK, files

LEMMA ValidateTyped == ASSUME Typed, NEW c \in CLIs, Validate(c) PROVE Typed'
<1>1. LocalsOK'
  BY GotoTyped DEF Validate, Typed, PCs
<1>2. FilesOK' /\ StateOK'
  BY DEF Typed, FilesOK, StateOK, Validate, files
<1> QED BY <1>1, <1>2 DEF Typed

LEMMA PromoteCheckTyped == ASSUME Typed, NEW c \in CLIs, PromoteCheck(c) PROVE Typed'
<1>1. LocalsOK'
  BY GotoTyped DEF PromoteCheck, Typed, PCs
<1>2. FilesOK' /\ StateOK'
  BY DEF Typed, FilesOK, StateOK, PromoteCheck, files
<1> QED BY <1>1, <1>2 DEF Typed

LEMMA HeldTyped ==
  ASSUME Typed, NEW c \in CLIs, pc[c] \notin {"idle", "ready", "publish"}
  PROVE  held[c] \in Journals
BY DEF Typed, LocalsOK, Carries

LEMMA PromoteWriteTyped == ASSUME Typed, NEW c \in CLIs, PromoteWrite(c) PROVE Typed'
<1>1. LocalsOK'
  BY GotoTyped DEF PromoteWrite, Typed, PCs
<1>2. snapshot' \in Configs
  BY HeldTyped DEF PromoteWrite, Journals
<1>3. FilesOK' /\ StateOK'
  BY <1>2 DEF Typed, FilesOK, StateOK, PromoteWrite
<1> QED BY <1>1, <1>3 DEF Typed

LEMMA ApplyTyped == ASSUME Typed, NEW c \in CLIs, Apply(c) PROVE Typed'
<1>1. pc[c] = "apply"
  BY DEF Apply
<1>2. ApplyRefused(c) => LocalsOK'
  BY <1>1, ExitTyped, GotoTyped DEF ApplyRefused, Typed, PCs
<1>3. FilesOK' /\ UNCHANGED <<intent, lastEdit, landed, past>>
  BY DEF Apply, Typed, FilesOK, files
<1>4. CASE ~ApplyAdmitted(c) /\ ApplyRefused(c) /\ UNCHANGED <<core, faults>>
  BY <1>2, <1>3, <1>4 DEF Typed, StateOK
<1>5. ApplyAdmitted(c) => snapshot \in Configs
  BY DEF ApplyAdmitted, Typed, FilesOK, Journals
<1>6. CASE /\ ApplyAdmitted(c)
           /\ IF RunsCandidate(journal, core)
              THEN UNCHANGED <<core, faults>>
              ELSE StartsAsAsked("snapshot", snapshot)
           /\ seen' = [seen EXCEPT ![c] = core']
           /\ Goto(c, "record") /\ UNCHANGED <<op, role, held>>
  <2>1. core' \in Cores /\ faults' \in 0..MaxFaults
    BY <1>5, <1>6, StartsTyped DEF Typed, StateOK, RunsCandidate, Sources
  <2>2. LocalsOK'
    BY <1>1, <1>6, <2>1, NullsAssumption DEF Typed, LocalsOK, Carries, Goto, PCs
  <2> QED BY <1>3, <2>1, <2>2 DEF Typed, StateOK
<1>7. CASE /\ ApplyAdmitted(c) /\ ~RunsCandidate(journal, core)
           /\ StartsWrong("snapshot", snapshot) /\ ApplyRefused(c)
  <2>1. core' \in Cores \cup {NoCore} /\ faults' \in 0..MaxFaults
    BY <1>5, <1>7, StartsTyped DEF Typed, Sources
  <2> QED BY <1>2, <1>3, <1>7, <2>1 DEF Typed, StateOK
<1> QED BY <1>4, <1>6, <1>7 DEF Apply

LEMMA RecordTyped == ASSUME Typed, NEW c \in CLIs, Record(c) PROVE Typed'
<1>1. pc[c] = "record"
  BY DEF Record
<1>2. CASE Fenced(c)
  <2>1. seen[c] \in Cores /\ journal \in Journals
    BY <1>1, <1>2 DEF Typed, LocalsOK, FilesOK, Carries, Fenced
  <2>2. journal' = [journal EXCEPT !.candPid = seen[c].pid]
    BY <1>2 DEF Record
  <2>3. journal' \in Journals
    BY <2>1, <2>2 DEF Journals, Cores
  <2>4. LocalsOK'
    BY <1>1, <1>2, <2>3, NullsAssumption DEF Record, Typed, LocalsOK, Carries, Goto, PCs
  <2> QED BY <2>3, <2>4 DEF Record, Typed, FilesOK, StateOK
<1>3. CASE ~Fenced(c)
  BY <1>1, <1>3, FailTyped DEF Record, Typed, FilesOK, StateOK
<1> QED BY <1>2, <1>3

LEMMA CommitTyped == ASSUME Typed, NEW c \in CLIs, Commit(c) PROVE Typed'
<1>1. pc[c] = "commit" /\ held[c] \in Journals
  BY HeldTyped DEF Commit
<1>2. intent' \in Configs /\ landed' \in BOOLEAN
  BY <1>1 DEF Commit, Typed, StateOK, Journals
<1>3. FilesOK' /\ StateOK'
  BY <1>2 DEF Commit, Typed, FilesOK, StateOK, files
<1>4. LocalsOK'
  <2>1. Exit(c) \/ Fail(c) => LocalsOK'
    BY <1>1, ExitTyped, FailTyped DEF Typed
  <2>2. ASSUME NEW l \in {"casCommitted", "attest"}, Goto(c, l), UNCHANGED locals
        PROVE  LocalsOK'
    BY <1>1, <2>2, GotoTyped DEF Typed, PCs
  <2>3. ASSUME role' = [role EXCEPT ![c] = "conflict"], Goto(c, "casRollback"),
               UNCHANGED <<op, held, seen>>
        PROVE  LocalsOK'
    BY <1>1, <2>3 DEF Typed, LocalsOK, Carries, Goto, PCs, Roles
  <2> QED BY <2>1, <2>2, <2>3 DEF Commit
<1> QED BY <1>3, <1>4 DEF Typed

LEMMA AttestTyped == ASSUME Typed, NEW c \in CLIs, Attest(c) PROVE Typed'
<1>1. pc[c] = "attest" /\ (Fail(c) \/ (Goto(c, "casCommitted") /\ UNCHANGED locals))
  BY DEF Attest
<1>2. LocalsOK'
  BY <1>1, FailTyped, GotoTyped DEF Typed, PCs
<1>3. FilesOK' /\ StateOK'
  BY DEF Attest, Typed, FilesOK, StateOK, files
<1> QED BY <1>2, <1>3 DEF Typed

LEMMA QuiesceTyped == ASSUME Typed, NEW c \in CLIs, Quiesce(c) PROVE Typed'
<1>1. pc[c] = "quiesce" /\ (Fail(c) \/ (Goto(c, "restoreSnapshot") /\ UNCHANGED locals))
  BY DEF Quiesce
<1>2. LocalsOK'
  BY <1>1, FailTyped, GotoTyped DEF Typed, PCs
<1>3. FilesOK' /\ StateOK'
  BY DEF Quiesce, Typed, FilesOK, StateOK, files
<1> QED BY <1>2, <1>3 DEF Typed

LEMMA RestoreSnapshotTyped == ASSUME Typed, NEW c \in CLIs, RestoreSnapshot(c) PROVE Typed'
<1>1. /\ pc[c] = "restoreSnapshot" /\ held[c] \in Journals
      /\ Fail(c) \/ (Goto(c, "restoreRuntime") /\ UNCHANGED locals)
  BY HeldTyped DEF RestoreSnapshot
<1>2. LocalsOK'
  BY <1>1, FailTyped, GotoTyped DEF Typed, PCs
<1>3. snapshot' \in Configs \cup {NoFile}
  BY <1>1 DEF RestoreSnapshot, SavedSnapshot, Typed, FilesOK, Journals
<1>4. FilesOK' /\ StateOK'
  BY <1>3 DEF RestoreSnapshot, Typed, FilesOK, StateOK
<1> QED BY <1>2, <1>4 DEF Typed

LEMMA RestoreRuntimeTyped == ASSUME Typed, NEW c \in CLIs, RestoreRuntime(c) PROVE Typed'
<1>1. pc[c] = "restoreRuntime" /\ (Fail(c) \/ (Goto(c, "casRolledBack") /\ UNCHANGED locals))
  BY DEF RestoreRuntime
<1>2. LocalsOK'
  BY <1>1, FailTyped, GotoTyped DEF Typed, PCs
<1>3. RestoreAdmitted(c) => journal.ev.rev \in Configs /\ journal.ev.src \in Sources
  BY DEF RestoreAdmitted, Fenced, Typed, FilesOK, Journals, Evidence
<1>4. core' \in Cores \cup {NoCore} /\ faults' \in 0..MaxFaults
  BY <1>3, StartsTyped DEF RestoreRuntime, Typed, StateOK
<1>5. FilesOK' /\ StateOK'
  BY <1>4 DEF RestoreRuntime, Typed, FilesOK, StateOK, files
<1> QED BY <1>2, <1>5 DEF Typed

LEMMA MarkRequiredTyped == ASSUME Typed, NEW c \in CLIs, MarkRequired(c) PROVE Typed'
<1>1. journal' \in Journals \cup {NoTx}
  <2>1. Open(journal) => [journal EXCEPT !.phase = "RecoveryRequired"] \in Journals
    BY PhaseTyped DEF Open, Typed, FilesOK, Phases
  <2> QED BY <2>1 DEF MarkRequired, Typed, FilesOK
<1>2. LocalsOK'
  BY ExitTyped DEF MarkRequired, Typed
<1>3. FilesOK' /\ StateOK'
  BY <1>1 DEF MarkRequired, Typed, FilesOK, StateOK
<1> QED BY <1>2, <1>3 DEF Typed

LEMMA RemoveGateTyped ==
  ASSUME Typed, NEW c \in CLIs, RemoveGate(c)
  PROVE  /\ gate' \in 0..MaxGen /\ faults' \in 0..MaxFaults
         /\ past' \in [stuck : 0..MaxGen, sole : BOOLEAN]
<1>1. gate \in 0..MaxGen /\ GateWithout(held[c].gen) \in 0..MaxGen
  BY BoundsAssumption DEF GateWithout, NoGen, Typed, FilesOK
<1> QED BY <1>1, FaultTyped DEF RemoveGate, Typed, StateOK

LEMMA CleanGateTyped == ASSUME Typed, NEW c \in CLIs, CleanGate(c) PROVE Typed'
<1>1. LocalsOK'
  BY GotoTyped DEF CleanGate, Typed, PCs
<1>2. FilesOK' /\ StateOK'
  BY RemoveGateTyped DEF CleanGate, Typed, FilesOK, StateOK
<1> QED BY <1>1, <1>2 DEF Typed

LEMMA CleanActiveTyped == ASSUME Typed, NEW c \in CLIs, CleanActive(c) PROVE Typed'
<1>1. LocalsOK'
  BY ExitTyped, RecoveredTyped DEF CleanActive, Typed
<1>2. FilesOK' /\ StateOK'
  BY DEF CleanActive, Typed, FilesOK, StateOK
<1> QED BY <1>1, <1>2 DEF Typed

LEMMA ResetStopTyped == ASSUME Typed, NEW c \in CLIs, ResetStop(c) PROVE Typed'
<1>1. LocalsOK'
  <2>1. Exit(c) \/ Recovered(c) => LocalsOK'
    BY ExitTyped, RecoveredTyped DEF Typed
  <2>2. ASSUME journal # NoTx, held' = [held EXCEPT ![c] = journal], Goto(c, "resetGate"),
               UNCHANGED <<op, role, seen>>
        PROVE  LocalsOK'
    BY <2>2 DEF Typed, LocalsOK, FilesOK, Carries, Goto, PCs
  <2> QED BY <2>1, <2>2 DEF ResetStop
<1>2. core' \in Cores \cup {NoCore} /\ faults' \in 0..MaxFaults
  BY FaultTyped DEF ResetStop, Typed, StateOK
<1>3. FilesOK' /\ StateOK'
  BY <1>2 DEF ResetStop, Typed, FilesOK, StateOK, files
<1> QED BY <1>1, <1>3 DEF Typed

LEMMA ResetGateTyped == ASSUME Typed, NEW c \in CLIs, ResetGate(c) PROVE Typed'
<1>1. LocalsOK'
  BY GotoTyped DEF ResetGate, Typed, PCs
<1>2. FilesOK' /\ StateOK'
  BY RemoveGateTyped DEF ResetGate, Typed, FilesOK, StateOK
<1> QED BY <1>1, <1>2 DEF Typed

LEMMA ResetSnapshotTyped == ASSUME Typed, NEW c \in CLIs, ResetSnapshot(c) PROVE Typed'
<1>1. LocalsOK'
  BY GotoTyped DEF ResetSnapshot, Typed, PCs
<1>2. FilesOK' /\ StateOK'
  BY DEF ResetSnapshot, Typed, FilesOK, StateOK
<1> QED BY <1>1, <1>2 DEF Typed

LEMMA ResetActiveTyped == ASSUME Typed, NEW c \in CLIs, ResetActive(c) PROVE Typed'
<1>1. LocalsOK'
  BY ExitTyped, RecoveredTyped DEF ResetActive, Typed
<1>2. FilesOK' /\ StateOK'
  BY DEF ResetActive, Typed, FilesOK, StateOK
<1> QED BY <1>1, <1>2 DEF Typed

\* The file a lifecycle command or the daemon starts the Core from.
LEMMA BootFileTyped ==
  ASSUME FilesOK, NEW src, src = IF snapshot # NoFile /\ snapshot.tun THEN "snapshot" ELSE "active"
  PROVE  src \in Sources /\ SourceFile(src) \in Configs
BY DEF FilesOK, SourceFile, Sources

LEMMA PromoteTyped == ASSUME Typed, NEW c \in CLIs, Promote(c) PROVE Typed'
<1> DEFINE src == IF snapshot # NoFile /\ snapshot.tun THEN "snapshot" ELSE "active"
           old == SourceFile(src)
           new == IF src = "snapshot" THEN [intent EXCEPT !.tun = TRUE] ELSE intent
<1>1. src \in Sources /\ old \in Configs
  BY BootFileTyped DEF Typed
<1>2. new \in Configs /\ intent \in Configs
  BY DEF Typed, StateOK, Configs
<1>3. LocalsOK'
  BY ExitTyped DEF Promote, Typed
<1>4. ASSUME NEW cfg \in Configs, Write(src, cfg)
      PROVE  snapshot' \in Configs \cup {NoFile} /\ activeCfg' \in Configs
  BY <1>4 DEF Write, Typed, FilesOK
<1>5. /\ core' \in Cores \cup {NoCore} /\ faults' \in 0..MaxFaults
      /\ snapshot' \in Configs \cup {NoFile} /\ activeCfg' \in Configs
  <2>1. CASE UNCHANGED <<snapshot, activeCfg, core, faults>>
    BY <2>1 DEF Typed, FilesOK, StateOK
  <2>2. CASE (StartsAsAsked(src, new) \/ StartsWrong(src, new)) /\ Write(src, new)
    BY <1>1, <1>2, <1>4, <2>2, StartsTyped DEF Typed
  <2>3. CASE StartsAsAsked(src, old) /\ Write(src, old)
    BY <1>1, <1>4, <2>3, StartsTyped DEF Typed
  <2>4. CASE Fault /\ (core' = NoCore \/ Launched(src, old, old.tun)) /\ Write(src, old)
    BY <1>1, <1>4, <2>4, FaultTyped, LaunchedTyped, ConfigTun DEF Typed
  <2> QED BY <2>1, <2>2, <2>3, <2>4 DEF Promote
<1>6. FilesOK' /\ StateOK'
  BY <1>5 DEF Promote, Typed, FilesOK, StateOK
<1> QED BY <1>3, <1>6 DEF Typed

LEMMA StopCoreTyped == ASSUME Typed, NEW c \in CLIs, StopCore(c) PROVE Typed'
BY ExitTyped DEF StopCore, Typed, FilesOK, StateOK, files

LEMMA CrashTyped == ASSUME Typed, NEW c \in CLIs, Crash(c) PROVE Typed'
BY ExitTyped, FaultTyped DEF Crash, Typed, FilesOK, StateOK, files

LEMMA EnvironmentTyped ==
  ASSUME Typed, Edit \/ CoreExits \/ EvidenceLost \/ Reboot PROVE Typed'
<1>1. CASE Edit
  <2>1. intent' \in Configs /\ lastEdit' \in 0..MaxEdits
    BY <1>1, BoundsAssumption DEF Edit, Typed, StateOK, Configs
  <2> QED BY <1>1, <2>1 DEF Edit, Typed, LocalsOK, FilesOK, StateOK, Carries, files, locals
<1>2. CASE CoreExits
  <2>1. core' \in Cores \cup {NoCore} /\ faults' \in 0..MaxFaults
    BY <1>2, FaultTyped DEF CoreExits, Typed, StateOK, Cores
  <2> QED BY <1>2, <2>1 DEF CoreExits, Typed, LocalsOK, FilesOK, StateOK, Carries, files, locals
<1>3. CASE EvidenceLost
  <2>1. journal' \in Journals /\ faults' \in 0..MaxFaults
    BY <1>3, FaultTyped DEF EvidenceLost, Typed, FilesOK, Journals
  <2> QED BY <1>3, <2>1 DEF EvidenceLost, Typed, LocalsOK, FilesOK, StateOK, Carries, locals
<1>4. CASE Reboot
  <2>1. core' \in Cores \cup {NoCore} /\ faults' \in 0..MaxFaults
    BY <1>4, FaultTyped, LaunchedTyped, BootFileTyped, ConfigTun DEF Reboot, Typed
  <2>2. LocalsOK'
    BY <1>4, NullsAssumption DEF Reboot, LocalsOK, Carries, PCs, Roles
  <2> QED BY <1>4, <2>1, <2>2 DEF Reboot, Typed, FilesOK, StateOK, files
<1> QED BY <1>1, <1>2, <1>3, <1>4

LEMMA StepTyped == ASSUME Typed, NEW c \in CLIs, Step(c) PROVE Typed'
BY ObserveTyped, PlanTyped, AdvancePhaseTyped, CasRejectedTyped, CollectEvidenceTyped,
   PublishTyped, PublishRefusedTyped, ValidateTyped, PromoteCheckTyped, PromoteWriteTyped,
   ApplyTyped, RecordTyped, CommitTyped, AttestTyped, QuiesceTyped, RestoreSnapshotTyped,
   RestoreRuntimeTyped, MarkRequiredTyped, CleanGateTyped, CleanActiveTyped, ResetStopTyped,
   ResetGateTyped, ResetSnapshotTyped, ResetActiveTyped, PromoteTyped, StopCoreTyped
   DEF Step

LEMMA NextTyped == ASSUME Typed, [Next]_vars PROVE Typed'
<1>1. CASE UNCHANGED vars
  BY <1>1 DEF Typed, LocalsOK, FilesOK, StateOK, Carries, vars, files, locals
<1>2. CASE Next
  BY <1>2, InvokeTyped, StepTyped, CrashTyped, EnvironmentTyped DEF Next
<1> QED BY <1>1, <1>2

LEMMA InitTyped == ASSUME Init PROVE Typed
<1>1. LocalsOK
  BY NullsAssumption DEF Init, LocalsOK, Carries, PCs, Roles
<1>2. intent \in Configs /\ intent.tun \in BOOLEAN
  BY BoundsAssumption DEF Init, Configs
<1>3. activeCfg \in Configs
  BY BoundsAssumption DEF Init, Configs
<1>4. core \in Cores
  BY <1>2 DEF Init, Cores
<1>5. FilesOK
  <2>1. snapshot \in Configs \cup {NoFile}
    BY <1>2 DEF Init
  <2>2. journal = NoTx /\ gate = 0 /\ generation = 0
    BY DEF Init, NoGen
  <2>3. 0 \in 0..MaxGen
    BY BoundsAssumption
  <2> QED BY <1>3, <2>1, <2>2, <2>3 DEF FilesOK
<1>6. StateOK
  <2>1. lastEdit = 0 /\ landed = FALSE /\ faults = 0
    BY DEF Init
  <2>2. lastEdit \in 0..MaxEdits /\ faults \in 0..MaxFaults
    BY <2>1, BoundsAssumption, OpsAssumption
  <2>3. past \in [stuck : 0..MaxGen, sole : BOOLEAN]
    BY BoundsAssumption DEF Init, NoGen
  <2> QED BY <1>2, <1>4, <2>1, <2>2, <2>3 DEF StateOK
<1> QED BY <1>1, <1>5, <1>6 DEF Typed

LEMMA AlwaysTyped == Spec => []Typed
<1>1. Init => Typed
  BY InitTyped
<1>2. Typed /\ [Next]_vars => Typed'
  BY NextTyped
<1> QED BY <1>1, <1>2, PTL DEF Spec

\* Type correctness: no reachable state holds a value the code cannot hold.
THEOREM TypeCorrect == Spec => []TypeOK
<1>1. Typed => TypeOK
  BY DEF Typed, LocalsOK, FilesOK, StateOK, TypeOK
<1> QED BY <1>1, AlwaysTyped, PTL

-----------------------------------------------------------------------------
(* What the planner's verdicts imply.                                      *)

\* Finalizing presupposes that the intent was seen to be the candidate.
LEMMA FinalizeNeedsCandidate ==
  ASSUME NEW jr, NEW snap, NEW int, NEW obs, NEW dir,
         PlanRecovery(jr, snap, int, obs, dir) = "FinalizeCommittedIntent"
  PROVE  int = "Candidate"
<1>1. CASE jr.phase \in Terminal
  BY <1>1 DEF PlanRecovery, Terminal
<1>2. CASE jr.phase \in {"Prepared", "PromotionPending"}
  <2>1. PlanBeforePromotion(snap, dir) # "FinalizeCommittedIntent"
    BY DEF PlanBeforePromotion
  <2> QED BY <1>2, <2>1 DEF PlanRecovery, Terminal
<1>3. CASE jr.phase = "SnapshotPromoted"
  <2>1. PlanPromoted(jr, snap, int, obs, dir) = "FinalizeCommittedIntent"
    BY <1>3 DEF PlanRecovery, Terminal
  <2> QED BY <2>1 DEF PlanPromoted
<1>4. CASE jr.phase = "CoreApplied"
  <2>1. PlanApplied(int, dir) = "FinalizeCommittedIntent"
    BY <1>4 DEF PlanRecovery, Terminal
  <2> QED BY <2>1 DEF PlanApplied
<1>5. CASE jr.phase = "RollbackPending"
  BY <1>5 DEF PlanRecovery, Terminal
<1>6. CASE jr.phase \notin Terminal \cup {"Prepared", "PromotionPending", "SnapshotPromoted",
                                         "CoreApplied", "RollbackPending"}
  <2>1. PlanRequired(jr, snap, int, obs, dir) = "FinalizeCommittedIntent"
    BY <1>6 DEF PlanRecovery
  <2> QED BY <2>1 DEF PlanRequired
<1> QED BY <1>1, <1>2, <1>3, <1>4, <1>5, <1>6

\* A transaction that ended is only ever cleaned up.
LEMMA CommitNeedsOpen ==
  ASSUME NEW jr, NEW snap, NEW int, NEW obs, NEW dir,
         PlanRecovery(jr, snap, int, obs, dir) = "CommitIntent"
  PROVE  jr.phase \notin Terminal
BY DEF PlanRecovery, Terminal

-----------------------------------------------------------------------------
(* The inductive invariant behind the edit and commit guarantees.          *)

\* The active journal: where its candidate comes from, and what it says of the intent.
JournalHistory ==
  journal # NoTx =>
    /\ journal.gen <= generation
    /\ journal.cand = Candidate(journal.base, journal.target)
    /\ journal.base.user <= lastEdit
    /\ intent = journal.cand => landed
    /\ journal.phase = "IntentCommitted" => landed

\* A journal value a command carries is one of the active journal's generation,
\* or an older one.
HeldHistory ==
  \A c \in CLIs : held[c] # NoTx =>
    /\ held[c].gen <= generation
    /\ held[c].cand = Candidate(held[c].base, held[c].target)
    /\ journal # NoTx /\ journal.gen = held[c].gen =>
         journal.base = held[c].base /\ journal.cand = held[c].cand

\* About to commit the intent: the transaction is open.  About to report it: the
\* candidate has landed.
CommitHistory ==
  \A c \in CLIs :
    /\ pc[c] = "commit" => held[c].phase \notin Terminal
    /\ pc[c] \in {"attest", "casCommitted"} /\ journal # NoTx /\ journal.gen = held[c].gen
         => landed

History == NoLostEdit /\ JournalHistory /\ HeldHistory /\ CommitHistory

\* Steps that change nothing History is about, except where one command is.
QuietMove(c) ==
  /\ UNCHANGED <<journal, intent, lastEdit, landed, generation>>
  /\ \E l \in PCs \ {"commit", "attest", "casCommitted"} : Goto(c, l)
  /\ \/ held' = held
     \/ held' = [held EXCEPT ![c] = NoTx]
     \/ journal # NoTx /\ held' = [held EXCEPT ![c] = journal]

LEMMA QuietHistory ==
  ASSUME Typed, History, NEW c \in CLIs, QuietMove(c) PROVE History'
<1>1. \A d \in CLIs : pc'[d] = pc[d] \/ pc'[d] \notin {"commit", "attest", "casCommitted"}
  BY DEF QuietMove, Goto, Typed, LocalsOK
<1>2. \A d \in CLIs :
        \/ held'[d] = held[d]
        \/ held'[d] = NoTx
        \/ held'[d] = journal /\ journal # NoTx
  BY DEF QuietMove, Typed, LocalsOK, Carries
<1>3. \A d \in CLIs : d # c => pc'[d] = pc[d] /\ held'[d] = held[d]
  BY DEF QuietMove, Goto, Typed, LocalsOK
<1>4. pc'[c] \notin {"commit", "attest", "casCommitted"}
  BY DEF QuietMove, Goto, Typed, LocalsOK
<1>5. NoLostEdit' /\ JournalHistory'
  BY DEF QuietMove, History, NoLostEdit, JournalHistory
<1>6. HeldHistory'
  BY <1>2 DEF QuietMove, History, HeldHistory, JournalHistory
<1>7. CommitHistory'
  BY <1>3, <1>4 DEF QuietMove, History, CommitHistory
<1> QED BY <1>5, <1>6, <1>7 DEF History

LEMMA QuietExit ==
  ASSUME NEW c \in CLIs, Exit(c) \/ Recovered(c) \/ Fail(c),
         UNCHANGED <<journal, intent, lastEdit, landed, generation>>
  PROVE  QuietMove(c)
BY DEF QuietMove, Exit, Recovered, Fail, Goto, PCs, locals

LEMMA QuietGoto ==
  ASSUME NEW c \in CLIs, NEW l \in PCs \ {"commit", "attest", "casCommitted"}, Goto(c, l),
         UNCHANGED held, UNCHANGED <<journal, intent, lastEdit, landed, generation>>
  PROVE  QuietMove(c)
BY DEF QuietMove

\* The steps that neither touch the journal or the intent nor lead to a commit.
QuietStep(c) ==
  \/ Invoke(c) \/ Observe(c) \/ CasRejected(c) \/ CollectEvidence(c) \/ PublishRefused(c)
  \/ Validate(c) \/ PromoteCheck(c) \/ PromoteWrite(c) \/ Apply(c) \/ Quiesce(c)
  \/ RestoreSnapshot(c) \/ RestoreRuntime(c) \/ CleanGate(c) \/ ResetStop(c) \/ ResetGate(c)
  \/ ResetSnapshot(c) \/ Promote(c) \/ StopCore(c) \/ Crash(c)

LEMMA QuietSteps == ASSUME Typed, NEW c \in CLIs, QuietStep(c) PROVE QuietMove(c)
<1>1. CASE Invoke(c)
  BY <1>1 DEF Invoke, QuietMove, Goto, PCs, files
<1>2. CASE Observe(c)
  BY <1>2, QuietGoto DEF Observe, PCs, files
<1>3. CASE CasRejected(c)
  BY <1>3, QuietGoto, QuietExit DEF CasRejected, PCs, files, locals
<1>4. CASE CollectEvidence(c)
  BY <1>4, QuietGoto, QuietExit DEF CollectEvidence, PCs, files
<1>5. CASE PublishRefused(c)
  BY <1>5, QuietExit DEF PublishRefused, files
<1>6. CASE Validate(c)
  BY <1>6, QuietGoto DEF Validate, PCs, files, locals
<1>7. CASE PromoteCheck(c)
  BY <1>7, QuietGoto DEF PromoteCheck, PCs, files, locals
<1>8. CASE PromoteWrite(c)
  BY <1>8, QuietGoto DEF PromoteWrite, PCs, locals
<1>9. CASE Apply(c)
  BY <1>9, QuietGoto, QuietExit DEF Apply, ApplyRefused, PCs, files, locals
<1>10. CASE Quiesce(c)
  BY <1>10, QuietGoto, QuietExit DEF Quiesce, PCs, files, locals
<1>11. CASE RestoreSnapshot(c)
  BY <1>11, QuietGoto, QuietExit DEF RestoreSnapshot, PCs, locals
<1>12. CASE RestoreRuntime(c)
  BY <1>12, QuietGoto, QuietExit DEF RestoreRuntime, PCs, files, locals
<1>13. CASE CleanGate(c)
  BY <1>13, QuietGoto DEF CleanGate, PCs, locals
<1>14. CASE ResetStop(c)
  BY <1>14, QuietExit DEF ResetStop, QuietMove, Goto, PCs, files
<1>15. CASE ResetGate(c)
  BY <1>15, QuietGoto DEF ResetGate, PCs, locals
<1>16. CASE ResetSnapshot(c)
  BY <1>16, QuietGoto DEF ResetSnapshot, PCs, locals
<1>17. CASE Promote(c)
  BY <1>17, QuietExit DEF Promote
<1>18. CASE StopCore(c)
  BY <1>18, QuietExit DEF StopCore, files
<1>19. CASE Crash(c)
  BY <1>19, QuietExit DEF Crash, files
<1> QED BY <1>1, <1>2, <1>3, <1>4, <1>5, <1>6, <1>7, <1>8, <1>9, <1>10, <1>11, <1>12,
           <1>13, <1>14, <1>15, <1>16, <1>17, <1>18, <1>19 DEF QuietStep

\* A candidate changes the TUN key only.
LEMMA CandidateUser ==
  ASSUME NEW base \in Configs, NEW target \in BOOLEAN
  PROVE  /\ Candidate(base, target) \in Configs
         /\ Candidate(base, target).user = base.user
BY DEF Candidate, Configs

\* A step that rewrites the journal in place, without reporting a commit.
Rewritten ==
  /\ journal # NoTx /\ journal' # NoTx
  /\ journal'.gen = journal.gen /\ journal'.base = journal.base
  /\ journal'.cand = journal.cand /\ journal'.target = journal.target

LEMMA RewrittenHistory ==
  ASSUME Typed, History, NEW c \in CLIs, Rewritten,
         UNCHANGED <<intent, lastEdit, landed, generation>>,
         journal'.phase = "IntentCommitted" => landed,
         \A d \in CLIs \ {c} : pc'[d] = pc[d] /\ held'[d] = held[d],
         held'[c] \in {held[c], journal', NoTx},
         pc'[c] = "commit" => held'[c].phase \notin Terminal,
         pc'[c] \notin {"attest", "casCommitted"}
  PROVE  History'
<1>1. NoLostEdit' /\ JournalHistory'
  BY DEF Rewritten, History, NoLostEdit, JournalHistory
<1>2. HeldHistory'
  <2>1. SUFFICES ASSUME NEW d \in CLIs, held'[d] # NoTx
                 PROVE  /\ held'[d].gen <= generation'
                        /\ held'[d].cand = Candidate(held'[d].base, held'[d].target)
                        /\ journal' # NoTx /\ journal'.gen = held'[d].gen =>
                             journal'.base = held'[d].base /\ journal'.cand = held'[d].cand
    BY DEF HeldHistory
  <2>2. CASE held'[d] = held[d]
    BY <2>1, <2>2 DEF Rewritten, History, HeldHistory
  <2>3. CASE held'[d] = journal'
    BY <2>1, <2>3 DEF Rewritten, History, JournalHistory
  <2> QED BY <2>1, <2>2, <2>3
<1>3. CommitHistory'
  BY DEF Rewritten, History, CommitHistory
<1> QED BY <1>1, <1>2, <1>3 DEF History

LEMMA PlanHistory == ASSUME Typed, History, NEW c \in CLIs, Plan(c) PROVE History'
<1> DEFINE known  == [held[c] EXCEPT !.evOk = EvidencePresent(c)]
           action == PlanRecovery(known, ClassifySnapshot(snapshot, held[c]),
                                  ClassifyIntent(intent, held[c]), seen[c], Direction(c))
<1>1. held[c] \in Journals /\ known.phase = held[c].phase
  BY DEF Typed, LocalsOK, Carries, Plan, Journals
<1>2. CASE action = "Refuse"
  <2>1. QuietMove(c)
    BY <1>2, QuietExit, QuietGoto DEF Plan, RouteRefusal, PCs, files, locals
  <2> QED BY <2>1, QuietHistory
<1>3. CASE action # "Refuse"
  <2>1. pc' = [pc EXCEPT ![c] = PlannedStep(c, action)]
        /\ UNCHANGED <<journal, generation, intent, lastEdit, landed, held>>
    BY <1>3 DEF Plan, Goto, files, locals
  <2>2. pc'[c] = "commit" => action = "CommitIntent"
    BY <2>1 DEF PlannedStep, Typed, LocalsOK
  <2>3. pc'[c] = "casCommitted" => action = "FinalizeCommittedIntent"
    BY <2>1 DEF PlannedStep, Typed, LocalsOK
  <2>4. pc'[c] # "attest"
    BY <2>1 DEF PlannedStep, Typed, LocalsOK
  <2>5. pc'[c] = "commit" => held'[c].phase \notin Terminal
    BY <1>1, <2>1, <2>2, CommitNeedsOpen
  <2>6. pc'[c] = "casCommitted" => intent = held[c].cand
    <3>1. HAVE pc'[c] = "casCommitted"
    <3>2. ClassifyIntent(intent, held[c]) = "Candidate"
      BY <2>3, <3>1, FinalizeNeedsCandidate
    <3> QED BY <3>2 DEF ClassifyIntent
  <2>7. \A d \in CLIs \ {c} : pc'[d] = pc[d]
    BY <2>1 DEF Typed, LocalsOK
  <2>8. pc'[c] = "casCommitted" /\ journal # NoTx /\ journal.gen = held[c].gen => landed
    BY <1>1, <2>6, NullsAssumption DEF History, HeldHistory, JournalHistory
  <2>9. NoLostEdit' /\ JournalHistory' /\ HeldHistory'
    BY <2>1 DEF History, NoLostEdit, JournalHistory, HeldHistory
  <2>10. CommitHistory'
    BY <2>1, <2>4, <2>5, <2>7, <2>8 DEF History, CommitHistory
  <2> QED BY <2>9, <2>10 DEF History
<1> QED BY <1>2, <1>3

LEMMA AdvancePhaseHistory ==
  ASSUME Typed, History, NEW c \in CLIs, AdvancePhase(c) PROVE History'
<1>1. journal \in Journals /\ Fenced(c) /\ held[c] # NoTx
  BY DEF AdvancePhase, CasPossible, Fenced, Typed, FilesOK, LocalsOK, Carries, CasPCs
<1>2. journal' = [journal EXCEPT !.phase = CasTarget(pc[c])] /\ journal' # NoTx
  <2>1. journal' = [journal EXCEPT !.phase = CasTarget(pc[c])]
    BY DEF AdvancePhase
  <2>2. CasTarget(pc[c]) \in Phases
    BY DEF AdvancePhase, CasTarget, CasPCs, Phases
  <2>3. journal' \in Journals
    BY <1>1, <2>1, <2>2 DEF Journals
  <2> QED BY <2>1, <2>3, NullsAssumption
<1>3. Rewritten
  BY <1>1, <1>2 DEF Rewritten, Journals, Fenced
<1>4. journal'.phase = CasTarget(pc[c])
  BY <1>1, <1>2 DEF Journals
<1>5. journal'.phase = "IntentCommitted" => landed
  <2>1. journal'.phase = "IntentCommitted" => pc[c] = "casCommitted"
    BY <1>4 DEF AdvancePhase, CasTarget, CasPCs
  <2> QED BY <1>1, <2>1 DEF Fenced, History, CommitHistory
<1>6. /\ \A d \in CLIs \ {c} : pc'[d] = pc[d] /\ held'[d] = held[d]
      /\ held'[c] \in {held[c], journal', NoTx}
      /\ \/ pc'[c] = "idle"
         \/ pc'[c] = AfterCas(c) /\ held'[c] = journal'
  BY DEF AdvancePhase, Exit, Goto, Typed, LocalsOK
<1>7. pc'[c] = "commit" => pc[c] = "casApplied" /\ held'[c] = journal'
  BY <1>6 DEF AfterCas
<1>8. pc'[c] = "commit" => held'[c].phase \notin Terminal
  <2>1. HAVE pc'[c] = "commit"
  <2>2. held'[c].phase = "CoreApplied"
    BY <1>4, <1>7, <2>1 DEF CasTarget
  <2> QED BY <2>2 DEF Terminal
<1>9. pc'[c] \notin {"attest", "casCommitted"}
  BY <1>6 DEF AfterCas
<1>10. UNCHANGED <<intent, lastEdit, landed, generation>>
  BY DEF AdvancePhase
<1> QED BY <1>3, <1>5, <1>6, <1>8, <1>9, <1>10, RewrittenHistory

LEMMA RecordHistory == ASSUME Typed, History, NEW c \in CLIs, Record(c) PROVE History'
<1>1. CASE Fenced(c)
  <2>1. journal \in Journals /\ seen[c] \in Cores
    BY <1>1 DEF Fenced, Record, Typed, FilesOK, LocalsOK, Carries
  <2>2. journal' = [journal EXCEPT !.candPid = seen[c].pid]
    BY <1>1 DEF Record
  <2>3. journal' \in Journals
    BY <2>1, <2>2 DEF Journals, Cores
  <2>4. Rewritten /\ journal'.phase = journal.phase
    BY <1>1, <2>1, <2>2, <2>3, NullsAssumption DEF Rewritten, Fenced, Journals
  <2>5. /\ \A d \in CLIs \ {c} : pc'[d] = pc[d] /\ held'[d] = held[d]
        /\ held'[c] = journal' /\ pc'[c] = "casApplied"
    BY <1>1 DEF Record, Goto, Typed, LocalsOK
  <2>6. UNCHANGED <<intent, lastEdit, landed, generation>>
    BY DEF Record
  <2>7. journal'.phase = "IntentCommitted" => landed
    BY <1>1, <2>4 DEF Fenced, History, JournalHistory
  <2> QED BY <2>4, <2>5, <2>6, <2>7, RewrittenHistory
<1>2. CASE ~Fenced(c)
  BY <1>2, QuietExit, QuietHistory DEF Record
<1> QED BY <1>1, <1>2

LEMMA MarkRequiredHistory ==
  ASSUME Typed, History, NEW c \in CLIs, MarkRequired(c) PROVE History'
<1>1. CASE journal' = journal
  <2>1. QuietMove(c)
    BY <1>1, QuietExit DEF MarkRequired
  <2> QED BY <2>1, QuietHistory
<1>2. CASE journal' # journal
  <2>1. Open(journal) /\ journal' = [journal EXCEPT !.phase = "RecoveryRequired"]
    BY <1>2 DEF MarkRequired
  <2>2. journal \in Journals /\ journal # NoTx
    BY <2>1 DEF Open, Typed, FilesOK
  <2>3. journal' \in Journals /\ journal'.phase = "RecoveryRequired"
    BY <2>1, <2>2 DEF Journals, Phases
  <2>4. Rewritten
    BY <2>1, <2>2, <2>3, NullsAssumption DEF Rewritten, Journals
  <2>5. /\ \A d \in CLIs \ {c} : pc'[d] = pc[d] /\ held'[d] = held[d]
        /\ held'[c] = NoTx /\ pc'[c] = "idle"
    BY DEF MarkRequired, Exit, Goto, Typed, LocalsOK
  <2>6. UNCHANGED <<intent, lastEdit, landed, generation>>
    BY DEF MarkRequired
  <2> QED BY <2>3, <2>4, <2>5, <2>6, RewrittenHistory
<1> QED BY <1>1, <1>2

LEMMA CommitStepHistory ==
  ASSUME Typed, History, NEW c \in CLIs, Commit(c) PROVE History'
<1> USE DEF Commit
<1>1. CASE Fenced(c) /\ IntentUnmoved(c)
  <2>1. /\ intent' = held[c].cand /\ landed' = TRUE
        /\ UNCHANGED <<journal, held, lastEdit, generation>>
    BY <1>1 DEF files, locals
  <2>2. held[c] \in Journals /\ journal \in Journals
    BY <1>1 DEF Fenced, Typed, FilesOK, LocalsOK, Carries
  <2>3. held[c].cand = Candidate(held[c].base, held[c].target)
    BY <2>2, NullsAssumption DEF History, HeldHistory
  <2>4. held[c].cand.user = held[c].base.user
    BY <2>2, <2>3, CandidateUser DEF Journals
  <2>5. intent'.user = intent.user
    BY <1>1, <2>1, <2>4 DEF IntentUnmoved
  <2>6. NoLostEdit' /\ JournalHistory' /\ HeldHistory'
    BY <2>1, <2>5 DEF History, NoLostEdit, JournalHistory, HeldHistory
  <2>7. pc'[c] # "commit" /\ \A d \in CLIs \ {c} : pc'[d] = pc[d]
    BY <1>1 DEF Goto, Typed, LocalsOK
  <2>8. CommitHistory'
    BY <2>1, <2>7 DEF History, CommitHistory
  <2> QED BY <2>6, <2>8 DEF History
<1>2. CASE ~(Fenced(c) /\ IntentUnmoved(c))
  <2>1. UNCHANGED <<journal, generation, intent, lastEdit, landed>>
    BY <1>2 DEF files
  <2>2. CASE Exit(c) \/ Fail(c)
    BY <2>1, <2>2, QuietExit, QuietHistory
  <2>3. CASE ~(Exit(c) \/ Fail(c))
    <3>1. Goto(c, "casRollback") /\ UNCHANGED held
      BY <1>2, <2>3
    <3> QED BY <2>1, <3>1, QuietGoto, QuietHistory DEF PCs
  <2> QED BY <2>2, <2>3
<1> QED BY <1>1, <1>2

LEMMA AttestHistory == ASSUME Typed, History, NEW c \in CLIs, Attest(c) PROVE History'
<1>1. CASE Goto(c, "casCommitted") /\ UNCHANGED locals
  <2>1. pc'[c] = "casCommitted" /\ \A d \in CLIs \ {c} : pc'[d] = pc[d]
    BY <1>1 DEF Goto, Typed, LocalsOK
  <2>2. UNCHANGED <<journal, generation, intent, lastEdit, landed, held>> /\ pc[c] = "attest"
    BY <1>1 DEF Attest, files, locals
  <2>3. NoLostEdit' /\ JournalHistory' /\ HeldHistory'
    BY <2>2 DEF History, NoLostEdit, JournalHistory, HeldHistory
  <2>4. CommitHistory'
    BY <2>1, <2>2 DEF History, CommitHistory
  <2> QED BY <2>3, <2>4 DEF History
<1>2. CASE Fail(c)
  BY <1>2, QuietExit, QuietHistory DEF Attest, files
<1> QED BY <1>1, <1>2 DEF Attest

\* The intent and the journal as Publish leaves them.
LEMMA Published ==
  ASSUME Typed, History, NEW c \in CLIs, Publish(c)
  PROVE  /\ intent' \in Configs /\ intent'.user = lastEdit' /\ lastEdit' \in Nat
         /\ journal' # NoTx /\ journal'.gen = generation + 1 /\ journal'.phase = "Prepared"
         /\ journal'.base = intent' /\ journal'.target \in BOOLEAN
         /\ journal'.cand = Candidate(journal'.base, journal'.target)
         /\ landed' = (journal'.cand = intent')
         /\ intent' = intent \/ intent'.user = intent.user + 1
<1>1. journal' \in Journals /\ intent' \in Configs /\ lastEdit' \in 0..MaxEdits
  BY PublishedTyped
<1>2. journal' # NoTx
  BY <1>1, NullsAssumption
<1>3. lastEdit' \in Nat
  BY <1>1, BoundsAssumption
<1>4. /\ intent'.user = lastEdit'
      /\ intent' = intent \/ intent'.user = intent.user + 1
  <2>1. intent.user = lastEdit /\ intent \in Configs
    BY DEF History, NoLostEdit, Typed, StateOK
  <2>2. CASE UNCHANGED <<intent, lastEdit>>
    BY <2>1, <2>2
  <2>3. CASE lastEdit' = lastEdit + 1 /\ intent' = [intent EXCEPT !.user = lastEdit']
    BY <2>1, <2>3 DEF Configs
  <2> QED BY <2>2, <2>3 DEF Publish
<1> QED BY <1>1, <1>2, <1>3, <1>4 DEF Publish, Target

LEMMA PublishHistory == ASSUME Typed, History, NEW c \in CLIs, Publish(c) PROVE History'
<1>1. generation \in Nat /\ generation' = generation + 1
  BY BoundsAssumption DEF Publish, Typed, FilesOK
<1>2. NoLostEdit'
  BY Published DEF NoLostEdit
<1>3. JournalHistory'
  <2>1. journal'.gen <= generation' /\ journal'.base.user <= lastEdit'
    BY <1>1, Published
  <2> QED BY <2>1, Published DEF JournalHistory
<1>4. /\ \A d \in CLIs \ {c} : pc'[d] = pc[d] /\ held'[d] = held[d]
      /\ held'[c] \in {journal', NoTx} /\ pc'[c] \in {"validate", "idle"}
  BY DEF Publish, Exit, Goto, Typed, LocalsOK
<1>5. \A d \in CLIs : held[d] # NoTx => held[d].gen \in Nat /\ held[d].gen <= generation
  BY DEF History, HeldHistory, Typed, LocalsOK, Journals
<1>6. HeldHistory'
  <2>1. SUFFICES ASSUME NEW d \in CLIs, held'[d] # NoTx
                 PROVE  /\ held'[d].gen <= generation'
                        /\ held'[d].cand = Candidate(held'[d].base, held'[d].target)
                        /\ journal' # NoTx /\ journal'.gen = held'[d].gen =>
                             journal'.base = held'[d].base /\ journal'.cand = held'[d].cand
    BY DEF HeldHistory
  <2>2. CASE held'[d] = journal'
    BY <1>1, <2>2, Published
  <2>3. CASE held'[d] = held[d]
    <3>1. held[d].gen <= generation' /\ held[d].gen # generation'
      BY <1>1, <1>5, <2>1, <2>3
    <3> QED BY <1>1, <2>1, <2>3, <3>1, Published DEF History, HeldHistory
  <2> QED BY <1>4, <2>1, <2>2, <2>3
<1>7. CommitHistory'
  <2>1. SUFFICES ASSUME NEW d \in CLIs \ {c}
                 PROVE  /\ pc'[d] = "commit" => held'[d].phase \notin Terminal
                        /\ pc'[d] \in {"attest", "casCommitted"} /\ journal' # NoTx
                           /\ journal'.gen = held'[d].gen => landed'
    BY <1>4 DEF CommitHistory
  <2>2. pc[d] \in {"attest", "casCommitted"} => held[d].gen # generation + 1
    BY <1>1, <1>5 DEF Typed, LocalsOK, Carries
  <2> QED BY <1>4, <2>2, Published DEF History, CommitHistory
<1> QED BY <1>2, <1>3, <1>6, <1>7 DEF History

\* The journal is archived or quarantined, and the command goes on or ends.
LEMMA ForgottenHistory ==
  ASSUME Typed, History, NEW c \in CLIs, Exit(c) \/ Recovered(c), journal' = NoTx,
         UNCHANGED <<intent, lastEdit, landed, generation>>
  PROVE  History'
<1>1. \A d \in CLIs : held'[d] \in {held[d], NoTx}
  BY DEF Exit, Recovered, Typed, LocalsOK
<1>2. \A d \in CLIs : pc'[d] = "commit" => pc[d] = "commit" /\ held'[d] = held[d]
  BY DEF Exit, Recovered, Goto, Typed, LocalsOK
<1>3. NoLostEdit' /\ JournalHistory'
  BY DEF History, NoLostEdit, JournalHistory
<1>4. HeldHistory'
  BY <1>1 DEF History, HeldHistory
<1>5. CommitHistory'
  BY <1>2 DEF History, CommitHistory
<1> QED BY <1>3, <1>4, <1>5 DEF History

LEMMA CleanActiveHistory ==
  ASSUME Typed, History, NEW c \in CLIs, CleanActive(c) \/ ResetActive(c) PROVE History'
<1>1. /\ Exit(c) \/ Recovered(c)
      /\ UNCHANGED <<intent, lastEdit, landed, generation>>
      /\ journal' = NoTx \/ journal' = journal
  BY DEF CleanActive, ResetActive
<1>2. CASE journal' = NoTx
  BY <1>1, <1>2, ForgottenHistory
<1>3. CASE journal' = journal
  BY <1>1, <1>3, QuietExit, QuietHistory
<1> QED BY <1>1, <1>2, <1>3

LEMMA EnvironmentHistory ==
  ASSUME Typed, History, Edit \/ CoreExits \/ EvidenceLost \/ Reboot PROVE History'
<1>1. CASE Edit
  <2>1. lastEdit \in Nat /\ lastEdit' = lastEdit + 1 /\ intent'.user = lastEdit'
        /\ UNCHANGED <<journal, generation, pc, held, landed>>
    BY <1>1, BoundsAssumption DEF Edit, Typed, StateOK, files, locals
  <2>2. journal # NoTx => intent' # journal.cand
    <3>1. HAVE journal # NoTx
    <3>2. journal.base \in Configs /\ journal.target \in BOOLEAN /\ journal.base.user \in Nat
      BY <3>1, BoundsAssumption DEF Typed, FilesOK, Journals, Configs
    <3>3. journal.cand.user = journal.base.user
      BY <3>1, <3>2, CandidateUser DEF History, JournalHistory
    <3> QED BY <2>1, <3>1, <3>2, <3>3 DEF History, JournalHistory
  <2>3. journal # NoTx => journal.base.user <= lastEdit'
    <3>1. HAVE journal # NoTx
    <3>2. journal.base.user \in Nat
      BY <3>1, BoundsAssumption DEF Typed, FilesOK, Journals, Configs
    <3> QED BY <2>1, <3>1, <3>2 DEF History, JournalHistory
  <2>4. NoLostEdit' /\ JournalHistory'
    BY <2>1, <2>2, <2>3 DEF History, NoLostEdit, JournalHistory
  <2> QED BY <2>1, <2>4 DEF History, HeldHistory, CommitHistory
<1>2. CASE CoreExits
  BY <1>2 DEF CoreExits, History, NoLostEdit, JournalHistory, HeldHistory, CommitHistory,
              files, locals
<1>3. CASE EvidenceLost
  <2>1. journal \in Journals /\ journal # NoTx /\ journal' = [journal EXCEPT !.evOk = FALSE]
        /\ UNCHANGED <<generation, intent, pc, held, lastEdit, landed>>
    BY <1>3 DEF EvidenceLost, Typed, FilesOK, locals
  <2>2. journal' \in Journals
    BY <2>1 DEF Journals
  <2>3. Rewritten /\ journal'.phase = journal.phase
    BY <2>1, <2>2, NullsAssumption DEF Rewritten, Journals
  <2> QED BY <2>1, <2>3
          DEF Rewritten, History, NoLostEdit, JournalHistory, HeldHistory, CommitHistory
<1>4. CASE Reboot
  BY <1>4 DEF Reboot, History, NoLostEdit, JournalHistory, HeldHistory, CommitHistory, files
<1> QED BY <1>1, <1>2, <1>3, <1>4

LEMMA NextHistory == ASSUME Typed, History, [Next]_vars PROVE History'
<1>1. CASE UNCHANGED vars
  BY <1>1 DEF History, NoLostEdit, JournalHistory, HeldHistory, CommitHistory, vars, files, locals
<1>2. ASSUME NEW c \in CLIs, Invoke(c) \/ Step(c) \/ Crash(c) PROVE History'
  <2>1. CASE QuietStep(c)
    BY <2>1, QuietSteps, QuietHistory
  <2>2. CASE ~QuietStep(c)
    BY <1>2, <2>2, PlanHistory, AdvancePhaseHistory, PublishHistory, RecordHistory,
       CommitStepHistory, AttestHistory, MarkRequiredHistory, CleanActiveHistory
       DEF Step, QuietStep
  <2> QED BY <2>1, <2>2
<1> QED BY <1>1, <1>2, EnvironmentHistory DEF Next

LEMMA InitHistory == ASSUME Init PROVE History
<1>1. NoLostEdit /\ JournalHistory
  BY DEF Init, NoLostEdit, JournalHistory
<1>2. HeldHistory /\ CommitHistory
  BY DEF Init, HeldHistory, CommitHistory
<1> QED BY <1>1, <1>2 DEF History

LEMMA AlwaysHistory == Spec => [](Typed /\ History)
<1>1. Init => Typed /\ History
  BY InitTyped, InitHistory
<1>2. Typed /\ History /\ [Next]_vars => (Typed /\ History)'
  BY NextTyped, NextHistory
<1> QED BY <1>1, <1>2, PTL DEF Spec

\* No interleaving of any number of commands, recoveries, crashes and edits makes
\* a commit overwrite an edit of the user.
THEOREM EditsKept == Spec => []NoLostEdit
BY AlwaysHistory, PTL DEF History

\* No recovery, however stale what it planned from, reports a switch as committed
\* whose candidate never became the user's configuration.
THEOREM CommitsLanded == Spec => []CommittedLanded
<1>1. History => CommittedLanded
  BY DEF History, JournalHistory, CommittedLanded
<1> QED BY <1>1, AlwaysHistory, PTL

-----------------------------------------------------------------------------
(* Every step of the transaction is a step of the switch, or none.         *)

Kept == Promise!Next \/ UNCHANGED Promise!vars

LEMMA Stutter == ASSUME UNCHANGED <<journal, intent, landed>> PROVE Kept
BY DEF Kept, Promise!vars, Switch, Outcome

\* A rewritten journal is the same switch, in the state its phase says.
LEMMA RewrittenSwitch ==
  ASSUME Rewritten
  PROVE  /\ Switch = [state |-> Outcome(journal.phase), base |-> journal.base,
                      cand |-> journal.cand]
         /\ Switch' = [Switch EXCEPT !.state = Outcome(journal'.phase)]
         /\ Switch.base = journal.base /\ Switch.cand = journal.cand
BY DEF Rewritten, Switch

\* The switch is open exactly when the journal is.
LEMMA OpenSwitch == Promise!InProgress <=> Open(journal)
<1>1. CASE journal = NoTx
  BY <1>1 DEF Promise!InProgress, Open, Switch
<1>2. CASE journal # NoTx
  <2>1. Switch.state = Outcome(journal.phase)
    BY <1>2 DEF Switch
  <2>2. Outcome(journal.phase) = "open" <=> journal.phase \notin Terminal
    BY DEF Outcome, Terminal
  <2>3. Switch # NoSwitch
    <3>1. Outcome(journal.phase) # "none"
      BY DEF Outcome
    <3> QED BY <2>1, <3>1 DEF NoSwitch
  <2> QED BY <1>2, <2>1, <2>2, <2>3 DEF Promise!InProgress, Open
<1> QED BY <1>1, <1>2

LEMMA NoJournalNoSwitch == journal = NoTx <=> Switch = NoSwitch
<1>1. journal # NoTx => Switch.state = Outcome(journal.phase)
  BY DEF Switch
<1>2. Outcome(journal.phase) # "none"
  BY DEF Outcome
<1> QED BY <1>1, <1>2 DEF Switch, NoSwitch

LEMMA AdvancePhaseKept ==
  ASSUME Typed, History, NEW c \in CLIs, AdvancePhase(c) PROVE Kept
<1>1. journal \in Journals /\ journal # NoTx /\ Fenced(c)
      /\ ValidPhaseTransition(journal.phase, CasTarget(pc[c]))
  BY DEF AdvancePhase, CasPossible, Fenced, Typed, FilesOK
<1>2. journal' = [journal EXCEPT !.phase = CasTarget(pc[c])]
  BY DEF AdvancePhase
<1>3. CasTarget(pc[c]) \in Phases
  BY DEF AdvancePhase, CasTarget, CasPCs, Phases
<1>4. journal' \in Journals /\ journal'.phase = CasTarget(pc[c])
  BY <1>1, <1>2, <1>3 DEF Journals
<1>5. Rewritten
  BY <1>1, <1>2, <1>4, NullsAssumption DEF Rewritten, Journals
<1>6. journal.phase \notin Terminal
  BY <1>1 DEF ValidPhaseTransition, Terminal
<1>7. Promise!InProgress /\ UNCHANGED <<intent, landed>>
  BY <1>1, <1>6, OpenSwitch DEF Open, AdvancePhase
<1>8. Switch' = [Switch EXCEPT !.state = Outcome(CasTarget(pc[c]))]
  BY <1>4, <1>5, RewrittenSwitch
<1>9. CASE CasTarget(pc[c]) = "IntentCommitted"
  <2>1. pc[c] = "casCommitted"
    BY <1>9 DEF AdvancePhase, CasTarget, CasPCs
  <2>2. landed
    BY <1>1, <2>1 DEF Fenced, History, CommitHistory
  <2>3. Promise!Commit
    BY <1>7, <1>8, <1>9, <2>2 DEF Promise!Commit, Outcome
  <2> QED BY <2>3 DEF Kept, Promise!Next
<1>10. CASE CasTarget(pc[c]) = "RolledBack"
  <2>1. Promise!RollBack
    BY <1>7, <1>8, <1>10 DEF Promise!RollBack, Outcome
  <2> QED BY <2>1 DEF Kept, Promise!Next
<1>11. CASE CasTarget(pc[c]) \notin Terminal
  <2>1. Outcome(CasTarget(pc[c])) = "open" /\ Outcome(journal.phase) = "open"
    BY <1>6, <1>11 DEF Outcome, Terminal
  <2>2. Switch' = Switch
    BY <1>5, <1>8, <2>1, RewrittenSwitch
  <2> QED BY <1>7, <2>2 DEF Kept, Promise!vars
<1> QED BY <1>9, <1>10, <1>11 DEF Terminal

LEMMA RewrittenKept ==
  ASSUME Rewritten, UNCHANGED <<intent, landed>>,
         journal'.phase = journal.phase \/ {journal.phase, journal'.phase} \cap Terminal = {}
  PROVE  Kept
<1>1. Outcome(journal'.phase) = Outcome(journal.phase)
  BY DEF Outcome, Terminal
<1>2. Switch' = Switch
  BY <1>1, RewrittenSwitch
<1> QED BY <1>2 DEF Kept, Promise!vars

LEMMA RecordKept == ASSUME Typed, NEW c \in CLIs, Record(c) PROVE Kept
<1>1. CASE journal' = journal
  BY <1>1, Stutter DEF Record
<1>2. CASE journal' # journal
  <2>1. journal \in Journals /\ seen[c] \in Cores /\ journal # NoTx
        /\ journal' = [journal EXCEPT !.candPid = seen[c].pid]
    BY <1>2 DEF Record, Fenced, Typed, FilesOK, LocalsOK, Carries
  <2>2. journal' \in Journals
    BY <2>1 DEF Journals, Cores
  <2>3. Rewritten /\ journal'.phase = journal.phase
    BY <2>1, <2>2, NullsAssumption DEF Rewritten, Journals
  <2> QED BY <2>3, RewrittenKept DEF Record
<1> QED BY <1>1, <1>2

LEMMA MarkRequiredKept == ASSUME Typed, NEW c \in CLIs, MarkRequired(c) PROVE Kept
<1>1. CASE journal' = journal
  BY <1>1, Stutter DEF MarkRequired
<1>2. CASE journal' # journal
  <2>1. Open(journal) /\ journal' = [journal EXCEPT !.phase = "RecoveryRequired"]
    BY <1>2 DEF MarkRequired
  <2>2. journal \in Journals /\ journal # NoTx /\ journal.phase \notin Terminal
    BY <2>1 DEF Open, Typed, FilesOK
  <2>3. journal' \in Journals /\ journal'.phase = "RecoveryRequired"
    BY <2>1, <2>2 DEF Journals, Phases
  <2>4. Rewritten
    BY <2>1, <2>2, <2>3, NullsAssumption DEF Rewritten, Journals
  <2>5. {journal.phase, journal'.phase} \cap Terminal = {}
    BY <2>2, <2>3 DEF Terminal
  <2> QED BY <2>4, <2>5, RewrittenKept DEF MarkRequired
<1> QED BY <1>1, <1>2

\* Committing the intent lands the candidate, on the configuration it was built from.
LEMMA CommitKept == ASSUME Typed, History, NEW c \in CLIs, Commit(c) PROVE Kept
<1>1. CASE Fenced(c) /\ IntentUnmoved(c)
  <2>1. intent' = held[c].cand /\ landed' = TRUE /\ UNCHANGED journal /\ pc[c] = "commit"
    BY <1>1 DEF Commit, files
  <2>2. journal # NoTx /\ held[c] # NoTx /\ journal.gen = held[c].gen
    BY <1>1, <2>1 DEF Fenced, Typed, LocalsOK, Carries
  <2>3. journal.base = held[c].base /\ journal.cand = held[c].cand
    BY <2>2 DEF History, HeldHistory
  <2>4. journal.phase \notin Terminal
    BY <1>1, <2>1 DEF Fenced, History, CommitHistory
  <2>5. Promise!InProgress
    BY <2>2, <2>4, OpenSwitch DEF Open
  <2>6. Switch.base = journal.base /\ Switch.cand = journal.cand /\ Switch' = Switch
    BY <2>1, <2>2 DEF Switch, Outcome
  <2>7. Promise!Land
    BY <1>1, <2>1, <2>3, <2>5, <2>6 DEF Promise!Land, IntentUnmoved
  <2> QED BY <2>7 DEF Kept, Promise!Next
<1>2. CASE ~(Fenced(c) /\ IntentUnmoved(c))
  BY <1>2, Stutter DEF Commit, files
<1> QED BY <1>1, <1>2

\* Publishing begins a switch, when no other is in progress.
LEMMA PublishKept == ASSUME Typed, History, NEW c \in CLIs, Publish(c) PROVE Kept
<1>1. ~Promise!InProgress
  BY OpenSwitch DEF Publish
<1>2. intent' = intent \/ Promise!Edited
  BY Published DEF Promise!Edited
<1>3. Switch' = [state |-> "open", base |-> journal'.base, cand |-> journal'.cand]
  BY Published DEF Switch, Outcome
<1>4. Switch' = [state |-> "open", base |-> intent',
                 cand |-> Candidate(intent', journal'.target)]
  BY <1>3, Published
<1>5. landed' = (Switch'.cand = intent')
  BY <1>3, Published
<1>6. Promise!Begin
  BY <1>1, <1>2, <1>4, <1>5, Published DEF Promise!Begin
<1> QED BY <1>6 DEF Kept, Promise!Next

\* Archiving or quarantining the journal forgets the switch.
LEMMA CleanActiveKept ==
  ASSUME NEW c \in CLIs, CleanActive(c) \/ ResetActive(c) PROVE Kept
<1>1. UNCHANGED <<intent, landed>> /\ (journal' = NoTx \/ journal' = journal)
  BY DEF CleanActive, ResetActive
<1>2. CASE journal' = journal
  BY <1>1, <1>2, Stutter
<1>3. CASE journal' = NoTx /\ journal # NoTx
  <2>1. Switch # NoSwitch /\ Switch' = NoSwitch
    BY <1>3, NoJournalNoSwitch DEF Switch
  <2> QED BY <1>1, <2>1 DEF Kept, Promise!Next, Promise!Forget
<1> QED BY <1>1, <1>2, <1>3

LEMMA EnvironmentKept ==
  ASSUME Typed, History, Edit \/ CoreExits \/ EvidenceLost \/ Reboot PROVE Kept
<1>1. CASE Edit
  <2>1. lastEdit \in Nat /\ intent' \in Configs /\ intent'.user = intent.user + 1
        /\ UNCHANGED <<journal, landed>>
    BY <1>1, EnvironmentTyped, BoundsAssumption
       DEF Edit, Typed, StateOK, History, NoLostEdit, files
  <2>2. Switch' = Switch
    BY <2>1 DEF Switch, Outcome
  <2> QED BY <2>1, <2>2 DEF Kept, Promise!Next, Promise!Edit, Promise!Edited
<1>2. CASE CoreExits \/ Reboot
  BY <1>2, Stutter DEF CoreExits, Reboot, files
<1>3. CASE EvidenceLost
  <2>1. journal \in Journals /\ journal # NoTx /\ journal' = [journal EXCEPT !.evOk = FALSE]
        /\ UNCHANGED <<intent, landed>>
    BY <1>3 DEF EvidenceLost, Typed, FilesOK
  <2>2. journal' \in Journals
    BY <2>1 DEF Journals
  <2>3. Rewritten /\ journal'.phase = journal.phase
    BY <2>1, <2>2, NullsAssumption DEF Rewritten, Journals
  <2> QED BY <2>1, <2>3, RewrittenKept
<1> QED BY <1>1, <1>2, <1>3

LEMMA NextKept == ASSUME Typed, History, [Next]_vars PROVE Kept
<1>1. CASE UNCHANGED vars
  BY <1>1, Stutter DEF vars, files
<1>2. ASSUME NEW c \in CLIs, Invoke(c) \/ Step(c) \/ Crash(c) PROVE Kept
  <2>1. CASE QuietStep(c) \/ Plan(c) \/ Attest(c)
    BY <2>1, QuietSteps, Stutter DEF QuietMove, Plan, Attest, files
  <2>2. CASE ~(QuietStep(c) \/ Plan(c) \/ Attest(c))
    BY <1>2, <2>2, AdvancePhaseKept, PublishKept, RecordKept, CommitKept, MarkRequiredKept,
       CleanActiveKept DEF Step, QuietStep
  <2> QED BY <2>1, <2>2
<1> QED BY <1>1, <1>2, EnvironmentKept DEF Next

LEMMA InitKept == ASSUME Init PROVE Promise!Init
<1>1. intent \in Configs
  BY BoundsAssumption DEF Init, Configs
<1> QED BY <1>1 DEF Init, Promise!Init, Switch

\* The whole protocol, with its crashes, recoveries and resets, implements the
\* switch that TunSwitch promises the user.
THEOREM SwitchImplemented == Spec => ImplementsSwitch
<1>1. Init => Promise!Init
  BY InitKept
<1>2. Typed /\ History /\ [Next]_vars => [Promise!Next]_Promise!vars
  BY NextKept DEF Kept
<1> QED BY <1>1, <1>2, AlwaysHistory, PTL DEF Spec, ImplementsSwitch, Promise!Spec

-----------------------------------------------------------------------------
(* What a transaction leaves behind when the commands run one at a time:   *)
(* its gate, its snapshot, its Core.  Two commands at once can violate     *)
(* these properties (a snapshot is promoted without a lock, and a reset    *)
(* may archive the journal of a live transaction), so OneCli is a          *)
(* hypothesis of the theorems; the number of commands after each other,    *)
(* of edits, transactions and faults is any.                               *)


\* Commands are not run at the same time.
OneCli == \A c, d \in CLIs : c = d

Underway(c) == pc[c] \notin {"idle", "ready", "publish"}
Cleaning    == {"cleanGate", "cleanActive"}
Resetting   == {"resetGate", "resetSnapshot", "resetActive"}

\* The journal a command carries is the active one, but for the verdict on the
\* evidence, which may be lost at any time.
CarriesActive(c) ==
  /\ journal # NoTx
  /\ journal.gen = held[c].gen /\ journal.phase = held[c].phase
  /\ journal.target = held[c].target /\ journal.base = held[c].base
  /\ journal.cand = held[c].cand /\ journal.old = held[c].old
  /\ journal.ev = held[c].ev /\ journal.candPid = held[c].candPid

\* A command works on the active journal, and cleans up exactly what has ended.
Follows(c) ==
  /\ pc[c] \in {"ready", "publish"} => journal = NoTx
  /\ Underway(c) => CarriesActive(c)
  /\ pc[c] \in Cleaning => ~Open(journal)
  /\ Underway(c) => (pc[c] \in Cleaning \/ Open(journal))
  /\ pc[c] \in {"validate", "cancel"} => journal.phase = "Prepared"

\* Behind its step a command has removed the gate, or failed to, or put the
\* snapshot back.
Restores(c) ==
  /\ pc[c] \in {"cleanActive", "resetSnapshot", "resetActive"} => gate \in {NoGen, past.stuck}
  /\ pc[c] \in {"validate", "cancel", "restoreRuntime", "casRolledBack"} => snapshot = journal.old

\* No Core runs, or one with this revision and TUN state.
OnlyRuns(rev, tun) == core = NoCore \/ (core.rev = rev /\ core.tun = tun)
CandidateRuns == OnlyRuns(journal.cand, journal.target)

\* What a command has learnt about the Core is still so.
Knows(c) ==
  /\ pc[c] \in {"plan", "replan", "repair", "record", "casApplied"} /\ seen[c] # NoCore
       => OnlyRuns(seen[c].rev, seen[c].tun)
  /\ pc[c] \in {"record", "casApplied", "commit", "attest", "casCommitted"} => CandidateRuns
  /\ pc[c] = "casRolledBack" => OnlyRuns(journal.ev.rev, journal.ev.tun)
  /\ pc[c] \in Resetting => core = NoCore

\* A Core applied is the candidate until the transaction moves on.
AppliedRuns == journal # NoTx /\ journal.phase = "CoreApplied" => CandidateRuns

Solo ==
  /\ GateOwned /\ RolledBackRestoresSnapshot /\ AppliedRuns
  /\ \A c \in CLIs : Follows(c) /\ Restores(c) /\ Knows(c)
-----------------------------------------------------------------------------
(* Steps that leave the files alone.                                       *)

Outcomes == GateOwned /\ RolledBackRestoresSnapshot /\ AppliedRuns
Working(c) == Follows(c) /\ Restores(c) /\ Knows(c)

LEMMA OnlyCommand ==
  ASSUME OneCli, NEW c \in CLIs, Outcomes', Working(c)' PROVE Solo'
<1> SUFFICES ASSUME NEW d \in CLIs PROVE Working(d)'
  BY DEF Solo, Outcomes, Working
<1>1. d = c
  BY DEF OneCli
<1> QED BY <1>1

\* The Core stays, exits, or becomes silent.
CoreStays ==
  \/ core' \in {core, NoCore}
  \/ core # NoCore /\ core' # NoCore /\ core'.rev = core.rev /\ core'.tun = core.tun

LEMMA OnlyRunsStays ==
  ASSUME CoreStays, NEW rev, NEW tun, OnlyRuns(rev, tun)
  PROVE  core' = NoCore \/ (core'.rev = rev /\ core'.tun = tun)
BY DEF CoreStays, OnlyRuns

LEMMA OutcomesStay ==
  ASSUME Solo, UNCHANGED <<journal, gate, snapshot>>, past'.stuck = past.stuck, CoreStays
  PROVE  Outcomes'
<1>1. GateOwned' /\ RolledBackRestoresSnapshot'
  BY DEF Solo, GateOwned, RolledBackRestoresSnapshot
<1>2. AppliedRuns'
  BY OnlyRunsStays DEF Solo, AppliedRuns, CandidateRuns, OnlyRuns
<1> QED BY <1>1, <1>2 DEF Outcomes

LEMMA IdleWorking ==
  ASSUME NEW c \in CLIs, pc'[c] = "idle" PROVE Working(c)'
BY DEF Working, Follows, Restores, Knows, Underway, Cleaning, Resetting

LEMMA ExitSolo ==
  ASSUME OneCli, Typed, NEW c \in CLIs, Exit(c), Outcomes' PROVE Solo'
<1>1. pc'[c] = "idle"
  BY DEF Exit, Goto, Typed, LocalsOK
<1> QED BY <1>1, IdleWorking, OnlyCommand

LEMMA FailSolo ==
  ASSUME OneCli, Typed, Solo, NEW c \in CLIs, Underway(c), pc[c] \notin Cleaning, Fail(c),
         UNCHANGED journal, Outcomes'
  PROVE  Solo'
<1>1. CASE Exit(c)
  BY <1>1, ExitSolo
<1>2. CASE Goto(c, "markRequired") /\ UNCHANGED locals
  <2>1. pc'[c] = "markRequired" /\ held' = held
    BY <1>2 DEF Goto, Typed, LocalsOK, locals
  <2>2. Working(c)'
    BY <2>1 DEF Solo, Working, Follows, Restores, Knows, Underway, Cleaning, Resetting,
                CarriesActive, Open
  <2> QED BY <2>2, OnlyCommand
<1> QED BY <1>1, <1>2 DEF Fail

\* A step to a place where nothing more is claimed.
Plain == PCs \ ({"ready", "publish", "validate", "cancel", "restoreRuntime", "casRolledBack",
                 "plan", "replan", "repair", "record", "casApplied", "commit", "attest",
                 "casCommitted"} \cup Cleaning \cup Resetting)

LEMMA PlainSolo ==
  ASSUME OneCli, Typed, Solo, NEW c \in CLIs, Underway(c), pc[c] \notin Cleaning,
         NEW l \in Plain, Goto(c, l), held' = held, UNCHANGED journal, Outcomes'
  PROVE  Solo'
<1>1. pc'[c] = l
  BY DEF Goto, Typed, LocalsOK
<1>2. Working(c)'
  BY <1>1 DEF Solo, Working, Follows, Restores, Knows, Underway, Cleaning, Resetting, Plain, PCs,
              CarriesActive, Open
<1> QED BY <1>2, OnlyCommand

-----------------------------------------------------------------------------
(* Recovery reads and decides.                                             *)

LEMMA InvokeSolo ==
  ASSUME OneCli, Typed, Solo, NEW c \in CLIs, Invoke(c) PROVE Solo'
<1>1. UNCHANGED <<journal, gate, snapshot, past>> /\ core' = core
  BY DEF Invoke, files
<1>2. Outcomes'
  BY <1>1, OutcomesStay DEF CoreStays
<1>3. CASE journal = NoTx /\ Goto(c, "ready")
  <2>1. pc'[c] = "ready"
    BY <1>3 DEF Goto, Typed, LocalsOK
  <2>2. Working(c)'
    BY <1>1, <1>3, <2>1
    DEF Working, Follows, Restores, Knows, Underway, Cleaning, Resetting
  <2> QED BY <1>2, <2>2, OnlyCommand
<1>4. CASE /\ journal # NoTx /\ held' = [held EXCEPT ![c] = journal]
           /\ Goto(c, IF Open(journal) THEN "observe" ELSE "cleanGate")
  <2>1. held'[c] = journal /\ pc'[c] = IF Open(journal) THEN "observe" ELSE "cleanGate"
    BY <1>4 DEF Goto, Typed, LocalsOK
  <2>2. Working(c)'
    BY <1>1, <1>4, <2>1
    DEF Working, Follows, Restores, Knows, Underway, Cleaning, Resetting, CarriesActive, Open
  <2> QED BY <1>2, <2>2, OnlyCommand
<1> QED BY <1>3, <1>4 DEF Invoke

LEMMA ObserveSolo ==
  ASSUME OneCli, Typed, Solo, NEW c \in CLIs, Observe(c) PROVE Solo'
<1>1. UNCHANGED <<journal, gate, snapshot, held, past>> /\ core' = core
  BY DEF Observe, files
<1>2. Outcomes'
  BY <1>1, OutcomesStay DEF CoreStays
<1>3. pc[c] = "observe" /\ pc'[c] = "plan" /\ seen'[c] \in {core, NoCore}
  BY DEF Observe, Observation, Goto, Typed, LocalsOK
<1>4. Working(c)'
  BY <1>1, <1>3 DEF Solo, Working, Follows, Restores, Knows, Underway, Cleaning, Resetting,
                    CarriesActive, Open, OnlyRuns
<1> QED BY <1>2, <1>4, OnlyCommand

\* The planner goes on to a commit only where the Core was seen to run the
\* candidate, or was recorded as applied.
LEMMA CommitNeedsCandidate ==
  ASSUME NEW jr, NEW snap, NEW int, NEW obs, NEW dir,
         PlanRecovery(jr, snap, int, obs, dir) \in {"CommitIntent", "FinalizeCommittedIntent"}
  PROVE  jr.phase = "CoreApplied" \/ RunsCandidate(jr, obs)
<1>1. CASE jr.phase \in Terminal
  BY <1>1 DEF PlanRecovery, Terminal
<1>2. CASE jr.phase \in {"Prepared", "PromotionPending"}
  <2>1. PlanBeforePromotion(snap, dir) \notin {"CommitIntent", "FinalizeCommittedIntent"}
    BY DEF PlanBeforePromotion
  <2> QED BY <1>2, <2>1 DEF PlanRecovery, Terminal
<1>3. CASE jr.phase = "SnapshotPromoted"
  <2>1. PlanPromoted(jr, snap, int, obs, dir) \in {"CommitIntent", "FinalizeCommittedIntent"}
    BY <1>3 DEF PlanRecovery, Terminal
  <2> QED BY <2>1 DEF PlanPromoted
<1>4. CASE jr.phase = "CoreApplied"
  BY <1>4
<1>5. CASE jr.phase = "RollbackPending"
  BY <1>5 DEF PlanRecovery, Terminal
<1>6. CASE jr.phase \notin Terminal \cup {"Prepared", "PromotionPending", "SnapshotPromoted",
                                         "CoreApplied", "RollbackPending"}
  <2>1. PlanRequired(jr, snap, int, obs, dir) \in {"CommitIntent", "FinalizeCommittedIntent"}
    BY <1>6 DEF PlanRecovery
  <2> QED BY <2>1 DEF PlanRequired
<1> QED BY <1>1, <1>2, <1>3, <1>4, <1>5, <1>6

\* Only an ended transaction is cleaned up.
LEMMA CleanupNeedsEnd ==
  ASSUME NEW jr, NEW snap, NEW int, NEW obs, NEW dir,
         PlanRecovery(jr, snap, int, obs, dir) = "CleanupTerminal"
  PROVE  jr.phase \in Terminal
<1>1. CASE jr.phase \in {"Prepared", "PromotionPending"}
  <2>1. PlanBeforePromotion(snap, dir) # "CleanupTerminal"
    BY DEF PlanBeforePromotion
  <2> QED BY <1>1, <2>1 DEF PlanRecovery, Terminal
<1>2. CASE jr.phase = "SnapshotPromoted"
  <2>1. PlanPromoted(jr, snap, int, obs, dir) # "CleanupTerminal"
    BY DEF PlanPromoted
  <2> QED BY <1>2, <2>1 DEF PlanRecovery, Terminal
<1>3. CASE jr.phase = "CoreApplied"
  <2>1. PlanApplied(int, dir) # "CleanupTerminal"
    BY DEF PlanApplied
  <2> QED BY <1>3, <2>1 DEF PlanRecovery, Terminal
<1>4. CASE jr.phase = "RollbackPending"
  BY <1>4 DEF PlanRecovery, Terminal
<1>5. CASE jr.phase \notin Terminal \cup {"Prepared", "PromotionPending", "SnapshotPromoted",
                                         "CoreApplied", "RollbackPending"}
  <2>1. PlanRequired(jr, snap, int, obs, dir) # "CleanupTerminal"
    BY DEF PlanRequired
  <2> QED BY <1>5, <2>1 DEF PlanRecovery
<1> QED BY <1>1, <1>2, <1>3, <1>4, <1>5

LEMMA PlanSolo ==
  ASSUME OneCli, Typed, Solo, NEW c \in CLIs, Plan(c) PROVE Solo'
<1>1. /\ UNCHANGED <<journal, gate, snapshot, past>> /\ core' = core /\ CoreStays
      /\ pc[c] \in {"plan", "replan"} /\ Underway(c) /\ pc[c] \notin Cleaning
  BY DEF Plan, files, CoreStays, Underway, Cleaning
<1>2. Outcomes'
  BY <1>1, OutcomesStay
<1> DEFINE jr == [held[c] EXCEPT !.evOk = EvidencePresent(c)]
           action == PlanRecovery(jr, ClassifySnapshot(snapshot, held[c]),
                                  ClassifyIntent(intent, held[c]), seen[c], Direction(c))
<1>3. CASE RouteRefusal(c)
  <2>1. "resetStop" \in Plain
    BY DEF Plain, PCs, Cleaning, Resetting
  <2> QED BY <1>1, <1>2, <1>3, <2>1, PlainSolo, ExitSolo DEF RouteRefusal, locals
<1>4. CASE Goto(c, PlannedStep(c, action)) /\ UNCHANGED locals
  <2> DEFINE l == PlannedStep(c, action)
  <2>1. pc'[c] = l /\ held' = held /\ seen' = seen
    BY <1>4 DEF Goto, Typed, LocalsOK, locals
  <2>2. /\ CarriesActive(c) /\ Open(journal)
        /\ jr.phase = journal.phase /\ jr.cand = journal.cand /\ jr.target = journal.target
    <3>1. held[c] \in Journals
      BY <1>1, HeldTyped DEF Underway
    <3>2. CarriesActive(c) /\ Open(journal)
      BY <1>1 DEF Solo, Follows
    <3> QED BY <3>1, <3>2 DEF Journals, CarriesActive
  <2>3. CASE action \in {"CommitIntent", "FinalizeCommittedIntent"}
    <3>1. jr.phase = "CoreApplied" \/ RunsCandidate(jr, seen[c])
      <4>1. PICK snap, int, dir : action = PlanRecovery(jr, snap, int, seen[c], dir)
        OBVIOUS
      <4> HIDE DEF jr, action
      <4> QED BY <2>3, <4>1, CommitNeedsCandidate
    <3>2. CandidateRuns
      <4>1. CASE jr.phase = "CoreApplied"
        BY <2>2, <4>1 DEF Solo, AppliedRuns, CarriesActive
      <4>2. CASE RunsCandidate(jr, seen[c])
        BY <1>1, <2>2, <4>2 DEF Solo, Knows, RunsCandidate, CandidateRuns, OnlyRuns
      <4> QED BY <3>1, <4>1, <4>2
    <3>3. l \in {"commit", "casCommitted"}
      BY <2>3 DEF PlannedStep
    <3>4. Working(c)'
      BY <1>1, <2>1, <2>2, <3>2, <3>3
      DEF Working, Follows, Restores, Knows, Underway, Cleaning, Resetting, CarriesActive, Open,
          CandidateRuns, OnlyRuns
    <3> QED BY <1>2, <3>4, OnlyCommand
  <2>4. CASE action = "CleanupTerminal"
    BY <2>2, <2>4, CleanupNeedsEnd DEF Open
  <2>5. CASE action \notin {"CommitIntent", "FinalizeCommittedIntent", "CleanupTerminal"}
    <3>1. l \in {"repair", "apply", "quiesce", "casRollback"}
      BY <2>5 DEF PlannedStep
    <3>2. Working(c)'
      BY <1>1, <2>1, <2>2, <3>1
      DEF Solo, Working, Follows, Restores, Knows, Underway, Cleaning, Resetting, CarriesActive,
          Open, OnlyRuns
    <3> QED BY <1>2, <3>2, OnlyCommand
  <2> QED BY <2>3, <2>4, <2>5
<1> QED BY <1>3, <1>4 DEF Plan

-----------------------------------------------------------------------------
(* The phases.                                                             *)

LEMMA PhaseFields ==
  ASSUME NEW jr \in Journals, NEW phase, NEW jn, jn = [jr EXCEPT !.phase = phase]
  PROVE  /\ jn # NoTx \/ phase \notin Phases
         /\ jn.gen = jr.gen /\ jn.phase = phase /\ jn.target = jr.target /\ jn.base = jr.base
         /\ jn.cand = jr.cand /\ jn.old = jr.old /\ jn.ev = jr.ev /\ jn.candPid = jr.candPid
<1>1. phase \in Phases => jn \in Journals
  BY PhaseTyped
<1> QED BY <1>1, NullsAssumption DEF Journals

LEMMA AdvancePhaseSolo ==
  ASSUME OneCli, Typed, Solo, NEW c \in CLIs, AdvancePhase(c) PROVE Solo'
<1>1. /\ journal \in Journals /\ pc[c] \in CasPCs
      /\ ValidPhaseTransition(journal.phase, CasTarget(pc[c]))
      /\ journal' = [journal EXCEPT !.phase = CasTarget(pc[c])]
  BY DEF AdvancePhase, CasPossible, Fenced, Typed, FilesOK
<1>2. CasTarget(pc[c]) \in Phases
  BY <1>1, CasTargetTyped
<1>3. /\ journal' # NoTx /\ journal'.gen = journal.gen /\ journal'.phase = CasTarget(pc[c])
      /\ journal'.target = journal.target /\ journal'.base = journal.base
      /\ journal'.cand = journal.cand /\ journal'.old = journal.old
      /\ journal'.ev = journal.ev /\ journal'.candPid = journal.candPid
  BY <1>1, <1>2, PhaseFields
<1>4. UNCHANGED <<gate, snapshot, core, past>>
  BY DEF AdvancePhase
<1>5. Underway(c) /\ journal # NoTx /\ CarriesActive(c) /\ pc[c] \notin Cleaning /\ Open(journal)
  BY <1>1 DEF CasPCs, Underway, Cleaning, Solo, Follows, CarriesActive
<1>6. GateOwned'
  BY <1>3, <1>4, <1>5 DEF Solo, GateOwned
<1>7. RolledBackRestoresSnapshot'
  BY <1>1, <1>3, <1>4 DEF CasPCs, CasTarget, Solo, Restores, RolledBackRestoresSnapshot
<1>8. AppliedRuns'
  BY <1>1, <1>3, <1>4
  DEF CasPCs, CasTarget, Solo, Knows, AppliedRuns, CandidateRuns, OnlyRuns
<1>9. Working(c)'
  <2>1. CASE pc[c] = "casConflict"
    <3>1. pc'[c] = "idle"
      BY <2>1 DEF AdvancePhase, Exit, Goto, Typed, LocalsOK
    <3> QED BY <3>1, IdleWorking
  <2>2. CASE pc[c] # "casConflict"
    <3>1. pc'[c] = AfterCas(c) /\ held'[c] = journal' /\ seen' = seen
      BY <2>2 DEF AdvancePhase, Goto, Typed, LocalsOK
    <3>2. CarriesActive(c)'
      BY <1>3, <3>1 DEF CarriesActive
    <3>3. CASE AfterCas(c) = "replan"
      <4>1. pc[c] \in {"repair", "casApplied"}
        BY <1>1, <2>2, <3>3 DEF AfterCas, CasPCs
      <4>2. CasTarget(pc[c]) \notin Terminal
        BY <4>1 DEF CasTarget, Terminal
      <4> QED BY <1>3, <1>4, <3>1, <3>2, <3>3, <4>1, <4>2
          DEF Solo, Working, Follows, Restores, Knows, Underway, Cleaning, Resetting, Open, OnlyRuns
    <3>4. CASE AfterCas(c) = "commit"
      <4>1. pc[c] = "casApplied" /\ CasTarget(pc[c]) \notin Terminal
        BY <1>1, <2>2, <3>4 DEF AfterCas, CasPCs, CasTarget, Terminal
      <4> QED BY <1>3, <1>4, <3>1, <3>2, <3>4, <4>1
          DEF Solo, Working, Follows, Restores, Knows, Underway, Cleaning, Resetting, Open,
              CandidateRuns, OnlyRuns
    <3>5. CASE AfterCas(c) = "cleanGate"
      <4>1. CasTarget(pc[c]) \in Terminal
        BY <1>1, <2>2, <3>5 DEF AfterCas, CasPCs, CasTarget, Terminal
      <4> QED BY <1>3, <3>1, <3>2, <3>5, <4>1
          DEF Working, Follows, Restores, Knows, Underway, Cleaning, Resetting, Open
    <3>6. CASE AfterCas(c) \in {"promoteCheck", "apply", "quiesce"}
      <4>1. CasTarget(pc[c]) \notin Terminal
        BY <1>1, <2>2, <3>6 DEF AfterCas, CasPCs, CasTarget, Terminal
      <4> QED BY <1>3, <3>1, <3>2, <3>6, <4>1
          DEF Working, Follows, Restores, Knows, Underway, Cleaning, Resetting, Open
    <3> QED BY <3>3, <3>4, <3>5, <3>6 DEF AfterCas
  <2> QED BY <2>1, <2>2
<1> QED BY <1>6, <1>7, <1>8, <1>9, OnlyCommand DEF Outcomes

\* A cancellation is never rejected: nobody else moves the journal.
LEMMA CasRejectedSolo ==
  ASSUME OneCli, Typed, Solo, NEW c \in CLIs, CasRejected(c) PROVE Solo'
<1>1. /\ pc[c] \in CasPCs /\ ~CasPossible(c) /\ UNCHANGED <<journal, gate, snapshot, past>> /\ CoreStays
  BY DEF CasRejected, files, CoreStays
<1>2. Underway(c) /\ pc[c] \notin Cleaning
  BY <1>1 DEF CasPCs, Underway, Cleaning
<1>3. pc[c] # "cancel"
  BY <1>1, <1>2 DEF Solo, Follows, CarriesActive, CasPossible, Fenced, ValidPhaseTransition, CasTarget
<1> QED BY <1>1, <1>2, <1>3, OutcomesStay, FailSolo DEF CasRejected

-----------------------------------------------------------------------------
(* A `tun` command's own transaction.                                      *)

LEMMA CollectEvidenceSolo ==
  ASSUME OneCli, Typed, Solo, NEW c \in CLIs, CollectEvidence(c) PROVE Solo'
<1>1. UNCHANGED <<journal, gate, snapshot, past>> /\ CoreStays /\ pc[c] = "ready"
  BY DEF CollectEvidence, files, CoreStays
<1>2. CASE core = NoCore
  BY <1>1, <1>2, OutcomesStay, ExitSolo DEF CollectEvidence
<1>3. CASE core # NoCore
  <2>1. pc'[c] = "publish"
    BY <1>3 DEF CollectEvidence, Goto, Typed, LocalsOK
  <2>2. Working(c)'
    BY <1>1, <2>1 DEF Solo, Working, Follows, Restores, Knows, Underway, Cleaning, Resetting
  <2> QED BY <1>1, <2>2, OutcomesStay, OnlyCommand
<1> QED BY <1>2, <1>3

LEMMA PublishSolo ==
  ASSUME OneCli, Typed, Solo, NEW c \in CLIs, Publish(c) PROVE Solo'
<1>1. journal' \in Journals /\ generation' \in 1..MaxGen /\ journal' # NoTx
  BY PublishedTyped, NullsAssumption
<1>2. PICK base, cand, ev : journal' =
        [gen |-> generation', phase |-> "Prepared", target |-> Target(c), base |-> base,
         cand |-> cand, old |-> snapshot, ev |-> ev, evOk |-> TRUE, candPid |-> NoPid]
  BY DEF Publish
<1>3. journal'.gen = generation' /\ journal'.phase = "Prepared" /\ journal'.old = snapshot
  BY <1>2
<1>4. gate = NoGen /\ UNCHANGED <<snapshot, core, past>>
  BY DEF Publish
<1>5. RolledBackRestoresSnapshot' /\ AppliedRuns'
  BY <1>3 DEF RolledBackRestoresSnapshot, AppliedRuns
<1>6. CASE gate' = generation' /\ held' = [held EXCEPT ![c] = journal'] /\ Goto(c, "validate")
  <2>1. held'[c] = journal' /\ pc'[c] = "validate"
    BY <1>6 DEF Goto, Typed, LocalsOK
  <2>2. GateOwned'
    BY <1>1, <1>3, <1>6 DEF GateOwned
  <2>3. Working(c)'
    BY <1>1, <1>3, <1>4, <2>1
    DEF Working, Follows, Restores, Knows, Underway, Cleaning, Resetting, CarriesActive, Open,
        Terminal
  <2> QED BY <1>5, <2>2, <2>3, OnlyCommand DEF Outcomes
<1>7. CASE Exit(c) /\ UNCHANGED gate
  <2>1. GateOwned'
    BY <1>4, <1>7 DEF GateOwned
  <2> QED BY <1>5, <1>7, <2>1, ExitSolo DEF Outcomes
<1> QED BY <1>6, <1>7 DEF Publish

LEMMA ValidateSolo ==
  ASSUME OneCli, Typed, Solo, NEW c \in CLIs, Validate(c) PROVE Solo'
<1>1. /\ UNCHANGED <<journal, gate, snapshot, held, past>> /\ CoreStays /\ pc[c] = "validate"
      /\ pc'[c] \in {"casPending", "cancel"}
  BY DEF Validate, files, locals, CoreStays, Goto, Typed, LocalsOK
<1>2. Working(c)'
  BY <1>1 DEF Solo, Working, Follows, Restores, Knows, Underway, Cleaning, Resetting,
              CarriesActive, Open
<1> QED BY <1>1, <1>2, OutcomesStay, OnlyCommand

LEMMA PromoteCheckSolo ==
  ASSUME OneCli, Typed, Solo, NEW c \in CLIs, PromoteCheck(c) PROVE Solo'
<1>1. UNCHANGED <<journal, gate, snapshot, held, past>> /\ CoreStays /\ pc[c] = "promoteCheck"
  BY DEF PromoteCheck, files, locals, CoreStays
<1>2. \E l \in Plain : Goto(c, l)
  BY DEF PromoteCheck, Plain, PCs, Cleaning, Resetting
<1> QED BY <1>1, <1>2, OutcomesStay, PlainSolo DEF Underway, Cleaning

LEMMA PromoteWriteSolo ==
  ASSUME OneCli, Typed, Solo, NEW c \in CLIs, PromoteWrite(c) PROVE Solo'
<1>1. /\ UNCHANGED <<journal, gate, held, core, past>> /\ pc[c] = "promoteWrite"
      /\ pc'[c] = "casPromoted"
  BY DEF PromoteWrite, locals, Goto, Typed, LocalsOK
<1>2. Open(journal)
  BY <1>1 DEF Solo, Follows, Underway, Cleaning
<1>3. Outcomes'
  BY <1>1, <1>2
  DEF Solo, Outcomes, GateOwned, RolledBackRestoresSnapshot, AppliedRuns, CandidateRuns, OnlyRuns,
      Open, Terminal
<1>4. Working(c)'
  BY <1>1 DEF Solo, Working, Follows, Restores, Knows, Underway, Cleaning, Resetting,
              CarriesActive, Open
<1> QED BY <1>3, <1>4, OnlyCommand

-----------------------------------------------------------------------------
(* Steps a transaction and its recovery share.                             *)

LEMMA ApplySolo ==
  ASSUME OneCli, Typed, History, Solo, NEW c \in CLIs, Apply(c) PROVE Solo'
<1>1. UNCHANGED <<journal, gate, snapshot, past>> /\ pc[c] = "apply"
  BY DEF Apply, files
<1>2. Underway(c) /\ pc[c] \notin Cleaning
  BY <1>1 DEF Underway, Cleaning
<1>3. ASSUME ApplyRefused(c), Outcomes' PROVE Solo'
  <2>1. "casRollback" \in Plain
    BY DEF Plain, PCs, Cleaning, Resetting
  <2> QED BY <1>1, <1>2, <1>3, <2>1, ExitSolo, PlainSolo DEF ApplyRefused, locals
<1>4. ASSUME ApplyAdmitted(c) PROVE Outcomes'
  BY <1>1, <1>4
  DEF Solo, Outcomes, GateOwned, RolledBackRestoresSnapshot, AppliedRuns, ApplyAdmitted
<1>5. CASE ~ApplyAdmitted(c) /\ ApplyRefused(c) /\ UNCHANGED <<core, faults>>
  BY <1>1, <1>3, <1>5, OutcomesStay DEF CoreStays
<1>6. CASE /\ ApplyAdmitted(c)
           /\ IF RunsCandidate(journal, core)
              THEN UNCHANGED <<core, faults>>
              ELSE StartsAsAsked("snapshot", snapshot)
           /\ seen' = [seen EXCEPT ![c] = core']
           /\ Goto(c, "record") /\ UNCHANGED <<op, role, held>>
  <2>1. pc'[c] = "record" /\ held' = held /\ seen'[c] = core'
    BY <1>6 DEF Goto, Typed, LocalsOK
  <2>2. journal \in Journals /\ journal # NoTx /\ snapshot = journal.cand
    BY <1>6 DEF ApplyAdmitted, Typed, FilesOK
  <2>3. journal.cand.tun = journal.target
    BY <2>2 DEF History, JournalHistory, Candidate, Journals, Configs
  <2>4. core' # NoCore /\ core'.rev = journal.cand /\ core'.tun = journal.target
    <3>1. CASE RunsCandidate(journal, core)
      BY <1>6, <3>1 DEF RunsCandidate
    <3>2. CASE StartsAsAsked("snapshot", snapshot)
      <4>1. core' \in Cores
        BY <2>2, <3>2, StartsTyped DEF Typed, Sources, Journals
      <4>2. PICK p \in FreshPids :
              core' = [pid |-> p, rev |-> snapshot, tun |-> snapshot.tun, api |-> TRUE,
                       src |-> "snapshot"]
        BY <3>2 DEF StartsAsAsked, Launched
      <4> QED BY <2>2, <2>3, <4>1, <4>2, NullsAssumption
    <3> QED BY <1>6, <3>1, <3>2
  <2>5. Working(c)'
    BY <1>1, <2>1, <2>4
    DEF Solo, Working, Follows, Restores, Knows, Underway, Cleaning, Resetting, CarriesActive,
        Open, CandidateRuns, OnlyRuns
  <2> QED BY <1>4, <1>6, <2>5, OnlyCommand
<1>7. CASE ApplyAdmitted(c) /\ ApplyRefused(c)
  BY <1>3, <1>4, <1>7
<1> QED BY <1>5, <1>6, <1>7 DEF Apply

LEMMA RecordSolo ==
  ASSUME OneCli, Typed, Solo, NEW c \in CLIs, Record(c) PROVE Solo'
<1>1. UNCHANGED <<gate, snapshot, core, past>> /\ pc[c] = "record"
  BY DEF Record
<1>2. Underway(c) /\ pc[c] \notin Cleaning
  BY <1>1 DEF Underway, Cleaning
<1>3. CASE Fenced(c)
  <2>1. journal \in Journals /\ journal' = [journal EXCEPT !.candPid = seen[c].pid]
    BY <1>3 DEF Record, Fenced, Typed, FilesOK
  <2>2. seen[c] \in Cores
    BY <1>1 DEF Typed, LocalsOK, Carries
  <2>3. PICK p \in Pids : p = seen[c].pid
    BY <2>2 DEF Cores
  <2>4. journal' \in Journals
    BY <2>1, <2>3 DEF Journals
  <2>5. /\ journal' # NoTx /\ journal'.gen = journal.gen /\ journal'.phase = journal.phase
        /\ journal'.target = journal.target /\ journal'.cand = journal.cand
        /\ journal'.old = journal.old /\ journal'.ev = journal.ev
    BY <2>1, <2>4, NullsAssumption DEF Journals
  <2>6. pc'[c] = "casApplied" /\ held'[c] = journal' /\ seen' = seen
    BY <1>3 DEF Record, Goto, Typed, LocalsOK
  <2>7. CarriesActive(c)'
    BY <2>5, <2>6 DEF CarriesActive
  <2>8. Outcomes'
    BY <1>1, <1>3, <2>5
    DEF Solo, Outcomes, GateOwned, RolledBackRestoresSnapshot, AppliedRuns, CandidateRuns,
        OnlyRuns, Fenced
  <2>9. Working(c)'
    BY <1>1, <1>2, <2>5, <2>6, <2>7
    DEF Solo, Working, Follows, Restores, Knows, Underway, Cleaning, Resetting, Open,
        CandidateRuns, OnlyRuns
  <2> QED BY <2>8, <2>9, OnlyCommand
<1>4. CASE ~Fenced(c)
  BY <1>1, <1>2, <1>4, OutcomesStay, FailSolo DEF Record, CoreStays
<1> QED BY <1>3, <1>4

LEMMA CommitSolo ==
  ASSUME OneCli, Typed, Solo, NEW c \in CLIs, Commit(c) PROVE Solo'
<1>1. UNCHANGED <<journal, gate, snapshot, past>> /\ core' = core /\ pc[c] = "commit"
  BY DEF Commit, files
<1>2. Underway(c) /\ pc[c] \notin Cleaning
  BY <1>1 DEF Underway, Cleaning
<1>3. Outcomes'
  BY <1>1, OutcomesStay DEF CoreStays
<1>4. ASSUME NEW l \in {"casCommitted", "attest"}, Goto(c, l), UNCHANGED locals PROVE Solo'
  <2>1. pc'[c] = l /\ held' = held
    BY <1>4 DEF Goto, Typed, LocalsOK, locals
  <2>2. Working(c)'
    BY <1>1, <1>4, <2>1
    DEF Solo, Working, Follows, Restores, Knows, Underway, Cleaning, Resetting, CarriesActive,
        Open, CandidateRuns, OnlyRuns
  <2> QED BY <1>3, <2>2, OnlyCommand
<1>5. ASSUME Goto(c, "casRollback"), held' = held PROVE Solo'
  <2>1. "casRollback" \in Plain
    BY DEF Plain, PCs, Cleaning, Resetting
  <2> QED BY <1>1, <1>2, <1>3, <1>5, <2>1, PlainSolo
<1> QED BY <1>1, <1>2, <1>3, <1>4, <1>5, ExitSolo, FailSolo DEF Commit

LEMMA AttestSolo ==
  ASSUME OneCli, Typed, Solo, NEW c \in CLIs, Attest(c) PROVE Solo'
<1>1. UNCHANGED <<journal, gate, snapshot, past>> /\ core' = core /\ pc[c] = "attest"
  BY DEF Attest, files
<1>2. Underway(c) /\ pc[c] \notin Cleaning
  BY <1>1 DEF Underway, Cleaning
<1>3. Outcomes'
  BY <1>1, OutcomesStay DEF CoreStays
<1>4. CASE Goto(c, "casCommitted") /\ UNCHANGED locals
  <2>1. pc'[c] = "casCommitted" /\ held' = held
    BY <1>4 DEF Goto, Typed, LocalsOK, locals
  <2>2. Working(c)'
    BY <1>1, <2>1
    DEF Solo, Working, Follows, Restores, Knows, Underway, Cleaning, Resetting, CarriesActive,
        Open, CandidateRuns, OnlyRuns
  <2> QED BY <1>3, <2>2, OnlyCommand
<1> QED BY <1>1, <1>2, <1>3, <1>4, FailSolo DEF Attest

LEMMA QuiesceSolo ==
  ASSUME OneCli, Typed, Solo, NEW c \in CLIs, Quiesce(c) PROVE Solo'
<1>1. UNCHANGED <<journal, gate, snapshot, past>> /\ CoreStays /\ pc[c] = "quiesce"
  BY DEF Quiesce, files, CoreStays
<1>2. Underway(c) /\ pc[c] \notin Cleaning
  BY <1>1 DEF Underway, Cleaning
<1>3. "restoreSnapshot" \in Plain
  BY DEF Plain, PCs, Cleaning, Resetting
<1> QED BY <1>1, <1>2, <1>3, OutcomesStay, FailSolo, PlainSolo DEF Quiesce, locals

LEMMA RestoreSnapshotSolo ==
  ASSUME OneCli, Typed, Solo, NEW c \in CLIs, RestoreSnapshot(c) PROVE Solo'
<1>1. UNCHANGED <<journal, gate, core, past>> /\ pc[c] = "restoreSnapshot"
  BY DEF RestoreSnapshot
<1>2. Underway(c) /\ pc[c] \notin Cleaning
  BY <1>1 DEF Underway, Cleaning
<1>3. CASE Fenced(c) /\ journal.old = held[c].old
  <2>1. snapshot' = journal.old /\ pc'[c] = "restoreRuntime" /\ held' = held
    BY <1>3 DEF RestoreSnapshot, SavedSnapshot, Goto, Typed, LocalsOK, locals
  <2>2. Outcomes'
    BY <1>1, <2>1
    DEF Solo, Outcomes, GateOwned, RolledBackRestoresSnapshot, AppliedRuns, CandidateRuns, OnlyRuns
  <2>3. Working(c)'
    BY <1>1, <2>1
    DEF Solo, Working, Follows, Restores, Knows, Underway, Cleaning, Resetting, CarriesActive, Open
  <2> QED BY <2>2, <2>3, OnlyCommand
<1>4. CASE ~(Fenced(c) /\ journal.old = held[c].old)
  BY <1>1, <1>2, <1>4, OutcomesStay, FailSolo DEF RestoreSnapshot, CoreStays
<1> QED BY <1>3, <1>4

LEMMA RestoreRuntimeSolo ==
  ASSUME OneCli, Typed, Solo, NEW c \in CLIs, RestoreRuntime(c) PROVE Solo'
<1>1. UNCHANGED <<journal, gate, snapshot, past>> /\ pc[c] = "restoreRuntime"
  BY DEF RestoreRuntime, files
<1>2. Underway(c) /\ pc[c] \notin Cleaning
  BY <1>1 DEF Underway, Cleaning
<1>3. CASE ~RestoreAdmitted(c) /\ Fail(c) /\ UNCHANGED <<core, faults>>
  BY <1>1, <1>2, <1>3, OutcomesStay, FailSolo DEF CoreStays
<1>4. ASSUME RestoreAdmitted(c) PROVE Outcomes'
  BY <1>1, <1>4
  DEF Solo, Outcomes, GateOwned, RolledBackRestoresSnapshot, AppliedRuns, RestoreAdmitted
<1>5. CASE /\ RestoreAdmitted(c) /\ MatchesRestoredOld(journal.ev, core')
           /\ Goto(c, "casRolledBack") /\ UNCHANGED locals
  <2>1. pc'[c] = "casRolledBack" /\ held' = held
    BY <1>5 DEF Goto, Typed, LocalsOK, locals
  <2>2. Working(c)'
    BY <1>1, <1>5, <2>1
    DEF Solo, Working, Follows, Restores, Knows, Underway, Cleaning, Resetting, CarriesActive,
        Open, OnlyRuns, MatchesRestoredOld
  <2> QED BY <1>4, <1>5, <2>2, OnlyCommand
<1>6. CASE RestoreAdmitted(c) /\ Fail(c)
  BY <1>1, <1>2, <1>4, <1>6, FailSolo
<1> QED BY <1>3, <1>5, <1>6 DEF RestoreRuntime

LEMMA MarkRequiredSolo ==
  ASSUME OneCli, Typed, Solo, NEW c \in CLIs, MarkRequired(c) PROVE Solo'
<1>1. UNCHANGED <<gate, snapshot, core, past>> /\ Exit(c)
  BY DEF MarkRequired
<1>2. CASE journal' = journal
  BY <1>1, <1>2, OutcomesStay, ExitSolo DEF CoreStays
<1>3. CASE Open(journal) /\ journal' = [journal EXCEPT !.phase = "RecoveryRequired"]
  <2>1. journal \in Journals
    BY <1>3 DEF Open, Typed, FilesOK
  <2>2. /\ journal' # NoTx /\ journal'.gen = journal.gen /\ journal'.phase = "RecoveryRequired"
    BY <1>3, <2>1, PhaseFields DEF Phases
  <2>3. Outcomes'
    BY <1>1, <1>3, <2>2
    DEF Solo, Outcomes, GateOwned, RolledBackRestoresSnapshot, AppliedRuns, Open
  <2> QED BY <1>1, <2>3, ExitSolo
<1> QED BY <1>2, <1>3 DEF MarkRequired

-----------------------------------------------------------------------------
(* Cleanup, reset, the commands themselves, the environment.               *)

\* The gate a command removes is the gate there is: none is left, or the one whose
\* removal just failed.
LEMMA GateGone ==
  ASSUME Typed, Solo, NEW c \in CLIs, Underway(c), RemoveGate(c)
  PROVE  gate' = NoGen \/ (gate' = gate /\ gate' = past'.stuck)
BY DEF Solo, GateOwned, Follows, CarriesActive, GateWithout, RemoveGate, Typed, StateOK

LEMMA CleanGateSolo ==
  ASSUME OneCli, Typed, Solo, NEW c \in CLIs, CleanGate(c) PROVE Solo'
<1>1. /\ UNCHANGED <<journal, snapshot, core, held>> /\ pc[c] = "cleanGate"
      /\ pc'[c] = "cleanActive" /\ RemoveGate(c)
  BY DEF CleanGate, locals, Goto, Typed, LocalsOK
<1>2. gate' = NoGen \/ (gate' = gate /\ gate' = past'.stuck)
  BY <1>1, GateGone DEF Underway
<1>3. Outcomes'
  BY <1>1, <1>2
  DEF Solo, Outcomes, GateOwned, RolledBackRestoresSnapshot, AppliedRuns, CandidateRuns, OnlyRuns
<1>4. Working(c)'
  BY <1>1, <1>2
  DEF Solo, Working, Follows, Restores, Knows, Underway, Cleaning, Resetting, CarriesActive, Open
<1> QED BY <1>3, <1>4, OnlyCommand

\* A step after which there is no transaction.
LEMMA NoTransaction ==
  ASSUME journal' = NoTx, gate' \in {NoGen, past'.stuck} PROVE Outcomes'
BY DEF Outcomes, GateOwned, RolledBackRestoresSnapshot, AppliedRuns

LEMMA RecoveredSolo ==
  ASSUME OneCli, Typed, NEW c \in CLIs, Recovered(c), journal' = NoTx,
         gate' \in {NoGen, past'.stuck}
  PROVE  Solo'
<1>1. pc'[c] = "ready"
  BY DEF Recovered, Goto, Typed, LocalsOK
<1>2. Working(c)'
  BY <1>1 DEF Working, Follows, Restores, Knows, Underway, Cleaning, Resetting
<1> QED BY <1>2, NoTransaction, OnlyCommand

LEMMA CleanActiveSolo ==
  ASSUME OneCli, Typed, Solo, NEW c \in CLIs, CleanActive(c) PROVE Solo'
<1>1. pc[c] = "cleanActive" /\ UNCHANGED <<gate, past>>
  BY DEF CleanActive
<1>2. /\ journal # NoTx /\ journal.gen = held[c].gen /\ ~Open(journal)
      /\ gate \in {NoGen, past.stuck}
  BY <1>1 DEF Solo, Follows, Restores, CarriesActive, Underway, Cleaning
<1>3. journal' = NoTx /\ gate' \in {NoGen, past'.stuck}
  BY <1>1, <1>2 DEF CleanActive
<1> QED BY <1>3, RecoveredSolo, NoTransaction, ExitSolo DEF CleanActive

LEMMA ResetStopSolo ==
  ASSUME OneCli, Typed, Solo, NEW c \in CLIs, ResetStop(c) PROVE Solo'
<1>1. UNCHANGED <<journal, gate, snapshot>> /\ past'.stuck = past.stuck /\ pc[c] = "resetStop"
  BY DEF ResetStop, files, Typed, StateOK
<1>2. journal # NoTx /\ Open(journal)
  BY <1>1 DEF Solo, Follows, CarriesActive, Underway, Cleaning
<1>3. CASE Exit(c) /\ UNCHANGED <<core, faults>>
  BY <1>1, <1>3, OutcomesStay, ExitSolo DEF CoreStays
<1>4. CASE /\ core' = NoCore \/ (NoRunningCore /\ UNCHANGED core)
           /\ held' = [held EXCEPT ![c] = journal]
           /\ Goto(c, "resetGate")
  <2>1. core' = NoCore /\ held'[c] = journal /\ pc'[c] = "resetGate"
    BY <1>4 DEF NoRunningCore, Goto, Typed, LocalsOK
  <2>2. Outcomes'
    BY <1>1, <2>1, OutcomesStay DEF CoreStays
  <2>3. Working(c)'
    BY <1>1, <1>2, <2>1
    DEF Working, Follows, Restores, Knows, Underway, Cleaning, Resetting, CarriesActive, Open
  <2> QED BY <2>2, <2>3, OnlyCommand
<1> QED BY <1>2, <1>3, <1>4 DEF ResetStop

LEMMA ResetGateSolo ==
  ASSUME OneCli, Typed, Solo, NEW c \in CLIs, ResetGate(c) PROVE Solo'
<1>1. /\ UNCHANGED <<journal, snapshot, core, held>> /\ pc[c] = "resetGate"
      /\ pc'[c] = "resetSnapshot" /\ RemoveGate(c)
  BY DEF ResetGate, locals, Goto, Typed, LocalsOK
<1>2. gate' = NoGen \/ (gate' = gate /\ gate' = past'.stuck)
  BY <1>1, GateGone DEF Underway
<1>3. Outcomes'
  BY <1>1, <1>2
  DEF Solo, Outcomes, GateOwned, RolledBackRestoresSnapshot, AppliedRuns, CandidateRuns, OnlyRuns
<1>4. Working(c)'
  BY <1>1, <1>2
  DEF Solo, Working, Follows, Restores, Knows, Underway, Cleaning, Resetting, CarriesActive, Open
<1> QED BY <1>3, <1>4, OnlyCommand

LEMMA ResetSnapshotSolo ==
  ASSUME OneCli, Typed, Solo, NEW c \in CLIs, ResetSnapshot(c) PROVE Solo'
<1>1. /\ UNCHANGED <<journal, gate, core, held, past>> /\ pc[c] = "resetSnapshot"
      /\ pc'[c] = "resetActive"
  BY DEF ResetSnapshot, locals, Goto, Typed, LocalsOK
<1>2. Open(journal)
  BY <1>1 DEF Solo, Follows, Underway, Cleaning
<1>3. Outcomes'
  BY <1>1, <1>2
  DEF Solo, Outcomes, GateOwned, RolledBackRestoresSnapshot, AppliedRuns, CandidateRuns, OnlyRuns,
      Open, Terminal
<1>4. Working(c)'
  BY <1>1
  DEF Solo, Working, Follows, Restores, Knows, Underway, Cleaning, Resetting, CarriesActive, Open
<1> QED BY <1>3, <1>4, OnlyCommand

LEMMA ResetActiveSolo ==
  ASSUME OneCli, Typed, Solo, NEW c \in CLIs, ResetActive(c) PROVE Solo'
<1>1. journal' = NoTx /\ gate' = gate /\ past'.stuck = past.stuck /\ gate \in {NoGen, past.stuck}
  BY DEF ResetActive, Solo, Restores, Typed, StateOK
<1> QED BY <1>1, RecoveredSolo, NoTransaction, ExitSolo DEF ResetActive

LEMMA PromoteSolo ==
  ASSUME OneCli, Typed, Solo, NEW c \in CLIs, Promote(c) PROVE Solo'
<1>1. pc[c] = "ready" /\ Exit(c) /\ UNCHANGED <<journal, gate, past>>
  BY DEF Promote
<1>2. journal' = NoTx /\ gate' \in {NoGen, past'.stuck}
  BY <1>1 DEF Solo, Follows, GateOwned
<1> QED BY <1>1, <1>2, NoTransaction, ExitSolo

LEMMA StopCoreSolo ==
  ASSUME OneCli, Typed, Solo, NEW c \in CLIs, StopCore(c) PROVE Solo'
<1>1. Exit(c) /\ UNCHANGED <<journal, gate, snapshot, past>> /\ CoreStays
  BY DEF StopCore, files, CoreStays
<1> QED BY <1>1, OutcomesStay, ExitSolo

LEMMA QuietExitSolo ==
  ASSUME OneCli, Typed, Solo, NEW c \in CLIs, Crash(c) \/ PublishRefused(c) PROVE Solo'
<1>1. Exit(c) /\ UNCHANGED <<journal, gate, snapshot, past>> /\ CoreStays
  BY DEF Crash, PublishRefused, files, CoreStays
<1> QED BY <1>1, OutcomesStay, ExitSolo

\* Commands go on where they are, over the same journal, snapshot and gate.
LEMMA StaySolo ==
  ASSUME Solo, UNCHANGED <<journal, gate, snapshot, past, pc, held, seen>>, CoreStays
  PROVE  Solo'
<1>1. Outcomes'
  BY OutcomesStay
<1>2. ASSUME NEW c \in CLIs PROVE Working(c)'
  BY <1>2, OnlyRunsStays
  DEF Solo, Working, Follows, Restores, Knows, Underway, Cleaning, Resetting, CarriesActive, Open,
      CandidateRuns, OnlyRuns, CoreStays
<1> QED BY <1>1, <1>2 DEF Solo, Outcomes, Working

LEMMA EvidenceLostSolo == ASSUME Typed, Solo, EvidenceLost PROVE Solo'
<1>1. /\ journal \in Journals /\ journal' = [journal EXCEPT !.evOk = FALSE]
      /\ UNCHANGED <<gate, snapshot, core, pc, held, seen, past>>
  BY DEF EvidenceLost, locals, Typed, FilesOK
<1>2. journal' \in Journals
  BY <1>1 DEF Journals
<1>3. /\ journal' # NoTx /\ journal'.gen = journal.gen /\ journal'.phase = journal.phase
      /\ journal'.target = journal.target /\ journal'.base = journal.base
      /\ journal'.cand = journal.cand /\ journal'.old = journal.old
      /\ journal'.ev = journal.ev /\ journal'.candPid = journal.candPid /\ journal # NoTx
  BY <1>1, <1>2, NullsAssumption DEF Journals
<1>4. Outcomes'
  BY <1>1, <1>3
  DEF Solo, Outcomes, GateOwned, RolledBackRestoresSnapshot, AppliedRuns, CandidateRuns, OnlyRuns
<1>5. ASSUME NEW c \in CLIs PROVE Working(c)'
  BY <1>1, <1>3
  DEF Solo, Working, Follows, Restores, Knows, Underway, Cleaning, Resetting, CarriesActive, Open,
      CandidateRuns, OnlyRuns
<1> QED BY <1>4, <1>5 DEF Solo, Outcomes, Working

LEMMA RebootSolo == ASSUME Typed, Solo, Reboot PROVE Solo'
<1>1. UNCHANGED <<journal, gate, snapshot, past>> /\ (core' = NoCore \/ ~Open(journal))
  BY DEF Reboot, Admitted, files
<1>2. Outcomes'
  BY <1>1
  DEF Solo, Outcomes, GateOwned, RolledBackRestoresSnapshot, AppliedRuns, CandidateRuns, OnlyRuns,
      Open, Terminal
<1>3. ASSUME NEW c \in CLIs PROVE Working(c)'
  <2>1. pc'[c] = "idle"
    BY DEF Reboot
  <2> QED BY <2>1, IdleWorking
<1> QED BY <1>2, <1>3 DEF Solo, Outcomes, Working

LEMMA EnvironmentSolo ==
  ASSUME Typed, Solo, Edit \/ CoreExits \/ EvidenceLost \/ Reboot PROVE Solo'
<1>1. CASE Edit
  BY <1>1, StaySolo DEF Edit, files, locals, CoreStays
<1>2. CASE CoreExits
  <2>1. CoreStays
    BY <1>2, NullsAssumption DEF CoreExits, CoreStays, Typed, StateOK, Cores
  <2> QED BY <1>2, <2>1, StaySolo DEF CoreExits, files, locals
<1> QED BY <1>1, <1>2, EvidenceLostSolo, RebootSolo

LEMMA StepSolo ==
  ASSUME OneCli, Typed, History, Solo, NEW c \in CLIs, Step(c) PROVE Solo'
BY ObserveSolo, PlanSolo, AdvancePhaseSolo, CasRejectedSolo, CollectEvidenceSolo, PublishSolo,
   QuietExitSolo, ValidateSolo, PromoteCheckSolo, PromoteWriteSolo, ApplySolo, RecordSolo,
   CommitSolo, AttestSolo, QuiesceSolo, RestoreSnapshotSolo, RestoreRuntimeSolo, MarkRequiredSolo,
   CleanGateSolo, CleanActiveSolo, ResetStopSolo, ResetGateSolo, ResetSnapshotSolo,
   ResetActiveSolo, PromoteSolo, StopCoreSolo
   DEF Step

LEMMA NextSolo ==
  ASSUME OneCli, Typed, History, Solo, [Next]_vars PROVE Solo'
<1>1. CASE UNCHANGED vars
  BY <1>1, StaySolo DEF vars, files, locals, CoreStays
<1>2. CASE Next
  BY <1>2, InvokeSolo, StepSolo, QuietExitSolo, EnvironmentSolo DEF Next
<1> QED BY <1>1, <1>2

LEMMA InitSolo == ASSUME Init PROVE Solo
BY DEF Init, Solo, GateOwned, RolledBackRestoresSnapshot, AppliedRuns, Follows, Restores, Knows,
       Underway, Cleaning, Resetting

LEMMA AlwaysSolo == OneCli => (Spec => [](Typed /\ History /\ Solo))
<1> SUFFICES ASSUME OneCli PROVE Spec => [](Typed /\ History /\ Solo)
  OBVIOUS
<1>1. Init => Solo
  BY InitSolo
<1>2. Typed /\ History /\ Solo /\ [Next]_vars => Solo'
  BY NextSolo
<1> QED BY <1>1, <1>2, AlwaysHistory, PTL DEF Spec

-----------------------------------------------------------------------------
(* The theorems.                                                           *)

\* A rolled back transaction has put back the snapshot it found (restore_snapshot),
\* however often the rollback was started again.
THEOREM SnapshotIsRestored == OneCli => (Spec => []RolledBackRestoresSnapshot)
<1>1. Solo => RolledBackRestoresSnapshot
  BY DEF Solo
<1> QED BY <1>1, AlwaysSolo, PTL

\* What a step reports agrees with the runtime: a commit finds the candidate or no
\* Core, a completed rollback the old runtime or none.
LEMMA OutcomeMatches ==
  ASSUME Typed, Solo, [Next]_vars, journal # NoTx, journal' # NoTx, core # NoCore
  PROVE  /\ journal.phase # "IntentCommitted" /\ journal'.phase = "IntentCommitted"
              => core.rev = journal.cand /\ core.tun = journal.target
         /\ journal.phase = "RollbackPending" /\ journal'.phase = "RolledBack"
              => core.rev = journal.ev.rev /\ core.tun = journal.ev.tun
<1> DEFINE Matches ==
      /\ journal.phase # "IntentCommitted" /\ journal'.phase = "IntentCommitted"
           => core.rev = journal.cand /\ core.tun = journal.target
      /\ journal.phase = "RollbackPending" /\ journal'.phase = "RolledBack"
           => core.rev = journal.ev.rev /\ core.tun = journal.ev.tun
<1> SUFFICES Matches
  OBVIOUS
<1>0. journal \in Journals
  BY DEF Typed, FilesOK
<1>1. CASE journal' = journal
  BY <1>1
<1>2. ASSUME NEW c \in CLIs, AdvancePhase(c) PROVE Matches
  <2>1. pc[c] \in CasPCs /\ journal' = [journal EXCEPT !.phase = CasTarget(pc[c])]
    BY <1>2 DEF AdvancePhase
  <2>2. journal'.phase = CasTarget(pc[c])
    BY <1>0, <2>1, PhaseFields
  <2>3. CASE pc[c] = "casCommitted"
    BY <2>2, <2>3 DEF CasTarget, Solo, Knows, CandidateRuns, OnlyRuns
  <2>4. CASE pc[c] = "casRolledBack"
    BY <2>2, <2>4 DEF CasTarget, Solo, Knows, OnlyRuns
  <2>5. CASE pc[c] = "cancel"
    BY <2>2, <2>5 DEF CasTarget, Solo, Follows
  <2>6. CASE pc[c] \notin {"casCommitted", "casRolledBack", "cancel"}
    BY <2>1, <2>2, <2>6 DEF CasTarget, CasPCs
  <2> QED BY <2>3, <2>4, <2>5, <2>6
<1>3. ASSUME NEW c \in CLIs, Publish(c) PROVE Matches
  BY <1>3 DEF Publish
<1>4. ASSUME NEW c \in CLIs, Record(c) PROVE Matches
  BY <1>0, <1>4 DEF Record, Journals
<1>5. ASSUME NEW c \in CLIs, MarkRequired(c) PROVE Matches
  BY <1>0, <1>5 DEF MarkRequired, Journals
<1>6. ASSUME EvidenceLost PROVE Matches
  BY <1>0, <1>6 DEF EvidenceLost, Journals
<1>7. ASSUME NEW c \in CLIs, CleanActive(c) \/ ResetActive(c) PROVE Matches
  BY <1>1, <1>7 DEF CleanActive, ResetActive
<1>8. ASSUME NEW c \in CLIs, QuietStep(c) \/ Plan(c) \/ Commit(c) \/ Attest(c) PROVE Matches
  <2>1. CASE QuietStep(c)
    BY <1>1, <2>1, QuietSteps DEF QuietMove
  <2> QED BY <1>1, <1>8, <2>1 DEF Plan, Commit, Attest, files
<1>9. CASE Next
  BY <1>1, <1>2, <1>3, <1>4, <1>5, <1>6, <1>7, <1>8, <1>9
  DEF Next, Step, QuietStep, Edit, CoreExits, Reboot, files
<1> QED BY <1>1, <1>9 DEF vars, files

THEOREM OutcomesMatchRuntime == OneCli => (Spec => TerminalMatchesRuntime)
<1> SUFFICES ASSUME OneCli PROVE Spec => TerminalMatchesRuntime
  OBVIOUS
<1> DEFINE Report ==
      /\ journal # NoTx /\ journal' # NoTx /\ core # NoCore
      => /\ journal.phase # "IntentCommitted" /\ journal'.phase = "IntentCommitted"
           => core.rev = journal.cand /\ core.tun = journal.target
         /\ journal.phase = "RollbackPending" /\ journal'.phase = "RolledBack"
           => core.rev = journal.ev.rev /\ core.tun = journal.ev.tun
<1>1. Typed /\ History /\ Solo /\ [Next]_vars => [Report]_vars
  BY OutcomeMatches
<1> QED BY <1>1, AlwaysSolo, PTL DEF Spec, TerminalMatchesRuntime

-----------------------------------------------------------------------------
(* The gate without resets, for every number of commands at once.          *)

NoResets == "restart-yes" \notin Ops

\* Whoever is about to archive a transaction has removed its gate, or failed to, and
\* no later gate has its generation.
Ungated(c) ==
  /\ op[c] # "restart-yes" /\ pc[c] \notin Resetting \cup {"resetStop"}
  /\ pc[c] = "cleanActive" => gate # held[c].gen \/ gate = past.stuck

Gated == GateOwned /\ \A c \in CLIs : Ungated(c)

\* A step of c that leaves gate and journal alone and leads to no cleanup.
Beside(c) ==
  /\ gate' = gate /\ past' = past
  /\ journal = NoTx => journal' = NoTx
  /\ journal # NoTx => journal' # NoTx /\ journal'.gen = journal.gen
  /\ \A d \in CLIs : d # c => UNCHANGED <<op[d], pc[d], held[d]>>
  /\ op'[c] # "restart-yes"
  /\ pc'[c] \notin Resetting \cup {"resetStop", "cleanActive"}

LEMMA BesideGated == ASSUME Gated, NEW c \in CLIs, Beside(c) PROVE Gated'
<1>1. GateOwned'
  BY DEF Gated, GateOwned, Beside
<1>2. ASSUME NEW d \in CLIs PROVE Ungated(d)'
  BY <1>2 DEF Gated, Ungated, Beside
<1> QED BY <1>1, <1>2 DEF Gated

\* The ways a command's own state changes, away from a reset.
LEMMA ExitBeside ==
  ASSUME Typed, Gated, NEW c \in CLIs, Exit(c) \/ Recovered(c) \/ Fail(c),
         UNCHANGED <<journal, gate, past>>
  PROVE  Beside(c)
<1>1. CASE Exit(c)
  BY <1>1 DEF Exit, Goto, Typed, LocalsOK, Gated, Ungated, Beside, Resetting
<1>2. CASE Recovered(c)
  BY <1>2 DEF Recovered, Goto, Typed, LocalsOK, Gated, Ungated, Beside, Resetting
<1>3. CASE Goto(c, "markRequired") /\ UNCHANGED locals
  BY <1>3 DEF locals, Goto, Typed, LocalsOK, Gated, Ungated, Beside, Resetting
<1> QED BY <1>1, <1>2, <1>3 DEF Fail

LEMMA GotoBeside ==
  ASSUME Typed, Gated, NEW c \in CLIs, UNCHANGED <<gate, past, op>>,
         journal = NoTx => journal' = NoTx,
         journal # NoTx => journal' # NoTx /\ journal'.gen = journal.gen,
         NEW l \in PCs \ (Resetting \cup {"resetStop", "cleanActive"}), Goto(c, l),
         \E jr : held' = [held EXCEPT ![c] = jr]
  PROVE  Beside(c)
BY DEF Goto, Typed, LocalsOK, Gated, Ungated, Beside

LEMMA SameHeld == ASSUME Typed, NEW c \in CLIs, held' = held PROVE \E jr : held' = [held EXCEPT ![c] = jr]
<1>1. held' = [held EXCEPT ![c] = held[c]]
  BY DEF Typed, LocalsOK
<1> QED BY <1>1

LEMMA QuietBeside ==
  ASSUME Typed, Gated, NoResets, NEW c \in CLIs,
         \/ Invoke(c) \/ Observe(c) \/ Plan(c) \/ CasRejected(c) \/ CollectEvidence(c)
         \/ PublishRefused(c) \/ Validate(c) \/ PromoteCheck(c) \/ PromoteWrite(c) \/ Apply(c)
         \/ Commit(c) \/ Attest(c) \/ Quiesce(c) \/ RestoreSnapshot(c) \/ RestoreRuntime(c)
         \/ Promote(c) \/ StopCore(c) \/ Crash(c)
  PROVE  Beside(c)
<1>1. CASE Invoke(c)
  BY <1>1 DEF Invoke, Goto, NoResets, files, Typed, LocalsOK, Gated, Ungated, Beside, Resetting
<1>2. CASE Observe(c)
  BY <1>2, GotoBeside, SameHeld DEF Observe, PCs, Resetting, files
<1>3. CASE Plan(c)
  <2>1. UNCHANGED <<journal, gate, past>>
    BY <1>3 DEF Plan, files
  <2>2. ~ResetAllowed(c)
    BY DEF Gated, Ungated, ResetAllowed
  <2>3. ASSUME NEW action, Goto(c, PlannedStep(c, action)), UNCHANGED locals PROVE Beside(c)
    <3>1. PlannedStep(c, action) \in PCs \ (Resetting \cup {"resetStop", "cleanActive"})
      BY DEF PlannedStep, PCs, Resetting
    <3> QED BY <2>1, <2>3, <3>1, GotoBeside, SameHeld DEF locals
  <2> QED BY <1>3, <2>1, <2>2, <2>3, ExitBeside DEF Plan, RouteRefusal
<1>4. CASE CasRejected(c)
  BY <1>4, GotoBeside, SameHeld, ExitBeside DEF CasRejected, PCs, Resetting, files, locals
<1>5. CASE CollectEvidence(c)
  BY <1>5, GotoBeside, SameHeld, ExitBeside DEF CollectEvidence, PCs, Resetting, files
<1>6. CASE PublishRefused(c)
  BY <1>6, ExitBeside DEF PublishRefused, files
<1>7. CASE Validate(c)
  BY <1>7, GotoBeside, SameHeld DEF Validate, PCs, Resetting, files, locals
<1>8. CASE PromoteCheck(c)
  BY <1>8, GotoBeside, SameHeld DEF PromoteCheck, PCs, Resetting, files, locals
<1>9. CASE PromoteWrite(c)
  BY <1>9, GotoBeside, SameHeld DEF PromoteWrite, PCs, Resetting, locals
<1>10. CASE Apply(c)
  BY <1>10, GotoBeside, SameHeld, ExitBeside DEF Apply, ApplyRefused, PCs, Resetting, files, locals
<1>11. CASE Commit(c)
  <2>1. UNCHANGED <<journal, gate, past>>
    BY <1>11 DEF Commit, files
  <2> QED BY <1>11, <2>1, GotoBeside, SameHeld, ExitBeside DEF Commit, PCs, Resetting, locals
<1>12. CASE Attest(c)
  BY <1>12, GotoBeside, SameHeld, ExitBeside DEF Attest, PCs, Resetting, files, locals
<1>13. CASE Quiesce(c)
  BY <1>13, GotoBeside, SameHeld, ExitBeside DEF Quiesce, PCs, Resetting, files, locals
<1>14. CASE RestoreSnapshot(c)
  BY <1>14, GotoBeside, SameHeld, ExitBeside DEF RestoreSnapshot, PCs, Resetting, locals
<1>15. CASE RestoreRuntime(c)
  <2>1. UNCHANGED <<journal, gate, past>>
    BY <1>15 DEF RestoreRuntime, files
  <2> QED BY <1>15, <2>1, GotoBeside, SameHeld, ExitBeside
      DEF RestoreRuntime, PCs, Resetting, locals
<1>16. CASE Promote(c)
  BY <1>16, ExitBeside DEF Promote
<1>17. CASE StopCore(c)
  BY <1>17, ExitBeside DEF StopCore, files
<1>18. CASE Crash(c)
  BY <1>18, ExitBeside DEF Crash, files
<1> QED BY <1>1, <1>2, <1>3, <1>4, <1>5, <1>6, <1>7, <1>8, <1>9, <1>10, <1>11, <1>12, <1>13,
           <1>14, <1>15, <1>16, <1>17, <1>18

LEMMA PhaseBeside ==
  ASSUME Typed, Gated, NEW c \in CLIs, AdvancePhase(c) \/ Record(c) \/ MarkRequired(c)
  PROVE  Gated'
<1>1. CASE AdvancePhase(c)
  <2>1. journal \in Journals /\ journal' = [journal EXCEPT !.phase = CasTarget(pc[c])]
    BY <1>1 DEF AdvancePhase, CasPossible, Fenced, Typed, FilesOK
  <2>2. CasTarget(pc[c]) \in Phases
    BY <1>1, CasTargetTyped DEF AdvancePhase
  <2>3. journal' # NoTx /\ journal'.gen = journal.gen /\ journal # NoTx /\ UNCHANGED <<gate, past>>
    BY <1>1, <2>1, <2>2, PhaseFields, NullsAssumption DEF AdvancePhase
  <2>4. CASE Exit(c)
    BY <2>3, <2>4, BesideGated
    DEF Exit, Goto, Typed, LocalsOK, Gated, Ungated, Beside, Resetting
  <2>5. CASE held' = [held EXCEPT ![c] = journal'] /\ Goto(c, AfterCas(c)) /\ UNCHANGED op
    <3>1. AfterCas(c) \in PCs \ (Resetting \cup {"resetStop", "cleanActive"})
      BY DEF AfterCas, PCs, Resetting
    <3> QED BY <2>3, <2>5, <3>1, GotoBeside, BesideGated
  <2> QED BY <1>1, <2>4, <2>5 DEF AdvancePhase
<1>2. CASE Record(c)
  <2>1. CASE Fenced(c)
    <3>1. journal \in Journals /\ journal' = [journal EXCEPT !.candPid = seen[c].pid]
      BY <1>2, <2>1 DEF Record, Fenced, Typed, FilesOK
    <3>2. seen[c] \in Cores
      BY <1>2 DEF Record, Typed, LocalsOK, Carries
    <3>3. PICK p \in Pids : p = seen[c].pid
      BY <3>2 DEF Cores
    <3>4. journal' \in Journals /\ journal'.gen = journal.gen
      BY <3>1, <3>3 DEF Journals
    <3>5. Goto(c, "casApplied") /\ UNCHANGED <<gate, past, op>> /\ held' = [held EXCEPT ![c] = journal']
      BY <1>2, <2>1 DEF Record
    <3> QED BY <3>1, <3>4, <3>5, NullsAssumption, GotoBeside, BesideGated DEF PCs, Resetting
  <2>2. CASE ~Fenced(c)
    BY <1>2, <2>2, ExitBeside, BesideGated DEF Record
  <2> QED BY <2>1, <2>2
<1>3. CASE MarkRequired(c)
  <2>1. UNCHANGED <<gate, past>> /\ Exit(c)
    BY <1>3 DEF MarkRequired
  <2>2. CASE journal' = journal
    BY <2>1, <2>2, ExitBeside, BesideGated
  <2>3. CASE Open(journal) /\ journal' = [journal EXCEPT !.phase = "RecoveryRequired"]
    <3>1. journal \in Journals /\ journal # NoTx
      BY <2>3 DEF Open, Typed, FilesOK
    <3>2. journal' # NoTx /\ journal'.gen = journal.gen
      BY <2>3, <3>1, PhaseFields DEF Phases
    <3> QED BY <2>1, <3>1, <3>2, BesideGated
        DEF Exit, Goto, Typed, LocalsOK, Gated, Ungated, Beside, Resetting
  <2> QED BY <1>3, <2>2, <2>3 DEF MarkRequired
<1> QED BY <1>1, <1>2, <1>3

LEMMA PublishGated ==
  ASSUME Typed, History, Gated, NEW c \in CLIs, Publish(c) PROVE Gated'
<1>1. journal' \in Journals /\ generation' \in 1..MaxGen /\ journal' # NoTx
  BY PublishedTyped, NullsAssumption
<1>2. PICK base, cand, ev : journal' =
        [gen |-> generation', phase |-> "Prepared", target |-> Target(c), base |-> base,
         cand |-> cand, old |-> snapshot, ev |-> ev, evOk |-> TRUE, candPid |-> NoPid]
  BY DEF Publish
<1>3. journal'.gen = generation' /\ gate = NoGen /\ generation' = generation + 1 /\ past' = past
  BY <1>2 DEF Publish
<1>4. gate' \in {generation', NoGen}
  BY <1>3 DEF Publish
<1>5. GateOwned'
  BY <1>1, <1>3, <1>4 DEF GateOwned
<1>6. ASSUME NEW d \in CLIs PROVE Ungated(d)'
  <2>1. CASE d = c
    BY <2>1 DEF Publish, Exit, Goto, Typed, LocalsOK, Gated, Ungated, Resetting
  <2>2. CASE d # c
    <3>1. op'[d] = op[d] /\ pc'[d] = pc[d] /\ held'[d] = held[d]
      BY <2>2 DEF Publish, Exit, Goto, Typed, LocalsOK
    <3>2. pc[d] = "cleanActive" => held[d] \in Journals /\ held[d].gen <= generation
      BY HeldTyped, NullsAssumption DEF History, HeldHistory
    <3>3. pc[d] = "cleanActive" => gate' # held[d].gen
      BY <1>3, <1>4, <3>2 DEF Journals, NoGen, Typed, FilesOK
    <3> QED BY <3>1, <3>3 DEF Gated, Ungated
  <2> QED BY <2>1, <2>2
<1> QED BY <1>5, <1>6 DEF Gated

LEMMA CleanupGated ==
  ASSUME Typed, Gated, NEW c \in CLIs, CleanGate(c) \/ CleanActive(c) PROVE Gated'
<1>1. CASE CleanGate(c)
  <2>1. /\ UNCHANGED <<journal, held, op>> /\ pc[c] = "cleanGate" /\ RemoveGate(c)
        /\ pc' = [pc EXCEPT ![c] = "cleanActive"]
    BY <1>1 DEF CleanGate, locals, Goto
  <2>2. held[c].gen # NoGen
    BY <2>1, HeldTyped DEF Journals, NoGen
  <2>3. \/ gate' \in {gate, NoGen} /\ gate' # held[c].gen /\ past' = past
        \/ gate' = gate /\ past'.stuck = gate
    BY <2>1, <2>2 DEF RemoveGate, GateWithout, Typed, StateOK
  <2>4. GateOwned'
    BY <2>1, <2>3 DEF Gated, GateOwned
  <2>5. ASSUME NEW d \in CLIs PROVE Ungated(d)'
    <3>1. CASE d = c
      BY <2>1, <2>3, <3>1 DEF Typed, LocalsOK, Gated, Ungated, Resetting
    <3>2. CASE d # c
      <4>1. pc'[d] = pc[d]
        BY <2>1, <3>2 DEF Typed, LocalsOK
      <4>2. pc[d] = "cleanActive" => held[d].gen # NoGen
        BY HeldTyped DEF Journals, NoGen
      <4> QED BY <2>1, <2>3, <4>1, <4>2 DEF Gated, Ungated
    <3> QED BY <3>1, <3>2
  <2> QED BY <2>4, <2>5 DEF Gated
<1>2. CASE CleanActive(c)
  <2>1. pc[c] = "cleanActive" /\ UNCHANGED <<gate, past>> /\ (Recovered(c) \/ Exit(c))
    BY <1>2 DEF CleanActive
  <2>2. CASE journal' = journal
    BY <2>1, <2>2, ExitBeside, BesideGated
  <2>3. CASE journal' = NoTx /\ journal.gen = held[c].gen
    <3>1. gate \in {NoGen, past.stuck}
      BY <2>1, <2>3 DEF Gated, GateOwned, Ungated
    <3>2. GateOwned'
      BY <2>1, <2>3, <3>1 DEF GateOwned
    <3>3. ASSUME NEW d \in CLIs PROVE Ungated(d)'
      <4>1. CASE d = c
        BY <2>1, <4>1 DEF Recovered, Exit, Goto, Typed, LocalsOK, Gated, Ungated, Resetting
      <4>2. CASE d # c
        BY <2>1, <4>2 DEF Recovered, Exit, Goto, Typed, LocalsOK, Gated, Ungated
      <4> QED BY <4>1, <4>2
    <3> QED BY <3>2, <3>3 DEF Gated
  <2> QED BY <1>2, <2>2, <2>3 DEF CleanActive
<1> QED BY <1>1, <1>2

LEMMA EnvironmentGated ==
  ASSUME Typed, Gated, Edit \/ CoreExits \/ EvidenceLost \/ Reboot \/ UNCHANGED vars PROVE Gated'
<1>1. CASE Edit \/ CoreExits \/ UNCHANGED vars
  BY <1>1 DEF Edit, CoreExits, vars, files, locals, Gated, GateOwned, Ungated
<1>2. CASE EvidenceLost
  <2>1. /\ journal \in Journals /\ journal' = [journal EXCEPT !.evOk = FALSE]
        /\ UNCHANGED <<gate, past, pc, op, held>>
    BY <1>2 DEF EvidenceLost, locals, Typed, FilesOK
  <2>2. journal' \in Journals /\ journal'.gen = journal.gen
    BY <2>1 DEF Journals
  <2> QED BY <2>1, <2>2, NullsAssumption DEF Gated, GateOwned, Ungated
<1>3. CASE Reboot
  BY <1>3 DEF Reboot, files, Gated, GateOwned, Ungated, Resetting
<1> QED BY <1>1, <1>2, <1>3

LEMMA NextGated ==
  ASSUME NoResets, Typed, History, Gated, [Next]_vars PROVE Gated'
<1>1. ASSUME NEW c \in CLIs, ResetStop(c) \/ ResetGate(c) \/ ResetSnapshot(c) \/ ResetActive(c)
      PROVE  FALSE
  BY <1>1 DEF ResetStop, ResetGate, ResetSnapshot, ResetActive, Gated, Ungated, Resetting
<1>2. ASSUME NEW c \in CLIs, Invoke(c) \/ Step(c) \/ Crash(c) PROVE Gated'
  BY <1>1, <1>2, QuietBeside, BesideGated, PhaseBeside, PublishGated, CleanupGated DEF Step
<1> QED BY <1>2, EnvironmentGated DEF Next

LEMMA InitGated == ASSUME Init PROVE Gated
BY DEF Init, Gated, GateOwned, Ungated, Resetting

\* The admission gate outlives its transaction only where its removal failed
\* (terminal_cleanup ignores that and archives the journal): with commands one at a
\* time, or, whatever runs at the same time, as long as nobody resets the runtime
\* with `restart --yes`.
THEOREM GateIsOwned == OneCli \/ NoResets => (Spec => []GateOwned)
<1>1. OneCli => (Spec => []GateOwned)
  <2>1. Solo => GateOwned
    BY DEF Solo
  <2> QED BY <2>1, AlwaysSolo, PTL
<1>2. ASSUME NoResets PROVE Spec => []GateOwned
  <2>1. Init => Gated
    BY InitGated
  <2>2. Typed /\ History /\ Gated /\ [Next]_vars => Gated'
    BY <1>2, NextGated
  <2>3. Gated => GateOwned
    BY DEF Gated
  <2> QED BY <2>1, <2>2, <2>3, AlwaysHistory, PTL DEF Spec
<1> QED BY <1>1, <1>2

-----------------------------------------------------------------------------
(* The controlled reset, for every number of commands at once.             *)

\* A command that reads the journal to recover it, and one that resets it, holds the
\* recovery marker, which only one command has.
Marked ==
  /\ \A c, d \in CLIs : role[c] = "recovery" /\ role[d] = "recovery" => c = d
  /\ \A c \in CLIs : pc[c] \in {"observe", "plan", "resetStop"} \cup Resetting
                       => role[c] = "recovery"

\* Nobody else drives the transaction that is being reset.
Unrivalled ==
  \A c \in CLIs : pc[c] \in Resetting /\ past.sole =>
    /\ core = NoCore /\ Open(journal) /\ journal.gen = held[c].gen
    /\ \A d \in CLIs \ {c} : ~Drives(d)

\* A step of d never takes the marker, unless by invoking a command, and never goes
\* where it is needed without it.
MarkKept(d) ==
  /\ \A e \in CLIs \ {d} : pc'[e] = pc[e] /\ role'[e] = role[e]
  /\ role'[d] = "recovery" => role[d] = "recovery"
  /\ pc'[d] \in {"observe", "plan", "resetStop"} \cup Resetting
       => role'[d] = role[d] /\ pc[d] \in {"observe", "plan", "resetStop"} \cup Resetting

LEMMA MarkedKept == ASSUME Marked, NEW d \in CLIs, MarkKept(d) PROVE Marked'
BY DEF Marked, MarkKept

\* The ways a command's own state changes.
LEMMA MarkMoves ==
  ASSUME Typed, NEW d \in CLIs,
         \/ Exit(d) \/ Recovered(d) \/ Fail(d)
         \/ \E l \in PCs \ ({"observe", "plan", "resetStop"} \cup Resetting) :
              Goto(d, l) /\ UNCHANGED role
  PROVE  MarkKept(d)
<1>1. CASE Exit(d) \/ Recovered(d)
  BY <1>1 DEF Exit, Recovered, Goto, Typed, LocalsOK, MarkKept, Resetting
<1>2. ASSUME NEW l \in PCs \ ({"observe", "plan", "resetStop"} \cup Resetting),
             Goto(d, l), UNCHANGED role
      PROVE  MarkKept(d)
  BY <1>2 DEF Goto, Typed, LocalsOK, MarkKept
<1>3. CASE Goto(d, "markRequired") /\ UNCHANGED locals
  BY <1>2, <1>3 DEF PCs, Resetting, locals
<1> QED BY <1>1, <1>2, <1>3 DEF Fail

LEMMA StepMarked == ASSUME Typed, NEW d \in CLIs, Step(d) \/ Crash(d) PROVE MarkKept(d)
<1> DEFINE Away == PCs \ ({"observe", "plan", "resetStop"} \cup Resetting)
<1>1. CASE Observe(d)
  BY <1>1 DEF Observe, Goto, Typed, LocalsOK, MarkKept
<1>2. CASE Plan(d)
  <2>1. ASSUME NEW action, Goto(d, PlannedStep(d, action)), UNCHANGED locals PROVE MarkKept(d)
    <3>1. PlannedStep(d, action) \in Away
      BY DEF PlannedStep, PCs, Resetting
    <3> QED BY <2>1, <3>1, MarkMoves DEF locals
  <2>2. CASE pc[d] = "plan" /\ Goto(d, "resetStop") /\ UNCHANGED locals
    BY <2>2 DEF Goto, locals, Typed, LocalsOK, MarkKept
  <2> QED BY <1>2, <2>1, <2>2, MarkMoves DEF Plan, RouteRefusal
<1>3. CASE AdvancePhase(d)
  <2>1. AfterCas(d) \in Away
    BY DEF AfterCas, PCs, Resetting
  <2> QED BY <1>3, <2>1, MarkMoves DEF AdvancePhase
<1>4. CASE CasRejected(d) \/ PublishRefused(d) \/ Validate(d) \/ PromoteCheck(d)
           \/ PromoteWrite(d) \/ Attest(d) \/ Quiesce(d) \/ RestoreSnapshot(d)
           \/ RestoreRuntime(d) \/ MarkRequired(d)
  BY <1>4, MarkMoves
  DEF CasRejected, PublishRefused, Validate, PromoteCheck, PromoteWrite, Attest, Quiesce,
      RestoreSnapshot, RestoreRuntime, MarkRequired, PCs, Resetting, locals
<1>5. CASE CollectEvidence(d)
  <2>1. CASE role' = [role EXCEPT ![d] = "switch"] /\ Goto(d, "publish")
    BY <2>1 DEF Goto, Typed, LocalsOK, MarkKept, Resetting
  <2> QED BY <1>5, <2>1, MarkMoves DEF CollectEvidence
<1>6. CASE Publish(d)
  BY <1>6, MarkMoves DEF Publish, PCs, Resetting
<1>7. CASE Apply(d) \/ Record(d)
  BY <1>7, MarkMoves DEF Apply, ApplyRefused, Record, PCs, Resetting, locals
<1>8. CASE Commit(d)
  <2>1. CASE role' = [role EXCEPT ![d] = "conflict"] /\ Goto(d, "casRollback")
    BY <2>1 DEF Goto, Typed, LocalsOK, MarkKept, Resetting
  <2> QED BY <1>8, <2>1, MarkMoves DEF Commit, PCs, Resetting, locals
<1>9. CASE CleanGate(d) \/ CleanActive(d) \/ ResetActive(d)
  BY <1>9, MarkMoves DEF CleanGate, CleanActive, ResetActive, PCs, Resetting, locals
<1>10. CASE ResetStop(d)
  <2>1. CASE Goto(d, "resetGate") /\ UNCHANGED role /\ pc[d] = "resetStop"
    BY <2>1 DEF Goto, Typed, LocalsOK, MarkKept
  <2> QED BY <1>10, <2>1, MarkMoves DEF ResetStop
<1>11. CASE ResetGate(d) \/ ResetSnapshot(d)
  BY <1>11 DEF ResetGate, ResetSnapshot, locals, Goto, Typed, LocalsOK, MarkKept, Resetting
<1>12. CASE Promote(d) \/ StopCore(d) \/ Crash(d)
  BY <1>12, MarkMoves DEF Promote, StopCore, Crash
<1> QED BY <1>1, <1>2, <1>3, <1>4, <1>5, <1>6, <1>7, <1>8, <1>9, <1>10, <1>11, <1>12 DEF Step

LEMMA NextMarked == ASSUME Typed, Marked, [Next]_vars PROVE Marked'
<1>1. ASSUME NEW d \in CLIs, Invoke(d) PROVE Marked'
  BY <1>1 DEF Invoke, Goto, Typed, LocalsOK, Marked, Resetting
<1>2. CASE UNCHANGED vars \/ Edit \/ CoreExits \/ EvidenceLost
  BY <1>2 DEF Edit, CoreExits, EvidenceLost, vars, locals, Marked
<1>3. CASE Reboot
  BY <1>3 DEF Reboot, Marked, Resetting
<1> QED BY <1>1, <1>2, <1>3, StepMarked, MarkedKept DEF Next

\* While a reset works on a transaction of its own, another command leaves the journal
\* alone, starts no Core, and does not begin to drive that transaction.
LEMMA StepsApart ==
  ASSUME Typed, Marked, Unrivalled, NEW c \in CLIs, pc[c] \in Resetting, past.sole,
         NEW d \in CLIs \ {c}, Invoke(d) \/ Step(d) \/ Crash(d)
  PROVE  /\ journal' = journal /\ core' = NoCore /\ past'.sole = past.sole
         /\ \A e \in CLIs \ {d} : pc'[e] = pc[e] /\ held'[e] = held[e]
         /\ held'[d] \in {held[d], NoTx}
<1> DEFINE Apart == /\ journal' = journal /\ core' = NoCore /\ past'.sole = past.sole
                    /\ \A e \in CLIs \ {d} : pc'[e] = pc[e] /\ held'[e] = held[e]
                    /\ held'[d] \in {held[d], NoTx}
<1> SUFFICES Apart
  OBVIOUS
<1>1. /\ core = NoCore /\ Open(journal) /\ journal # NoTx /\ ~Drives(d)
      /\ role[c] = "recovery" /\ role[d] # "recovery"
  BY DEF Unrivalled, Marked, Open
<1>2. pc[d] \notin {"observe", "plan", "resetStop"} \cup Resetting
  BY <1>1 DEF Marked
<1>3. pc[d] \notin {"idle", "ready", "publish"} => journal.gen # held[d].gen
  BY <1>1 DEF Typed, LocalsOK, Carries, Drives
<1>4. pc[d] \notin {"idle", "ready", "publish"}
        => ~Fenced(d) /\ ~CasPossible(d) /\ ~RestoreAdmitted(d)
  BY <1>3 DEF Fenced, CasPossible, RestoreAdmitted
<1>5. ASSUME Exit(d) \/ Recovered(d) \/ Fail(d)
      PROVE  /\ \A e \in CLIs \ {d} : pc'[e] = pc[e] /\ held'[e] = held[e]
             /\ held'[d] \in {held[d], NoTx}
  BY <1>5 DEF Exit, Recovered, Fail, Goto, locals, Typed, LocalsOK
<1>6. ASSUME NEW l \in PCs, Goto(d, l), held' = held
      PROVE  /\ \A e \in CLIs \ {d} : pc'[e] = pc[e] /\ held'[e] = held[e]
             /\ held'[d] \in {held[d], NoTx}
  BY <1>6 DEF Goto, Typed, LocalsOK
<1>7. CASE Invoke(d)
  BY <1>1, <1>7 DEF Invoke
<1>8. CASE Plan(d)
  <2>1. ASSUME NEW action PROVE PlannedStep(d, action) \in PCs
    BY DEF PlannedStep, PCs
  <2> QED BY <1>1, <1>5, <1>6, <1>8, <2>1 DEF Plan, RouteRefusal, PCs, locals, files
<1>9. CASE CasRejected(d) \/ PublishRefused(d) \/ Validate(d) \/ PromoteCheck(d)
           \/ PromoteWrite(d) \/ RestoreSnapshot(d)
  BY <1>1, <1>5, <1>6, <1>9
  DEF CasRejected, PublishRefused, Validate, PromoteCheck, PromoteWrite, RestoreSnapshot, PCs,
      files, locals
<1>10. CASE Record(d) \/ Commit(d) \/ Attest(d) \/ Quiesce(d)
  BY <1>1, <1>4, <1>5, <1>10 DEF Record, Commit, Attest, Quiesce, files
<1>11. CASE Apply(d)
  <2>1. ~ApplyAdmitted(d)
    BY <1>3, <1>11 DEF Apply, ApplyAdmitted
  <2> QED BY <1>1, <1>5, <1>6, <1>11, <2>1 DEF Apply, ApplyRefused, PCs, files, locals
<1>12. CASE RestoreRuntime(d)
  BY <1>1, <1>4, <1>5, <1>12 DEF RestoreRuntime, files
<1>13. CASE MarkRequired(d) \/ CleanActive(d)
  BY <1>1, <1>3, <1>5, <1>13 DEF MarkRequired, CleanActive
<1>14. CASE CleanGate(d)
  BY <1>1, <1>6, <1>14 DEF CleanGate, RemoveGate, PCs, locals, Typed, StateOK
<1>15. CASE Promote(d) \/ StopCore(d) \/ Crash(d)
  BY <1>1, <1>5, <1>15 DEF Promote, StopCore, Crash, Admitted, files
<1>16. CASE CollectEvidence(d)
  BY <1>1, <1>5, <1>16 DEF CollectEvidence, files
<1>17. ~Observe(d) /\ ~AdvancePhase(d) /\ ~Publish(d) /\ ~ResetStop(d) /\ ~ResetGate(d)
       /\ ~ResetSnapshot(d) /\ ~ResetActive(d)
  BY <1>1, <1>2, <1>4
  DEF Observe, AdvancePhase, CasPCs, Publish, ResetStop, ResetGate, ResetSnapshot, ResetActive, Resetting
<1> QED BY <1>7, <1>8, <1>9, <1>10, <1>11, <1>12, <1>13, <1>14, <1>15, <1>16, <1>17 DEF Step

\* The reset's own steps: it stops the Core, and until it archives the journal it
\* touches the gate and the snapshot only.
LEMMA ResetSteps ==
  ASSUME Typed, NEW c \in CLIs, Invoke(c) \/ Step(c) \/ Crash(c), pc'[c] \in Resetting
  PROVE  \/ ResetStop(c) /\ Goto(c, "resetGate")
         \/ ResetGate(c) \/ ResetSnapshot(c)
<1>1. ~MarkKept(c) \/ pc[c] \in {"observe", "plan", "resetStop"} \cup Resetting
  BY DEF MarkKept
<1>2. ~Invoke(c)
  BY DEF Invoke, Goto, Typed, LocalsOK, Resetting
<1>3. pc[c] \in {"observe", "plan", "resetStop"} \cup Resetting
  BY <1>1, <1>2, StepMarked
<1>4. ~Exit(c) /\ ~Recovered(c)
  BY DEF Exit, Recovered, Goto, Typed, LocalsOK, Resetting
<1>5. ~Observe(c) /\ ~Crash(c)
  BY <1>4 DEF Observe, Crash, Goto, Typed, LocalsOK, Resetting
<1>6. ~Plan(c)
  <2>1. ASSUME NEW action PROVE ~Goto(c, PlannedStep(c, action))
    BY DEF Goto, PlannedStep, Typed, LocalsOK, Resetting
  <2>2. ~Goto(c, "resetStop")
    BY DEF Goto, Typed, LocalsOK, Resetting
  <2> QED BY <1>4, <2>1, <2>2 DEF Plan, RouteRefusal
<1>7. ~ResetActive(c)
  BY <1>4 DEF ResetActive
<1>8. ResetStop(c) => Goto(c, "resetGate")
  BY <1>4 DEF ResetStop
<1>9. ~AdvancePhase(c) /\ ~CasRejected(c) /\ ~CollectEvidence(c) /\ ~Publish(c)
      /\ ~PublishRefused(c) /\ ~Validate(c) /\ ~PromoteCheck(c) /\ ~PromoteWrite(c)
  BY <1>3 DEF AdvancePhase, CasPCs, CasRejected, CollectEvidence, Publish, PublishRefused,
              Validate, PromoteCheck, PromoteWrite, Resetting
<1>10. ~Apply(c) /\ ~Record(c) /\ ~Commit(c) /\ ~Attest(c) /\ ~Quiesce(c)
       /\ ~RestoreSnapshot(c) /\ ~RestoreRuntime(c)
  <2>1. pc[c] \notin {"apply", "record", "commit", "attest", "quiesce", "restoreSnapshot",
                      "restoreRuntime"}
    BY <1>3 DEF Resetting
  <2> QED BY <2>1 DEF Apply, Record, Commit, Attest, Quiesce, RestoreSnapshot, RestoreRuntime
<1>11. ~MarkRequired(c) /\ ~CleanGate(c) /\ ~CleanActive(c) /\ ~Promote(c) /\ ~StopCore(c)
  BY <1>3 DEF MarkRequired, CleanGate, CleanActive, Promote, StopCore, Resetting
<1> QED BY <1>2, <1>5, <1>6, <1>7, <1>8, <1>9, <1>10, <1>11 DEF Step

\* Only a reset's stop proof sets the flag.
LEMMA SoleSet ==
  ASSUME Typed, NEW d \in CLIs, Invoke(d) \/ Step(d) \/ Crash(d), ~ResetStop(d), past'.sole
  PROVE  past.sole
<1>1. RemoveGate(d) => past.sole
  BY DEF RemoveGate, Typed, StateOK
<1>2. ~ResetActive(d)
  BY DEF ResetActive, Typed, StateOK
<1>3. CASE past' = past
  BY <1>3
<1>4. CASE ~(past' = past)
  BY <1>1, <1>2, <1>4
  DEF Invoke, Crash, Step, Observe, Plan, AdvancePhase, CasRejected, CollectEvidence, Publish,
      PublishRefused, Validate, PromoteCheck, PromoteWrite, Apply, Record, Commit, Attest, Quiesce,
      RestoreSnapshot, RestoreRuntime, MarkRequired, CleanGate, CleanActive, ResetGate,
      ResetSnapshot, Promote, StopCore
<1> QED BY <1>3, <1>4

LEMMA StepUnrivalled ==
  ASSUME Typed, Marked, Unrivalled, NEW d \in CLIs, Invoke(d) \/ Step(d) \/ Crash(d)
  PROVE  Unrivalled'
<1> SUFFICES ASSUME NEW c \in CLIs, pc'[c] \in Resetting, past'.sole
             PROVE  /\ core' = NoCore /\ Open(journal)' /\ journal'.gen = held'[c].gen
                    /\ \A e \in CLIs \ {c} : ~Drives(e)'
  BY DEF Unrivalled
<1>1. CASE d = c
  <2>1. CASE ResetStop(c) /\ Goto(c, "resetGate")
    <3>1. ~Exit(c) /\ ~Recovered(c)
      BY <2>1 DEF Exit, Recovered, Goto, Typed, LocalsOK
    <3>2. /\ core' = NoCore /\ held' = [held EXCEPT ![c] = journal] /\ journal' = journal
          /\ past' = [past EXCEPT !.sole =
                        Open(journal) /\ \A e \in CLIs \ {c} : ~Drives(e)]
      BY <2>1, <3>1 DEF ResetStop, NoRunningCore, files
    <3>3. Open(journal) /\ \A e \in CLIs \ {c} : ~Drives(e)
      BY <3>2 DEF Typed, StateOK
    <3> QED BY <3>2, <3>3 DEF Drives, Open, Typed, LocalsOK
  <2>2. CASE ResetGate(c) \/ ResetSnapshot(c)
    <3>1. /\ UNCHANGED <<journal, core, held>> /\ past'.sole = past.sole
          /\ pc[c] \in Resetting
      BY <2>2 DEF ResetGate, ResetSnapshot, RemoveGate, locals, Typed, StateOK, Resetting
    <3> QED BY <3>1 DEF Unrivalled, Drives, Open
  <2> QED BY <1>1, <2>1, <2>2, ResetSteps
<1>2. CASE d # c
  <2>1. pc'[c] = pc[c]
    <3>1. Invoke(d) => pc'[c] = pc[c]
      BY <1>2 DEF Invoke, Goto, Typed, LocalsOK
    <3> QED BY <1>2, <3>1, StepMarked DEF MarkKept
  <2>2. ~ResetStop(d)
    BY <1>2, <2>1 DEF ResetStop, Marked
  <2>3. past.sole
    BY <2>2, SoleSet
  <2>4. /\ journal' = journal /\ core' = NoCore
        /\ \A e \in CLIs \ {d} : held'[e] = held[e]
        /\ held'[d] \in {held[d], NoTx}
    BY <1>2, <2>1, <2>3, StepsApart
  <2>5. ASSUME NEW e \in CLIs \ {c} PROVE ~Drives(e)'
    BY <2>1, <2>3, <2>4 DEF Unrivalled, Drives
  <2> QED BY <1>2, <2>1, <2>3, <2>4, <2>5 DEF Unrivalled, Open
<1> QED BY <1>1, <1>2

LEMMA NextUnrivalled ==
  ASSUME Typed, Marked, Unrivalled, [Next]_vars PROVE Unrivalled'
<1>1. CASE UNCHANGED vars \/ Edit
  BY <1>1 DEF Edit, vars, files, locals, Unrivalled, Drives, Open
<1>2. CASE CoreExits
  BY <1>2 DEF CoreExits, files, locals, Unrivalled, Drives, Open
<1>3. CASE EvidenceLost
  <2>1. /\ journal \in Journals /\ journal' = [journal EXCEPT !.evOk = FALSE]
        /\ UNCHANGED <<core, past, pc, held>>
    BY <1>3 DEF EvidenceLost, locals, Typed, FilesOK
  <2>2. /\ journal' \in Journals /\ journal'.gen = journal.gen
        /\ journal'.phase = journal.phase
    BY <2>1 DEF Journals
  <2> QED BY <2>1, <2>2, NullsAssumption DEF Unrivalled, Drives, Open
<1>4. CASE Reboot
  BY <1>4 DEF Reboot, Unrivalled, Resetting
<1> QED BY <1>1, <1>2, <1>3, <1>4, StepUnrivalled DEF Next

LEMMA InitUnrivalled == ASSUME Init PROVE Marked /\ Unrivalled
BY DEF Init, Marked, Unrivalled, Resetting

\* From the stop proof of a controlled reset to the end of its cleanup nothing makes a
\* Core run, and the transaction that keeps Core starts out stays the open one the
\* reset was authorized for, whatever commands, daemon starts, edits and faults come
\* in between (reset_managed_runtime_artifacts archives the journal last): provided
\* that no other command was driving that transaction when the Core was stopped.
THEOREM ResetsAreSafe == Spec => []ResetBehindStop
<1>1. Init => Marked /\ Unrivalled
  BY InitUnrivalled
<1>2. Typed /\ Marked /\ Unrivalled /\ [Next]_vars => (Marked /\ Unrivalled)'
  BY NextMarked, NextUnrivalled
<1>3. Unrivalled => ResetBehindStop
  BY DEF Unrivalled, ResetBehindStop, Resetting
<1> QED BY <1>1, <1>2, <1>3, AlwaysTyped, PTL DEF Spec

=============================================================================
