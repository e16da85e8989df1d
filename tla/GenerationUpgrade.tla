------------------------- MODULE GenerationUpgrade -------------------------
(***************************************************************************)
(* The commands that upgrade the system instance through the generation    *)
(* store (src/main.rs, src/generation_adoption.rs): `install` stages a     *)
(* candidate with the baseline to return to, `restart` applies it, proves  *)
(* it and commits, or rolls back, `install --discard-pending` revokes it,  *)
(* `install --adopt-current` vouches for a migrated scene.  A step is one  *)
(* durable write or one look at the system.  The store lock spans a        *)
(* command's steps; what runs outside of it can happen between any two.    *)
(***************************************************************************)
EXTENDS GenerationStore, SequencesExt

CONSTANTS
  Procs,       \* CLI processes
  MaxFaults,   \* bound: crashes and failed steps
  MaxOutside,  \* bound: changes made without the store lock
  NoProc,      \* the lock is free
  NoScene,     \* nothing observed
  Off          \* the process is not running

VARIABLES
  legacy,     \* slots of the store at its old place, NoGen once migrated (or never there)
  lock,       \* holder of the generation lock
  installed,  \* the managed files
  run,        \* what the running daemon and Core were started from
  job,        \* each process's command
  faults, outside

envVars == <<faults, outside>>
vars == <<storeVars, legacy, lock, installed, run, job, envVars>>

Cmds == {"install", "restart", "discard", "adopt", "direct"}

PCs == {"idle", "skew", "migrate", "lock", "admit", "capture", "seal", "write", "stage",
        "read", "quiesce", "replace", "start", "prove", "commit", "retire",
        "rb_quiesce", "rb_restore", "rb_start", "rb_prove", "rb_mark", "rb_withdraw", "rb_consume",
        "finish", "associate", "withdraw", "revoke", "observe", "persist", "recheck", "adopted",
        "direct_core", "direct_daemon"}

\* exe: the daemon this CLI is; core: the Core it has downloaded, or read back;
\* cand, base: the generations it works on; seen: the slots and files it observed.
Jobs == [pc: PCs, cmd: Cmds, exe: Revs \cup {Missing}, core: Revs \cup {Missing}, cand: Ids \cup {NoGen}, base: Ids \cup {NoGen},
         seen: [slots: Slots, art: Scenes] \cup {NoScene}]

Runs == [Artifacts -> Revs \cup {Off}]

\* The old store names two generations; nothing is no process and no directory.
ASSUME UpgradeAssumption ==
  /\ MaxGens >= 2
  /\ {MaxFaults, MaxOutside} \subseteq Nat
  /\ NoProc \notin Procs
  /\ NoDir \notin Generations

Idle == [pc |-> "idle", cmd |-> "install", exe |-> Missing, core |-> Missing,
         cand |-> NoGen, base |-> NoGen, seen |-> NoScene]

Stopped == [a \in Artifacts |-> Off]

\* The old store names a generation that was applied, or one bound to a baseline.
LegacyStores ==
  {[active |-> 1, pending |-> NoGen, previous |-> NoGen],
   [active |-> NoGen, pending |-> 2, previous |-> 1]}

Init ==
  /\ legacy \in LegacyStores \cup {NoGen}
  /\ slots = EmptySlots
  /\ gens = [g \in Ids |-> NoDir]
  /\ nextId = IF legacy = NoGen THEN 1 ELSE 3
  /\ lock = NoProc
  /\ \E r \in Revs :
       \/ installed = [a \in Artifacts |-> r] /\ run = installed
       \/ /\ legacy = NoGen
          /\ installed = [daemon |-> r, core |-> Missing]
          /\ run = [daemon |-> r, core |-> Off]
  /\ job = [p \in Procs |-> Idle]
  /\ faults = 0 /\ outside = 0

----------------------------------------------------------------------------
(* Bookkeeping of a command's steps.                                       *)

At(p, pc) == job[p].pc = pc

Goto(p, pc) == job' = [job EXCEPT ![p].pc = pc]

\* The command returns, or its process dies: the lock goes with it.
End(p) ==
  /\ job' = [job EXCEPT ![p] = Idle]
  /\ lock' = IF lock = p THEN NoProc ELSE lock

Fault == faults < MaxFaults /\ faults' = faults + 1 /\ UNCHANGED outside

Outside == outside < MaxOutside /\ outside' = outside + 1 /\ UNCHANGED faults

Matches(g) == installed = gens[g].art

\* An adopted baseline binds exactly the managed roles, absences included.
MatchesAdopted(g) == gens[g].kind = "baseline" /\ installed = gens[g].art

Recovery == slots.active = NoGen /\ slots.pending = NoGen /\ slots.previous # NoGen

\* The candidate's Core comes from the baseline in recovery, else from the
\* installation or from a download.
CoreSources ==
  IF Recovery /\ Valid(slots.previous) /\ gens[slots.previous].art["core"] # Missing
  THEN {gens[slots.previous].art["core"]}
  ELSE Revs

----------------------------------------------------------------------------
(* Entry: the command, the migration of the old store, the lock.           *)

\* A command first migrates the old store, when there is one.
Entry(cmd) ==
  CASE legacy # NoGen -> "migrate"
    [] legacy = NoGen /\ cmd = "adopt" -> "observe"
    [] OTHER -> "lock"

\* `install` stages while the daemon runs, or in recovery; `restart` first stages a
\* candidate of its own when the CLI is not the installed daemon.
Invoke(p) ==
  /\ At(p, "idle")
  /\ \/ /\ Recovery \/ run["daemon"] # Off
        /\ \E exe \in Revs, core \in CoreSources :
             job' = [job EXCEPT ![p] = [Idle EXCEPT !.pc = Entry("install"), !.exe = exe, !.core = core]]
     \/ \E exe \in Revs :
          job' = [job EXCEPT ![p] = [Idle EXCEPT !.pc = "skew", !.cmd = "restart", !.exe = exe]]
     \/ job' = [job EXCEPT ![p] = [Idle EXCEPT !.pc = Entry("discard"), !.cmd = "discard"]]
     \/ job' = [job EXCEPT ![p] = [Idle EXCEPT !.pc = Entry("adopt"), !.cmd = "adopt"]]
  /\ UNCHANGED <<storeVars, legacy, lock, installed, run, envVars>>

\* A tombstone of the same daemon, or a bound recovery baseline, stops an
\* automatic staging: the user has to ask for it with `install`.
SkewRefused(p) ==
  \/ \E g \in Ids : HasWithdrawn(g) /\ gens[g].art["daemon"] = job[p].exe
  \/ slots.active = NoGen /\ slots.previous # NoGen
  \/ installed["core"] = Missing

CheckSkew(p) ==
  /\ At(p, "skew")
  /\ IF job[p].exe = installed["daemon"] \/ slots.pending # NoGen
     THEN Goto(p, Entry("restart")) /\ UNCHANGED lock
     ELSE IF SkewRefused(p) THEN End(p)
     ELSE /\ job' = [job EXCEPT ![p].pc = Entry("install"), ![p].cmd = "install",
                                ![p].core = installed["core"],
                                ![p].seen = [slots |-> slots, art |-> installed]]
          /\ UNCHANGED lock
  /\ UNCHANGED <<storeVars, legacy, installed, run, envVars>>

\* The copy is built aside and published by one rename that replaces nothing; every
\* generation in it is marked untrusted.  An interrupted copy leaves no new store.
Inherited(bound) == [Candidate(installed, bound) EXCEPT !.trusted = FALSE]
LegacyGenerations ==
  [g \in Ids |-> IF g \notin {legacy.active, legacy.pending, legacy.previous} THEN NoDir
                 ELSE Inherited(IF g = legacy.pending THEN legacy.previous ELSE NoGen)]

Migrate(p) ==
  /\ At(p, "migrate")
  /\ IF legacy = NoGen THEN UNCHANGED <<slots, gens>>
     ELSE slots' = legacy /\ gens' = LegacyGenerations
  /\ legacy' = NoGen
  /\ Goto(p, IF job[p].cmd = "adopt" THEN "observe" ELSE "lock")
  /\ UNCHANGED <<nextId, lock, installed, run, envVars>>

\* Acquisition polls until its timeout.
Acquire(p) ==
  /\ At(p, "lock") /\ lock = NoProc
  /\ lock' = p
  /\ Goto(p, CASE job[p].cmd = "install" -> "admit"
               [] job[p].cmd = "restart" -> "read"
               [] job[p].cmd = "discard" -> "associate"
               [] OTHER -> "persist")
  /\ UNCHANGED <<storeVars, legacy, installed, run, envVars>>

Busy(p) ==
  /\ At(p, "lock") /\ lock # NoProc
  /\ End(p)
  /\ UNCHANGED <<storeVars, legacy, installed, run, envVars>>

----------------------------------------------------------------------------
(* install: prepare_system_generation.                                     *)

\* The installed files are those of a slot that can vouch for them, or there is
\* nothing to compare with, or a revoked upgrade left its own captured baseline.
Admitted ==
  \/ Named = {}
  \/ \E g \in Named : /\ Trusted(g) /\ Valid(g)
                    /\ IF gens[g].adopted THEN MatchesAdopted(g) ELSE Matches(g)
  \/ /\ Recovery
     /\ Trusted(slots.previous) /\ Valid(slots.previous)
     /\ gens[slots.previous].kind = "baseline" /\ ~gens[slots.previous].adopted

\* In recovery the baseline is the one already bound: the scene is not captured.
Admit(p) ==
  /\ At(p, "admit")
  /\ IF ~Admitted \/ slots.pending # NoGen \/ nextId + 1 > MaxGens
     THEN End(p) /\ UNCHANGED <<gens, nextId>>
     ELSE IF Recovery
     THEN /\ IF Trusted(slots.previous) /\ Valid(slots.previous)
             THEN /\ job' = [job EXCEPT ![p].pc = "write", ![p].base = slots.previous]
                  /\ UNCHANGED lock
             ELSE End(p)
          /\ UNCHANGED <<gens, nextId>>
     ELSE /\ gens' = [gens EXCEPT ![nextId] = [Baseline(installed, FALSE) EXCEPT !.sealed = FALSE]]
          /\ nextId' = nextId + 1
          /\ job' = [job EXCEPT ![p].pc = "capture", ![p].base = nextId]
          /\ UNCHANGED lock
  /\ UNCHANGED <<slots, legacy, installed, run, envVars>>

\* The daemon has been copied; now the Core is.
CaptureCore(p) ==
  /\ At(p, "capture")
  /\ gens' = [gens EXCEPT ![job[p].base].art["core"] = installed["core"]]
  /\ Goto(p, "seal")
  /\ UNCHANGED <<slots, nextId, legacy, lock, installed, run, envVars>>

SealBaseline(p) ==
  /\ At(p, "seal")
  /\ gens' = [gens EXCEPT ![job[p].base].sealed = TRUE]
  /\ Goto(p, "write")
  /\ UNCHANGED <<slots, nextId, legacy, lock, installed, run, envVars>>

WriteCandidate(p) ==
  /\ At(p, "write")
  /\ LET art == [daemon |-> job[p].exe, core |-> job[p].core]
     IN gens' = [gens EXCEPT ![nextId] = Candidate(art, job[p].base)]
  /\ nextId' = nextId + 1
  /\ job' = [job EXCEPT ![p].pc = "stage", ![p].cand = nextId,
                        ![p].core = Missing]
  /\ UNCHANGED <<slots, legacy, lock, installed, run, envVars>>

\* Pending and its baseline in one write.  A staging that `restart` began for itself
\* releases the lock and goes on to apply.
Stage(p) ==
  /\ At(p, "stage")
  /\ slots' = StageSlots(job[p].cand, job[p].base)
  /\ IF job[p].seen = NoScene THEN End(p)
     ELSE /\ job' = [job EXCEPT ![p] = [Idle EXCEPT !.pc = "lock", !.cmd = "restart", !.exe = job[p].exe]]
          /\ lock' = NoProc
  /\ UNCHANGED <<gens, nextId, legacy, installed, run, envVars>>

----------------------------------------------------------------------------
(* restart: apply_pending_generation.                                      *)

\* The candidate is this CLI's own, can be verified, and names the baseline the
\* slots name, which is certified too.
Applicable(p, g) ==
  /\ Valid(g) /\ Trusted(g)
  /\ gens[g].art["daemon"] = job[p].exe
  /\ gens[g].bound = slots.previous
  /\ Trusted(slots.previous) /\ Valid(slots.previous)

\* With nothing pending the committed generation is only compared and reported on.
ReadCommitted(p) ==
  /\ At(p, "read") /\ slots.pending = NoGen
  /\ End(p)
  /\ UNCHANGED <<storeVars, legacy, installed, run, envVars>>

ReadPending(p) ==
  /\ At(p, "read") /\ slots.pending # NoGen
  /\ LET g == slots.pending
     IN IF HasWithdrawn(g) THEN Goto(p, "finish") /\ UNCHANGED lock
        ELSE IF ~Applicable(p, g) THEN End(p)
        ELSE /\ job' = [job EXCEPT ![p].pc = IF Matches(g) THEN "start" ELSE "quiesce",
                                   ![p].cand = g, ![p].base = slots.previous]
             /\ UNCHANGED lock
  /\ UNCHANGED <<storeVars, legacy, installed, run, envVars>>

\* A Core without its daemon is terminated only when it is proved to be the managed
\* one, and its exit is observed.
WithoutCore(r) == [r EXCEPT !["core"] = Off]

\* Only a changed daemon stops the service; either way the Core is proved stopped.
QuiesceFor(target) ==
  WithoutCore(IF installed["daemon"] # target["daemon"] THEN [run EXCEPT !["daemon"] = Off] ELSE run)

Quiesce(p) ==
  /\ At(p, "quiesce")
  /\ run' = QuiesceFor(gens[job[p].cand].art)
  /\ Goto(p, "replace")
  /\ UNCHANGED <<storeVars, legacy, lock, installed, envVars>>

\* Files are compared by content and replaced one by one, the daemon first; each as
\* a whole, by a rename over the old one that is tried again while it is in use.
NextFile(target) ==
  CHOOSE a \in Artifacts : installed[a] # target[a] /\ (a = "daemon" \/ installed["daemon"] = target["daemon"])
Replaced(a, file) == [installed EXCEPT ![a] = file]

Replace(p) ==
  /\ At(p, "replace")
  /\ LET target == gens[job[p].cand].art
     IN IF installed = target THEN Goto(p, "start") /\ UNCHANGED installed
        ELSE installed' = Replaced(NextFile(target), target[NextFile(target)]) /\ UNCHANGED job
  /\ UNCHANGED <<storeVars, legacy, lock, run, envVars>>

\* The service is started if it is down.  So is the Core, where there is a config.yaml
\* for it (nothing keeps the file there while the command runs); a Core whose start
\* cannot be attributed to this attempt's configuration is restarted.
Launch(core) ==
  run' = [run EXCEPT !["daemon"] = IF @ = Off THEN installed["daemon"] ELSE @,
                     !["core"] = core]

Start(p) ==
  /\ At(p, "start")
  /\ installed["daemon"] # Missing
  /\ \/ /\ installed["core"] # Missing
        /\ \E core \in {run["core"], installed["core"]} \ {Off} : Launch(core)
     \/ Launch(run["core"])
  /\ Goto(p, "prove")
  /\ UNCHANGED <<storeVars, legacy, lock, installed, envVars>>

\* Every file is the manifest's, and the daemon attests its own revision; where there
\* is a config.yaml, the Core runs.
RunsAs(art) == installed = art /\ run["daemon"] = art["daemon"]

Prove(p) ==
  /\ At(p, "prove")
  /\ LET proven == RunsAs(gens[job[p].cand].art)
     IN \/ proven /\ Goto(p, "commit")
        \/ ~(proven /\ run["core"] # Off) /\ Goto(p, "rb_quiesce")
  /\ UNCHANGED <<storeVars, legacy, lock, installed, run, envVars>>

\* commit_active_cas: the pending slot still names the candidate, which still verifies.
Commit(p) ==
  /\ At(p, "commit")
  /\ IF slots.pending = job[p].cand /\ Valid(job[p].cand)
     THEN slots' = CommitSlots(job[p].base) /\ Goto(p, "retire") /\ UNCHANGED lock
     ELSE End(p) /\ UNCHANGED slots
  /\ UNCHANGED <<gens, nextId, legacy, installed, run, envVars>>

\* The tombstones of this daemon whose baseline still vouches for them are retired,
\* then old generations are collected.
Retired(daemon) ==
  {g \in Ids : /\ HasWithdrawn(g) /\ gens[g].trusted /\ gens[g].art["daemon"] = daemon
               /\ Valid(gens[g].bound) /\ Trusted(gens[g].bound)
               /\ gens[gens[g].bound].kind = "baseline"}

Retire(p) ==
  /\ At(p, "retire")
  /\ gens' = [g \in Ids |-> IF g \in Retired(job[p].exe) \cup Collected THEN NoDir ELSE gens[g]]
  /\ End(p)
  /\ UNCHANGED <<slots, nextId, legacy, installed, run, envVars>>

----------------------------------------------------------------------------
(* restart: rollback_to_baseline, when any step of the pipeline fails.     *)

RollbackQuiesce(p) ==
  /\ At(p, "rb_quiesce")
  /\ run' = QuiesceFor(gens[job[p].base].art)
  /\ Goto(p, "rb_restore")
  /\ UNCHANGED <<storeVars, legacy, lock, installed, envVars>>

\* A file the baseline declares absent is moved aside.
RollbackRestore(p) ==
  /\ At(p, "rb_restore")
  /\ LET target == gens[job[p].base].art
     IN IF installed = target THEN Goto(p, "rb_start") /\ UNCHANGED installed
        ELSE installed' = Replaced(NextFile(target), target[NextFile(target)]) /\ UNCHANGED job
  /\ UNCHANGED <<storeVars, legacy, lock, run, envVars>>

RollbackStart(p) ==
  /\ At(p, "rb_start")
  /\ installed["daemon"] # Missing
  /\ \/ /\ installed["core"] # Missing
        /\ Launch(IF run["core"] = Off THEN installed["core"] ELSE run["core"])
     \/ Launch(run["core"])
  /\ Goto(p, "rb_prove")
  /\ UNCHANGED <<storeVars, legacy, lock, installed, envVars>>

BaselineProven(g) == RunsAs(gens[g].art)

RollbackProve(p) ==
  /\ At(p, "rb_prove")
  /\ IF BaselineProven(job[p].base) THEN Goto(p, "rb_mark") /\ UNCHANGED lock ELSE End(p)
  /\ UNCHANGED <<storeVars, legacy, installed, run, envVars>>

MarkProven(p) ==
  /\ At(p, "rb_mark")
  /\ gens' = [gens EXCEPT ![job[p].cand].proven = TRUE]
  /\ Goto(p, "rb_withdraw")
  /\ UNCHANGED <<slots, nextId, legacy, lock, installed, run, envVars>>

RollbackWithdraw(p) ==
  /\ At(p, "rb_withdraw")
  /\ gens' = [gens EXCEPT ![job[p].cand].tomb = TRUE]
  /\ Goto(p, "rb_consume")
  /\ UNCHANGED <<slots, nextId, legacy, lock, installed, run, envVars>>

RollbackConsume(p) ==
  /\ At(p, "rb_consume")
  /\ slots' = CompensateSlots(job[p].base)
  /\ End(p)
  /\ UNCHANGED <<gens, nextId, legacy, installed, run, envVars>>

\* The tombstone of the pending candidate is published, the slots are not consumed.
\* Without a rollback proof it is a discard, which says nothing of the runtime.
FinishRefused(g) ==
  \/ ~gens[g].trusted \/ ~Trusted(slots.previous)
  \/ gens[g].assoc # slots.previous
  \/ gens[g].proven /\ ~(Valid(slots.previous) /\ BaselineProven(slots.previous))

FinishWithdrawn(p) ==
  /\ At(p, "finish")
  /\ LET g == slots.pending
     IN IF FinishRefused(g) THEN UNCHANGED slots
        ELSE slots' = IF gens[g].proven THEN CompensateSlots(slots.previous)
                                        ELSE RevokeSlots(slots.previous)
  /\ End(p)
  /\ UNCHANGED <<gens, nextId, legacy, installed, run, envVars>>

----------------------------------------------------------------------------
(* install --discard-pending.                                              *)

\* The record that binds the tombstone to its baseline is written first.
Associate(p) ==
  /\ At(p, "associate")
  /\ LET g == slots.pending
     IN IF /\ g # NoGen /\ gens[g] # NoDir /\ gens[g].trusted
           /\ gens[g].bound = slots.previous /\ Trusted(slots.previous) /\ Valid(slots.previous)
        THEN /\ gens' = [gens EXCEPT ![g].assoc = slots.previous]
             /\ job' = [job EXCEPT ![p].pc = "withdraw", ![p].cand = g, ![p].base = slots.previous]
             /\ UNCHANGED lock
        ELSE End(p) /\ UNCHANGED gens
  /\ UNCHANGED <<slots, nextId, legacy, installed, run, envVars>>

Withdraw(p) ==
  /\ At(p, "withdraw")
  /\ gens' = [gens EXCEPT ![job[p].cand].tomb = TRUE]
  /\ Goto(p, "revoke")
  /\ UNCHANGED <<slots, nextId, legacy, lock, installed, run, envVars>>

Revoke(p) ==
  /\ At(p, "revoke")
  /\ slots' = RevokeSlots(job[p].base)
  /\ End(p)
  /\ UNCHANGED <<gens, nextId, legacy, installed, run, envVars>>

----------------------------------------------------------------------------
(* install --adopt-current.                                                *)

Adoptable == Named # {} /\ \A g \in Named : ~Trusted(g)

Scene == [slots |-> slots, art |-> installed]

\* The only trusted slot is an adopted baseline: nothing is left to adopt, or the
\* installation has drifted from it and adopting again is refused.
AlreadyAdopted ==
  /\ slots.active = NoGen /\ slots.pending = NoGen
  /\ Trusted(slots.previous) /\ gens[slots.previous].adopted

\* Read and shown to the administrator without the lock.
ObserveScene(p) ==
  /\ At(p, "observe")
  /\ IF ~AlreadyAdopted /\ Adoptable /\ Missing \notin {installed["daemon"], installed["core"]}
     THEN job' = [job EXCEPT ![p].pc = "lock", ![p].seen = Scene] /\ UNCHANGED lock
     ELSE End(p)
  /\ UNCHANGED <<storeVars, legacy, installed, run, envVars>>

\* What is written is what was approved, if the scene has not moved.
PersistAdopted(p) ==
  /\ At(p, "persist")
  /\ IF Adoptable /\ Scene = job[p].seen /\ nextId <= MaxGens
     THEN /\ gens' = [gens EXCEPT ![nextId] = Baseline(job[p].seen.art, TRUE)]
          /\ nextId' = nextId + 1
          /\ job' = [job EXCEPT ![p].pc = "recheck", ![p].base = nextId]
          /\ UNCHANGED lock
     ELSE End(p) /\ UNCHANGED <<gens, nextId>>
  /\ UNCHANGED <<slots, legacy, installed, run, envVars>>

RecheckScene(p) ==
  /\ At(p, "recheck")
  /\ IF Scene = job[p].seen THEN Goto(p, "adopted") /\ UNCHANGED lock ELSE End(p)
  /\ UNCHANGED <<storeVars, legacy, installed, run, envVars>>

CommitAdopted(p) ==
  /\ At(p, "adopted")
  /\ slots' = RevokeSlots(job[p].base)
  /\ End(p)
  /\ UNCHANGED <<gens, nextId, legacy, installed, run, envVars>>

----------------------------------------------------------------------------
(* Without the store lock.                                                 *)

\* `install` with the daemon down (or --force) writes the files in place: the Core if
\* it is missing (or --force), then the daemon, and starts the service.
DirectInstall(p) ==
  /\ At(p, "idle") /\ ~Recovery /\ Outside
  /\ \E exe \in Revs, core \in Revs, force \in BOOLEAN :
       /\ force \/ run["daemon"] = Off
       /\ job' = [job EXCEPT ![p] = [Idle EXCEPT !.cmd = "direct", !.exe = exe, !.core = core,
                    !.pc = IF force \/ installed["core"] = Missing THEN "direct_core" ELSE "direct_daemon"]]
  /\ UNCHANGED <<storeVars, legacy, lock, installed, run>>

DirectWriteCore(p) ==
  /\ At(p, "direct_core")
  /\ installed' = [installed EXCEPT !["core"] = job[p].core]
  /\ Goto(p, "direct_daemon")
  /\ UNCHANGED <<storeVars, legacy, lock, run, envVars>>

DirectWriteDaemon(p) ==
  /\ At(p, "direct_daemon")
  /\ installed' = [installed EXCEPT !["daemon"] = job[p].exe]
  /\ run' = [run EXCEPT !["daemon"] = IF @ = Off THEN job[p].exe ELSE @]
  /\ End(p)
  /\ UNCHANGED <<storeVars, legacy, envVars>>

\* `upgrade` overwrites the Core of a running instance, and then restarts it.
Upgrade(p) ==
  /\ At(p, "idle") /\ run["core"] # Off /\ Outside
  /\ \E exe, core \in Revs :
       /\ installed' = [installed EXCEPT !["core"] = core]
       /\ job' = [job EXCEPT ![p] = [Idle EXCEPT !.pc = "skew", !.cmd = "restart", !.exe = exe]]
  /\ UNCHANGED <<storeVars, legacy, lock, run>>

\* The daemon or the Core dies; the service manager may bring the daemon back.
Dies ==
  /\ Fault
  /\ \/ run["core"] # Off /\ run' = [run EXCEPT !["core"] = Off]
     \/ /\ run["daemon"] # Off
        /\ run' \in {Stopped, [run EXCEPT !["daemon"] = Off]}
     \/ /\ run["daemon"] # Off /\ installed["daemon"] # Missing
        /\ run' = [run EXCEPT !["daemon"] = installed["daemon"]]
  /\ UNCHANGED <<storeVars, legacy, lock, installed, job>>

Crash(p) ==
  /\ ~At(p, "idle") /\ Fault
  /\ End(p)
  /\ UNCHANGED <<storeVars, legacy, installed, run>>

\* A step of the pipeline fails: the rollback begins.  A step of the rollback fails:
\* the command ends with the candidate still pending.
StepFails(p) ==
  /\ Fault
  /\ \/ /\ job[p].pc \in {"quiesce", "replace", "start", "prove"}
        /\ Goto(p, "rb_quiesce") /\ UNCHANGED lock
     \/ /\ job[p].pc \in {"rb_quiesce", "rb_restore", "rb_start", "rb_prove"}
        /\ End(p)
  /\ UNCHANGED <<storeVars, legacy, installed, run>>

\* A start that cannot succeed (a file is missing) fails without a fault.
StartImpossible(p) ==
  /\ Missing \in {installed["daemon"], installed["core"]}
  /\ \/ At(p, "start") /\ Goto(p, "rb_quiesce") /\ UNCHANGED lock
     \/ At(p, "rb_start") /\ End(p)
  /\ UNCHANGED <<storeVars, legacy, installed, run, envVars>>

----------------------------------------------------------------------------

Step(p) ==
  \/ CheckSkew(p) \/ Migrate(p) \/ Acquire(p) \/ Busy(p)
  \/ Admit(p) \/ CaptureCore(p) \/ SealBaseline(p) \/ WriteCandidate(p) \/ Stage(p)
  \/ ReadCommitted(p) \/ ReadPending(p) \/ Quiesce(p) \/ Replace(p) \/ Start(p) \/ Prove(p) \/ Commit(p) \/ Retire(p)
  \/ RollbackQuiesce(p) \/ RollbackRestore(p) \/ RollbackStart(p) \/ RollbackProve(p)
  \/ MarkProven(p) \/ RollbackWithdraw(p) \/ RollbackConsume(p) \/ FinishWithdrawn(p)
  \/ Associate(p) \/ Withdraw(p) \/ Revoke(p)
  \/ ObserveScene(p) \/ PersistAdopted(p) \/ RecheckScene(p) \/ CommitAdopted(p)
  \/ DirectWriteCore(p) \/ DirectWriteDaemon(p) \/ StartImpossible(p)

Next ==
  \/ \E p \in Procs : Invoke(p) \/ DirectInstall(p) \/ Upgrade(p) \/ Step(p) \/ Crash(p) \/ StepFails(p)
  \/ Dies

Spec == Init /\ [][Next]_vars

----------------------------------------------------------------------------
(* Properties.                                                             *)

TypeOK ==
  /\ TypeOKStore
  /\ legacy \in LegacyStores \cup {NoGen}
  /\ lock \in Procs \cup {NoProc}
  /\ installed \in Scenes /\ run \in Runs
  /\ job \in [Procs -> Jobs]
  /\ faults \in 0 .. MaxFaults /\ outside \in 0 .. MaxOutside

\* The baseline an upgrade returns to is there as long as the upgrade is pending or
\* revoked: no collection, withdrawal or crash takes it away, and it is the one the
\* candidate's manifest names (main.rs:6226, generation.rs:1249).
BaselineKept ==
  LET b == slots.previous
  IN /\ Trusted(slots.pending) => Valid(b) /\ gens[slots.pending].bound = b
     /\ \A g \in Named : gens[g] # NoDir
     /\ \A g \in {slots.active, b} : Trusted(g) => Valid(g)

\* The store and the pipeline keep the promise of UpgradeContract.
Phase ==
  IF Trusted(slots.pending) THEN "staged"
  ELSE IF slots.active = NoGen /\ Trusted(slots.previous) THEN "revoked" ELSE "settled"

Contract == INSTANCE UpgradeContract WITH
  phase <- Phase,
  scene <- installed,
  base <- IF Phase = "settled" THEN NoScene ELSE gens[slots.previous].art,
  target <- IF Phase = "staged" THEN gens[slots.pending].art ELSE NoScene

ImplementsContract ==
  /\ Contract!Init
  /\ [][outside' = 0 => Contract!Next \/ UNCHANGED Contract!vars]_vars
=============================================================================
