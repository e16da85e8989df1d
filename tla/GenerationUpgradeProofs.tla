---------------------- MODULE GenerationUpgradeProofs ----------------------
(***************************************************************************)
(* The baseline of an upgrade is kept, and the commands implement          *)
(* UpgradeContract, for any number of processes, generations, contents and *)
(* faults.                                                                 *)
(***************************************************************************)
EXTENDS GenerationUpgrade, TLAPS

\* The steps inside the generation lock, and those outside of it.
Outer == {"idle", "skew", "migrate", "lock", "observe", "direct_core", "direct_daemon"}
Inside == PCs \ Outer

\* Whoever is inside holds the lock.
Locking == \A p \in Procs : lock = p <=> job[p].pc \in Inside

\* Until the old store has been migrated the new one is empty, and nobody works on it.
Early == {"idle", "skew", "migrate", "direct_core", "direct_daemon"}
Before ==
  legacy # NoGen => /\ slots = EmptySlots /\ nextId = 3
                    /\ \A g \in Ids : gens[g] = NoDir
                    /\ \A p \in Procs : job[p].pc \in Early

\* No directory has an identifier that is still to come.
Fresh == \A g \in Ids : g >= nextId => gens[g] = NoDir

\* What the slots name exists, the pending generation is no other slot's, and a
\* baseline that is trusted can be verified.
Sound == BaselineKept /\ (slots.pending # NoGen => slots.pending \notin {slots.active, slots.previous})

\* A directory no slot names yet.
New(g) == g \in Ids \ Named /\ Trusted(g) /\ ~gens[g].tomb

Staging == {"capture", "seal", "write", "stage"}

\* From the reading of the slots to the write that ends the upgrade.
Applies == {"quiesce", "replace", "start", "prove", "commit", "rb_quiesce", "rb_restore",
            "rb_start", "rb_prove", "rb_mark", "rb_withdraw", "rb_consume", "withdraw", "revoke"}

\* What a command at its step knows of the generations it works on.
Works(j) ==
  /\ j.pc \in {"capture", "seal"} => New(j.base) /\ ~Recovery
  /\ j.pc \in Staging \cup {"retire"} => slots.pending = NoGen
  /\ j.pc \in Staging \ {"stage"} => nextId <= MaxGens
  /\ j.pc \in {"write", "stage"} =>
       /\ Trusted(j.base) /\ Valid(j.base)
       /\ Recovery => j.base = slots.previous
       /\ ~Recovery => New(j.base)
  /\ j.pc = "stage" => New(j.cand) /\ Valid(j.cand) /\ gens[j.cand].bound = j.base /\ j.cand # j.base
  /\ j.pc \in Applies =>
       j.cand = slots.pending /\ j.base = slots.previous /\ Trusted(j.cand) /\ Trusted(j.base)
  /\ j.pc = "finish" => slots.pending \in Ids
  /\ j.pc \in {"recheck", "adopted"} =>
       /\ New(j.base) /\ Valid(j.base)
       /\ j.seen \in [slots: Slots, art: Scenes] /\ gens[j.base].art = j.seen.art
       /\ \A g \in Named : ~Trusted(g)
  /\ j.pc = "adopted" => j.seen.slots = slots
  /\ j.pc \in {"direct_core", "direct_daemon"} => j.exe \in Revs /\ j.core \in Revs

Working == \A p \in Procs : Works(job[p])

Inv == TypeOK /\ Locking /\ Before /\ Fresh /\ Sound /\ Working

-----------------------------------------------------------------------------
(* Types.                                                                  *)

Dirs == Generations \cup {NoDir}

LEMMA IdFacts == NoGen \notin Ids /\ MaxGens \in Nat /\ 1 \in Ids /\ 2 \in Ids /\ Ids \subseteq Nat
BY GenAssumption, UpgradeAssumption DEF Ids

LEMMA BaselineTyped ==
  ASSUME NEW art \in Scenes, NEW adopted \in BOOLEAN
  PROVE  Baseline(art, adopted) \in Generations
BY DEF Baseline, Generations

LEMMA CandidateTyped ==
  ASSUME NEW art \in Scenes, NEW base \in Ids \cup {NoGen}
  PROVE  Candidate(art, base) \in Generations
BY DEF Candidate, Generations

\* The content of one file is that of a scene.
LEMMA FileTyped ==
  ASSUME NEW art \in Scenes
  PROVE  art["daemon"] \in Revs \cup {Missing} /\ art["core"] \in Revs \cup {Missing}
BY DEF Scenes, Artifacts

LEMMA NextFileIn ==
  ASSUME installed \in Scenes, NEW target \in Scenes, installed # target
  PROVE  NextFile(target) \in Artifacts
<1>1. installed["daemon"] # target["daemon"] \/ installed["core"] # target["core"]
  BY DEF Scenes, Artifacts
<1>2. \E a \in Artifacts :
        installed[a] # target[a] /\ (a = "daemon" \/ installed["daemon"] = target["daemon"])
  BY <1>1 DEF Artifacts
<1> QED  BY <1>2 DEF NextFile

LEMMA IdleTyped == Idle \in Jobs /\ Idle.pc = "idle"
BY DEF Idle, Jobs, PCs, Cmds

JobOK == job \in [Procs -> Jobs]

LEMMA EndTyped ==
  ASSUME JobOK, NEW p \in Procs, End(p)
  PROVE  JobOK' /\ job'[p] = Idle /\ \A q \in Procs \ {p} : job'[q] = job[q]
BY IdleTyped DEF JobOK, End

LEMMA GotoTyped ==
  ASSUME JobOK, NEW p \in Procs, NEW l \in PCs, Goto(p, l)
  PROVE  /\ JobOK'
         /\ job'[p] = [job[p] EXCEPT !.pc = l] /\ job'[p].pc = l
         /\ \A q \in Procs \ {p} : job'[q] = job[q]
<1>1. job[p] \in Jobs
  BY DEF JobOK
<1>2. [job[p] EXCEPT !.pc = l] \in Jobs
  BY <1>1 DEF Jobs
<1> QED  BY <1>1, <1>2 DEF Goto, JobOK, Jobs


LEMMA PutTyped ==
  ASSUME JobOK, NEW p \in Procs, NEW j \in Jobs, job' = [job EXCEPT ![p] = j]
  PROVE  JobOK' /\ job'[p] = j /\ \A q \in Procs \ {p} : job'[q] = job[q]
BY DEF JobOK

\* A step of one process leaves the commands of the others alone.
Moved(p) == JobOK' /\ \A q \in Procs \ {p} : job'[q] = job[q]

Acts(p) == Invoke(p) \/ DirectInstall(p) \/ Upgrade(p) \/ Step(p) \/ Crash(p) \/ StepFails(p)

LEMMA EntryTyped ==
  ASSUME NEW cmd \in Cmds
  PROVE  Entry(cmd) \in {"migrate", "observe", "lock"} /\ Entry(cmd) \in PCs
BY DEF Entry, PCs

LEMMA InvokeMoves ==
  ASSUME TypeOK, NEW p \in Procs, Invoke(p) \/ CheckSkew(p) \/ DirectInstall(p) \/ Upgrade(p)
  PROVE  Moved(p)
<1>1. JobOK /\ job[p] \in Jobs /\ installed \in Scenes /\ slots \in Slots
  BY DEF TypeOK, JobOK, TypeOKStore
<1>2. Cmds = {"install", "restart", "discard", "adopt", "direct"}
  BY DEF Cmds
<1>3. CASE Invoke(p)
  <2>1. CoreSources \subseteq Revs
    <3>1. ASSUME Recovery, Valid(slots.previous), gens[slots.previous].art["core"] # Missing
          PROVE  gens[slots.previous].art["core"] \in Revs
      <4>1. gens[slots.previous] \in Generations
        BY <3>1 DEF Valid, HasManifest, TypeOK, TypeOKStore
      <4>2. gens[slots.previous].art \in Scenes
        BY <4>1 DEF Generations
      <4> QED  BY <3>1, <4>2, FileTyped
    <3> QED  BY <3>1 DEF CoreSources
  <2>2. ASSUME NEW exe \in Revs, NEW core \in Revs, NEW pc \in PCs
        PROVE  [Idle EXCEPT !.pc = pc, !.exe = exe, !.core = core] \in Jobs
    BY DEF Idle, Jobs, Cmds
  <2>3. ASSUME NEW exe \in Revs, NEW cmd \in Cmds, NEW pc \in PCs
        PROVE  [Idle EXCEPT !.pc = pc, !.cmd = cmd, !.exe = exe] \in Jobs
    BY DEF Idle, Jobs, Cmds
  <2>4. ASSUME NEW cmd \in Cmds, NEW pc \in PCs
        PROVE  [Idle EXCEPT !.pc = pc, !.cmd = cmd] \in Jobs
    BY DEF Idle, Jobs, Cmds
  <2>5. \E j \in Jobs : job' = [job EXCEPT ![p] = j]
    <3>1. CASE \E exe \in Revs, core \in CoreSources :
                 job' = [job EXCEPT ![p] = [Idle EXCEPT !.pc = Entry("install"), !.exe = exe, !.core = core]]
      <4>1. PICK exe \in Revs, core \in Revs :
              job' = [job EXCEPT ![p] = [Idle EXCEPT !.pc = Entry("install"), !.exe = exe, !.core = core]]
        BY <3>1, <2>1
      <4>2. Entry("install") \in PCs
        BY <1>2, EntryTyped
      <4>3. [Idle EXCEPT !.pc = Entry("install"), !.exe = exe, !.core = core] \in Jobs
        BY <2>2, <4>2, <1>2
      <4> QED  BY <4>1, <4>3
    <3>2. CASE \E exe \in Revs :
                 job' = [job EXCEPT ![p] = [Idle EXCEPT !.pc = "skew", !.cmd = "restart", !.exe = exe]]
      <4>1. "skew" \in PCs /\ "restart" \in Cmds
        BY DEF PCs, Cmds
      <4>2. ASSUME NEW exe \in Revs
            PROVE  [Idle EXCEPT !.pc = "skew", !.cmd = "restart", !.exe = exe] \in Jobs
        BY <2>3, <4>1
      <4> QED  BY <3>2, <4>2
    <3>3. CASE job' = [job EXCEPT ![p] = [Idle EXCEPT !.pc = Entry("discard"), !.cmd = "discard"]]
      <4>1. Entry("discard") \in PCs
        BY <1>2, EntryTyped
      <4>2. [Idle EXCEPT !.pc = Entry("discard"), !.cmd = "discard"] \in Jobs
        BY <2>4, <4>1, <1>2
      <4> QED  BY <3>3, <4>2
    <3>4. CASE job' = [job EXCEPT ![p] = [Idle EXCEPT !.pc = Entry("adopt"), !.cmd = "adopt"]]
      <4>1. Entry("adopt") \in PCs
        BY <1>2, EntryTyped
      <4>2. [Idle EXCEPT !.pc = Entry("adopt"), !.cmd = "adopt"] \in Jobs
        BY <2>4, <4>1, <1>2
      <4> QED  BY <3>4, <4>2
    <3> QED  BY <1>3, <3>1, <3>2, <3>3, <3>4 DEF Invoke
  <2> QED  BY <1>1, <2>5, PutTyped DEF Moved
<1>4. CASE CheckSkew(p)
  <2>1. CASE job[p].exe = installed["daemon"] \/ slots.pending # NoGen
    BY <1>1, <1>2, <1>4, <2>1, EntryTyped, GotoTyped DEF CheckSkew, Moved
  <2>2. CASE ~(job[p].exe = installed["daemon"] \/ slots.pending # NoGen) /\ SkewRefused(p)
    BY <1>1, <1>4, <2>2, EndTyped DEF CheckSkew, Moved
  <2>3. CASE ~(job[p].exe = installed["daemon"] \/ slots.pending # NoGen) /\ ~SkewRefused(p)
    <3> DEFINE j == [job[p] EXCEPT !.pc = Entry("install"), !.cmd = "install",
                                   !.core = installed["core"],
                                   !.seen = [slots |-> slots, art |-> installed]]
    <3>1. j \in Jobs
      <4>1. installed["core"] \in Revs \cup {Missing}
        BY <1>1, FileTyped
      <4>2. [slots |-> slots, art |-> installed] \in [slots: Slots, art: Scenes] \cup {NoScene}
        BY <1>1
      <4> DEFINE s == [slots |-> slots, art |-> installed]
                 e == Entry("install")
                 c == installed["core"]
      <4> HIDE DEF s, e, c
      <4>3. s \in [slots: Slots, art: Scenes] \cup {NoScene} /\ c \in Revs \cup {Missing} /\ e \in PCs
        BY <4>1, <4>2, <1>2, EntryTyped DEF s, e, c
      <4>4. [job[p] EXCEPT !.pc = e, !.cmd = "install", !.core = c, !.seen = s] \in Jobs
        BY <4>3, <1>1, <1>2 DEF Jobs
      <4> QED  BY <4>4 DEF s, e, c
    <3>2. job' = [job EXCEPT ![p] = j]
      BY <1>1, <1>4, <2>3 DEF CheckSkew, JobOK
    <3> HIDE DEF j
    <3> QED  BY <1>1, <3>1, <3>2, PutTyped DEF Moved
  <2> QED  BY <2>1, <2>2, <2>3
<1>5. CASE DirectInstall(p)
  <2>1. ASSUME NEW exe \in Revs, NEW core \in Revs, NEW pc \in {"direct_core", "direct_daemon"}
        PROVE  [Idle EXCEPT !.cmd = "direct", !.exe = exe, !.core = core, !.pc = pc] \in Jobs
    BY DEF Idle, Jobs, Cmds, PCs
  <2>2. \E j \in Jobs : job' = [job EXCEPT ![p] = j]
    BY <1>5, <2>1 DEF DirectInstall
  <2> QED  BY <1>1, <2>2, PutTyped DEF Moved
<1>6. CASE Upgrade(p)
  <2>1. ASSUME NEW exe \in Revs
        PROVE  [Idle EXCEPT !.pc = "skew", !.cmd = "restart", !.exe = exe] \in Jobs
    BY DEF Idle, Jobs, Cmds, PCs
  <2>2. \E j \in Jobs : job' = [job EXCEPT ![p] = j]
    BY <1>6, <2>1 DEF Upgrade
  <2> QED  BY <1>1, <2>2, PutTyped DEF Moved
<1> QED  BY <1>3, <1>4, <1>5, <1>6

LEMMA SimpleMoves ==
  ASSUME JobOK, NEW p \in Procs, (\E l \in PCs : Goto(p, l)) \/ End(p) \/ UNCHANGED job
  PROVE  Moved(p)
BY EndTyped, GotoTyped DEF Moved, JobOK

LEMMA StoreMoves ==
  ASSUME Inv, NEW p \in Procs,
         Admit(p) \/ WriteCandidate(p) \/ Stage(p) \/ ReadPending(p) \/ Associate(p)
           \/ ObserveScene(p) \/ PersistAdopted(p)
  PROVE  Moved(p)
<1>1. /\ JobOK /\ job[p] \in Jobs /\ installed \in Scenes /\ slots \in Slots
      /\ nextId \in 1 .. MaxGens + 1 /\ nextId \in Nat /\ MaxGens \in Nat
  BY IdFacts DEF Inv, TypeOK, JobOK, TypeOKStore
<1>2. slots.previous \in Ids \cup {NoGen} /\ slots.pending \in Ids \cup {NoGen}
  BY <1>1 DEF Slots
<1>3. ASSUME NEW g \in Ids \cup {NoGen}, NEW b \in Ids \cup {NoGen}, NEW pc \in PCs
      PROVE  /\ [job[p] EXCEPT !.pc = pc, !.base = b] \in Jobs
             /\ [job[p] EXCEPT !.pc = pc, !.cand = g, !.core = Missing] \in Jobs
             /\ [job[p] EXCEPT !.pc = pc, !.cand = g, !.base = b] \in Jobs
  <2>1. [job[p] EXCEPT !.pc = pc, !.base = b] \in Jobs
    BY <1>1 DEF Jobs
  <2>2. [job[p] EXCEPT !.pc = pc, !.cand = g, !.core = Missing] \in Jobs
    BY <1>1 DEF Jobs
  <2>3. [job[p] EXCEPT !.pc = pc, !.cand = g, !.base = b] \in Jobs
    BY <1>1 DEF Jobs
  <2> QED  BY <2>1, <2>2, <2>3
<1>4. {"capture", "write", "stage", "start", "quiesce", "withdraw", "recheck", "lock"} \subseteq PCs
  BY DEF PCs
<1>5. CASE End(p)
  BY <1>1, <1>5, EndTyped DEF Moved
<1>6. CASE Admit(p) /\ ~End(p)
  <2>1. ~(nextId + 1 > MaxGens)
    BY <1>6, Zenon DEF Admit
  <2>2. nextId <= MaxGens
    BY <1>1, <2>1
  <2>3. nextId \in Ids
    BY <1>1, <2>2 DEF Ids
  <2>4. \E b \in Ids \cup {NoGen}, pc \in PCs :
          job' = [job EXCEPT ![p] = [job[p] EXCEPT !.pc = pc, !.base = b]]
    BY <1>1, <1>2, <1>4, <1>6, <2>3 DEF Admit, JobOK
  <2> QED  BY <1>1, <1>3, <2>4, PutTyped DEF Moved
<1>7. CASE WriteCandidate(p)
  <2>1. nextId \in Ids
    BY <1>1, <1>7 DEF WriteCandidate, Ids, Inv, Working, Works, At, Staging
  <2>2. job' = [job EXCEPT ![p] = [job[p] EXCEPT !.pc = "stage", !.cand = nextId, !.core = Missing]]
    BY <1>1, <1>7 DEF WriteCandidate, JobOK
  <2> QED  BY <1>1, <1>3, <1>4, <2>1, <2>2, PutTyped DEF Moved
<1>8. CASE Stage(p) /\ ~End(p)
  <2>1. [Idle EXCEPT !.pc = "lock", !.cmd = "restart", !.exe = job[p].exe] \in Jobs
    <3>1. job[p].exe \in Revs \cup {Missing}
      BY <1>1 DEF Jobs
    <3> DEFINE e == job[p].exe
    <3>2. e \in Revs \cup {Missing}
      BY <3>1
    <3> HIDE DEF e
    <3>3. [Idle EXCEPT !.pc = "lock", !.cmd = "restart", !.exe = e] \in Jobs
      BY <3>2 DEF Idle, Jobs, PCs, Cmds
    <3> QED  BY <3>3 DEF e
  <2> QED  BY <1>1, <1>8, <2>1, PutTyped DEF Stage, Moved
<1>9. CASE ReadPending(p) /\ ~End(p)
  <2>1. CASE Goto(p, "finish")
    BY <1>1, <2>1, GotoTyped DEF Moved, PCs
  <2>2. CASE ~Goto(p, "finish")
    <3>1. \E pc \in PCs :
            job' = [job EXCEPT ![p] = [job[p] EXCEPT !.pc = pc, !.cand = slots.pending,
                                                     !.base = slots.previous]]
      BY <1>1, <1>4, <1>9, <2>2 DEF ReadPending, JobOK
    <3> QED  BY <1>1, <1>2, <1>3, <3>1, PutTyped DEF Moved
  <2> QED  BY <2>1, <2>2
<1>10. CASE Associate(p) /\ ~End(p)
  <2>1. job' = [job EXCEPT ![p] = [job[p] EXCEPT !.pc = "withdraw", !.cand = slots.pending,
                                                 !.base = slots.previous]]
    BY <1>1, <1>10 DEF Associate, JobOK
  <2> QED  BY <1>1, <1>2, <1>3, <1>4, <2>1, PutTyped DEF Moved
<1>11. CASE ObserveScene(p) /\ ~End(p)
  <2> DEFINE s == Scene
  <2>1. s \in [slots: Slots, art: Scenes] \cup {NoScene}
    BY <1>1 DEF Scene
  <2> HIDE DEF s
  <2>2. [job[p] EXCEPT !.pc = "lock", !.seen = s] \in Jobs
    BY <1>1, <2>1 DEF Jobs, PCs
  <2>3. job' = [job EXCEPT ![p] = [job[p] EXCEPT !.pc = "lock", !.seen = s]]
    BY <1>1, <1>11 DEF ObserveScene, JobOK, s
  <2> QED  BY <1>1, <2>2, <2>3, PutTyped DEF Moved
<1>12. CASE PersistAdopted(p) /\ ~End(p)
  <2>1. nextId <= MaxGens
    BY <1>1, <1>12 DEF PersistAdopted
  <2>2. nextId \in Ids
    BY <1>1, <2>1 DEF Ids
  <2>3. job' = [job EXCEPT ![p] = [job[p] EXCEPT !.pc = "recheck", !.base = nextId]]
    BY <1>1, <1>12 DEF PersistAdopted, JobOK
  <2> QED  BY <1>1, <1>3, <1>4, <2>2, <2>3, PutTyped DEF Moved
<1> QED  BY <1>5, <1>6, <1>7, <1>8, <1>9, <1>10, <1>11, <1>12

\* The other steps go on, end, or stay where they are.
LEMMA PlainMoves ==
  ASSUME Inv, NEW p \in Procs, Step(p) \/ Crash(p) \/ StepFails(p)
  PROVE  Moved(p)
<1>1. JobOK
  BY DEF Inv, TypeOK, JobOK
<1>2. CASE CheckSkew(p)
  BY <1>2, InvokeMoves DEF Inv
<1>3. CASE Admit(p) \/ WriteCandidate(p) \/ Stage(p) \/ ReadPending(p) \/ Associate(p)
             \/ ObserveScene(p) \/ PersistAdopted(p)
  BY <1>3, StoreMoves
<1>4. CASE Migrate(p) \/ Acquire(p) \/ Busy(p) \/ CaptureCore(p) \/ SealBaseline(p)
  <2>1. (\E l \in PCs : Goto(p, l)) \/ End(p)
    BY <1>4 DEF Migrate, Acquire, Busy, CaptureCore, SealBaseline, PCs
  <2> QED  BY <1>1, <2>1, SimpleMoves
<1>5. CASE ReadCommitted(p) \/ Quiesce(p) \/ Replace(p) \/ Start(p) \/ Prove(p) \/ Commit(p) \/ Retire(p)
  <2>1. (\E l \in PCs : Goto(p, l)) \/ End(p) \/ UNCHANGED job
    BY <1>5 DEF ReadCommitted, Quiesce, Replace, Start, Prove, Commit, Retire, PCs
  <2> QED  BY <1>1, <2>1, SimpleMoves
<1>6. CASE RollbackQuiesce(p) \/ RollbackRestore(p) \/ RollbackStart(p) \/ RollbackProve(p)
             \/ MarkProven(p) \/ RollbackWithdraw(p) \/ RollbackConsume(p) \/ FinishWithdrawn(p)
  <2>1. (\E l \in PCs : Goto(p, l)) \/ End(p) \/ UNCHANGED job
    BY <1>6 DEF RollbackQuiesce, RollbackRestore, RollbackStart, RollbackProve, MarkProven,
                RollbackWithdraw, RollbackConsume, FinishWithdrawn, PCs
  <2> QED  BY <1>1, <2>1, SimpleMoves
<1>7. CASE Withdraw(p) \/ Revoke(p) \/ RecheckScene(p) \/ CommitAdopted(p) \/ DirectWriteCore(p)
             \/ DirectWriteDaemon(p) \/ StartImpossible(p) \/ Crash(p) \/ StepFails(p)
  <2>1. (\E l \in PCs : Goto(p, l)) \/ End(p)
    BY <1>7 DEF Withdraw, Revoke, RecheckScene, CommitAdopted, DirectWriteCore, DirectWriteDaemon,
                StartImpossible, Crash, StepFails, PCs
  <2> QED  BY <1>1, <2>1, SimpleMoves
<1> QED  BY <1>2, <1>3, <1>4, <1>5, <1>6, <1>7 DEF Step

LEMMA ActsMove ==
  ASSUME Inv, NEW p \in Procs, Acts(p)
  PROVE  Moved(p)
BY InvokeMoves, PlainMoves DEF Acts, Inv

-----------------------------------------------------------------------------
(* The lock.                                                               *)

LEMMA EndUnlocks ==
  ASSUME Inv, NEW p \in Procs, End(p)
  PROVE  Locking'
<1>1. JobOK /\ lock \in Procs \cup {NoProc} /\ NoProc \notin Procs
  BY UpgradeAssumption DEF Inv, TypeOK, JobOK
<1>2. job'[p] = Idle /\ \A q \in Procs \ {p} : job'[q] = job[q]
  BY <1>1, EndTyped
<1>3. Idle.pc \notin Inside
  BY IdleTyped DEF Inside, Outer
<1>4. lock' = IF lock = p THEN NoProc ELSE lock
  BY DEF End
<1> QED  BY <1>1, <1>2, <1>3, <1>4 DEF Inv, Locking

LEMMA StaysLocked ==
  ASSUME Inv, NEW p \in Procs, Moved(p), UNCHANGED lock,
         job'[p].pc \in Inside <=> job[p].pc \in Inside
  PROVE  Locking'
BY DEF Inv, Locking, Moved

\* What a step does to the place of its process.
Stays(p) == UNCHANGED lock /\ (job'[p].pc \in Inside <=> job[p].pc \in Inside)

LEMMA LockingKept ==
  ASSUME Inv, NEW p \in Procs, Acts(p)
  PROVE  Locking'
<1>1. JobOK /\ job[p] \in Jobs /\ Moved(p) /\ lock \in Procs \cup {NoProc} /\ NoProc \notin Procs
  BY ActsMove, UpgradeAssumption DEF Inv, TypeOK, JobOK
<1>2. \A l \in PCs : Goto(p, l) => job'[p].pc = l
  BY <1>1, GotoTyped
<1>3. CASE Invoke(p) \/ DirectInstall(p) \/ Upgrade(p)
  <2>1. job[p].pc = "idle" /\ UNCHANGED lock
    BY <1>3 DEF Invoke, DirectInstall, Upgrade, At
  <2>2. CASE Invoke(p)
    <3>1. {Entry("install"), Entry("discard"), Entry("adopt"), "skew"} \subseteq Outer
      BY DEF Entry, Outer
    <3>2. ASSUME \E exe \in Revs, core \in CoreSources :
                 job' = [job EXCEPT ![p] = [Idle EXCEPT !.pc = Entry("install"), !.exe = exe, !.core = core]]
          PROVE  job'[p].pc \in Outer
      BY <1>1, <3>1, <3>2 DEF JobOK, Idle
    <3>3. ASSUME \E exe \in Revs :
                 job' = [job EXCEPT ![p] = [Idle EXCEPT !.pc = "skew", !.cmd = "restart", !.exe = exe]]
          PROVE  job'[p].pc \in Outer
      BY <1>1, <3>1, <3>3 DEF JobOK, Idle
    <3>4. ASSUME job' = [job EXCEPT ![p] = [Idle EXCEPT !.pc = Entry("discard"), !.cmd = "discard"]]
          PROVE  job'[p].pc \in Outer
      BY <1>1, <3>1, <3>4 DEF JobOK, Idle
    <3>5. ASSUME job' = [job EXCEPT ![p] = [Idle EXCEPT !.pc = Entry("adopt"), !.cmd = "adopt"]]
          PROVE  job'[p].pc \in Outer
      BY <1>1, <3>1, <3>5 DEF JobOK, Idle
    <3>6. job'[p].pc \in Outer
      BY <2>2, <3>2, <3>3, <3>4, <3>5 DEF Invoke
    <3> QED  BY <1>1, <2>1, <3>6, StaysLocked DEF Inside, Outer
  <2>3. CASE DirectInstall(p)
    <3>1. job'[p].pc \in {"direct_core", "direct_daemon"}
      BY <1>1, <2>3 DEF DirectInstall, JobOK, Idle
    <3> QED  BY <1>1, <2>1, <3>1, StaysLocked DEF Inside, Outer
  <2>4. CASE Upgrade(p)
    <3>1. job'[p].pc = "skew"
      BY <1>1, <2>4 DEF Upgrade, JobOK, Idle
    <3> QED  BY <1>1, <2>1, <3>1, StaysLocked DEF Inside, Outer
  <2> QED  BY <1>3, <2>2, <2>3, <2>4
<1>4. CASE End(p)
  BY <1>4, EndUnlocks
<1>5. CASE Acquire(p)
  <2>1. job'[p].pc \in {"admit", "read", "associate", "persist"}
    BY <1>1, <1>5 DEF Acquire, Goto, JobOK
  <2>2. lock = NoProc /\ lock' = p
    BY <1>5 DEF Acquire
  <2> QED  BY <1>1, <2>1, <2>2 DEF Inv, Locking, Moved, Inside, Outer, PCs
<1>6. CASE Stage(p) /\ ~End(p)
  <2>1. job'[p].pc = "lock" /\ lock' = NoProc /\ job[p].pc = "stage"
    BY <1>1, <1>6 DEF Stage, JobOK, Idle, At
  <2>2. lock = p
    BY <1>1, <2>1 DEF Inv, Locking, Inside, Outer, PCs
  <2> QED  BY <1>1, <2>1, <2>2 DEF Inv, Locking, Moved, Inside, Outer, PCs
<1>7. CASE (CheckSkew(p) \/ Migrate(p) \/ ObserveScene(p)) /\ ~End(p)
  <2>1. CASE CheckSkew(p)
    <3>1. UNCHANGED lock /\ job[p].pc \in Outer /\ job'[p].pc \in Outer
      BY <1>1, <1>2, <1>7, <2>1 DEF CheckSkew, At, JobOK, Jobs, Goto, Entry, Outer
    <3> QED  BY <1>1, <3>1, StaysLocked DEF Inside
  <2>2. CASE Migrate(p)
    <3>1. UNCHANGED lock /\ job[p].pc \in Outer /\ job'[p].pc \in Outer
      BY <1>1, <1>2, <1>7, <2>2 DEF Migrate, At, Outer, PCs
    <3> QED  BY <1>1, <3>1, StaysLocked DEF Inside
  <2>3. CASE ObserveScene(p)
    <3>1. UNCHANGED lock /\ job[p].pc \in Outer /\ job'[p].pc \in Outer
      BY <1>1, <1>2, <1>7, <2>3 DEF ObserveScene, At, JobOK, Jobs, Outer
    <3> QED  BY <1>1, <3>1, StaysLocked DEF Inside
  <2> QED  BY <1>7, <2>1, <2>2, <2>3
<1>8. CASE (Admit(p) \/ CaptureCore(p) \/ SealBaseline(p) \/ WriteCandidate(p)) /\ ~End(p)
  <2>1. CASE Admit(p)
    <3>1. ~End(p) /\ job[p].pc = "admit"
      BY <1>8, <2>1 DEF Admit, At
    <3>2. UNCHANGED lock
      BY <2>1, <3>1 DEF Admit
    <3>3. JobOK
      BY <1>1
    <3>4. job'[p].pc \in {"capture", "write"}
      BY <2>1, <3>1, <3>3 DEF Admit, JobOK, Jobs
    <3> QED  BY <1>1, <3>1, <3>2, <3>4, StaysLocked DEF Inside, Outer, PCs
  <2>2. CASE CaptureCore(p)
    <3>1. UNCHANGED lock /\ job[p].pc \in Inside /\ job'[p].pc \in Inside
      BY <1>1, <1>2, <1>8, <2>2 DEF CaptureCore, At, Inside, Outer, PCs
    <3> QED  BY <1>1, <3>1, StaysLocked DEF Inside
  <2>3. CASE SealBaseline(p)
    <3>1. UNCHANGED lock /\ job[p].pc \in Inside /\ job'[p].pc \in Inside
      BY <1>1, <1>2, <1>8, <2>3 DEF SealBaseline, At, Inside, Outer, PCs
    <3> QED  BY <1>1, <3>1, StaysLocked DEF Inside
  <2>4. CASE WriteCandidate(p)
    <3>1. UNCHANGED lock /\ job[p].pc \in Inside /\ job'[p].pc \in Inside
      BY <1>1, <1>2, <1>8, <2>4 DEF WriteCandidate, At, JobOK, Jobs, Inside, Outer, PCs
    <3> QED  BY <1>1, <3>1, StaysLocked DEF Inside
  <2> QED  BY <1>8, <2>1, <2>2, <2>3, <2>4
<1>9. CASE (ReadPending(p) \/ Quiesce(p) \/ Replace(p) \/ Start(p) \/ Prove(p) \/ Commit(p)) /\ ~End(p)
  <2>1. CASE ReadPending(p)
    <3>1. UNCHANGED lock /\ job[p].pc \in Inside /\ job'[p].pc \in Inside
      BY <1>1, <1>2, <1>9, <2>1 DEF ReadPending, At, JobOK, Jobs, Goto, Inside, Outer, PCs
    <3> QED  BY <1>1, <3>1, StaysLocked DEF Inside
  <2>2. CASE Quiesce(p)
    <3>1. UNCHANGED lock /\ job[p].pc \in Inside /\ job'[p].pc \in Inside
      BY <1>1, <1>2, <1>9, <2>2 DEF Quiesce, At, Inside, Outer, PCs
    <3> QED  BY <1>1, <3>1, StaysLocked DEF Inside
  <2>3. CASE Replace(p)
    <3>1. UNCHANGED lock /\ job[p].pc \in Inside /\ job'[p].pc \in Inside
      BY <1>1, <1>2, <1>9, <2>3 DEF Replace, At, Inside, Outer, PCs
    <3> QED  BY <1>1, <3>1, StaysLocked DEF Inside
  <2>4. CASE Start(p)
    <3>1. UNCHANGED lock /\ job[p].pc \in Inside /\ job'[p].pc \in Inside
      BY <1>1, <1>2, <1>9, <2>4 DEF Start, At, Inside, Outer, PCs
    <3> QED  BY <1>1, <3>1, StaysLocked DEF Inside
  <2>5. CASE Prove(p)
    <3>1. UNCHANGED lock /\ job[p].pc \in Inside /\ job'[p].pc \in Inside
      BY <1>1, <1>2, <1>9, <2>5 DEF Prove, At, Inside, Outer, PCs
    <3> QED  BY <1>1, <3>1, StaysLocked DEF Inside
  <2>6. CASE Commit(p)
    <3>1. UNCHANGED lock /\ job[p].pc \in Inside /\ job'[p].pc \in Inside
      BY <1>1, <1>2, <1>9, <2>6 DEF Commit, At, Inside, Outer, PCs
    <3> QED  BY <1>1, <3>1, StaysLocked DEF Inside
  <2> QED  BY <1>9, <2>1, <2>2, <2>3, <2>4, <2>5, <2>6
<1>10. CASE (RollbackQuiesce(p) \/ RollbackRestore(p) \/ RollbackStart(p) \/ RollbackProve(p) \/ MarkProven(p) \/ RollbackWithdraw(p)) /\ ~End(p)
  <2>1. CASE RollbackQuiesce(p)
    <3>1. UNCHANGED lock /\ job[p].pc \in Inside /\ job'[p].pc \in Inside
      BY <1>1, <1>2, <1>10, <2>1 DEF RollbackQuiesce, At, Inside, Outer, PCs
    <3> QED  BY <1>1, <3>1, StaysLocked DEF Inside
  <2>2. CASE RollbackRestore(p)
    <3>1. UNCHANGED lock /\ job[p].pc \in Inside /\ job'[p].pc \in Inside
      BY <1>1, <1>2, <1>10, <2>2 DEF RollbackRestore, At, Inside, Outer, PCs
    <3> QED  BY <1>1, <3>1, StaysLocked DEF Inside
  <2>3. CASE RollbackStart(p)
    <3>1. UNCHANGED lock /\ job[p].pc \in Inside /\ job'[p].pc \in Inside
      BY <1>1, <1>2, <1>10, <2>3 DEF RollbackStart, At, Inside, Outer, PCs
    <3> QED  BY <1>1, <3>1, StaysLocked DEF Inside
  <2>4. CASE RollbackProve(p)
    <3>1. UNCHANGED lock /\ job[p].pc \in Inside /\ job'[p].pc \in Inside
      BY <1>1, <1>2, <1>10, <2>4 DEF RollbackProve, At, Inside, Outer, PCs
    <3> QED  BY <1>1, <3>1, StaysLocked DEF Inside
  <2>5. CASE MarkProven(p)
    <3>1. UNCHANGED lock /\ job[p].pc \in Inside /\ job'[p].pc \in Inside
      BY <1>1, <1>2, <1>10, <2>5 DEF MarkProven, At, Inside, Outer, PCs
    <3> QED  BY <1>1, <3>1, StaysLocked DEF Inside
  <2>6. CASE RollbackWithdraw(p)
    <3>1. UNCHANGED lock /\ job[p].pc \in Inside /\ job'[p].pc \in Inside
      BY <1>1, <1>2, <1>10, <2>6 DEF RollbackWithdraw, At, Inside, Outer, PCs
    <3> QED  BY <1>1, <3>1, StaysLocked DEF Inside
  <2> QED  BY <1>10, <2>1, <2>2, <2>3, <2>4, <2>5, <2>6
<1>11. CASE (Associate(p) \/ Withdraw(p) \/ PersistAdopted(p) \/ RecheckScene(p)) /\ ~End(p)
  <2>1. CASE Associate(p)
    <3>1. UNCHANGED lock /\ job[p].pc \in Inside /\ job'[p].pc \in Inside
      BY <1>1, <1>2, <1>11, <2>1 DEF Associate, At, JobOK, Jobs, Inside, Outer, PCs
    <3> QED  BY <1>1, <3>1, StaysLocked DEF Inside
  <2>2. CASE Withdraw(p)
    <3>1. UNCHANGED lock /\ job[p].pc \in Inside /\ job'[p].pc \in Inside
      BY <1>1, <1>2, <1>11, <2>2 DEF Withdraw, At, Inside, Outer, PCs
    <3> QED  BY <1>1, <3>1, StaysLocked DEF Inside
  <2>3. CASE PersistAdopted(p)
    <3>1. job'[p].pc = "recheck" /\ UNCHANGED lock
      BY <1>1, <1>11, <2>3 DEF PersistAdopted, JobOK, Jobs
    <3>2. job[p].pc = "persist"
      BY <2>3 DEF PersistAdopted, At
    <3> QED  BY <1>1, <3>1, <3>2, StaysLocked DEF Inside, Outer, PCs
  <2>4. CASE RecheckScene(p)
    <3>1. UNCHANGED lock /\ job[p].pc \in Inside /\ job'[p].pc \in Inside
      BY <1>1, <1>2, <1>11, <2>4 DEF RecheckScene, At, Inside, Outer, PCs
    <3> QED  BY <1>1, <3>1, StaysLocked DEF Inside
  <2> QED  BY <1>11, <2>1, <2>2, <2>3, <2>4
<1>12. CASE DirectWriteCore(p)
  BY <1>1, <1>12, StaysLocked DEF DirectWriteCore, JobOK, Goto, Inside, Outer, PCs, At
<1>13. CASE (StartImpossible(p) \/ StepFails(p)) /\ ~End(p)
  <2>1. UNCHANGED lock /\ job[p].pc \in Inside /\ job'[p].pc \in Inside
    BY <1>1, <1>2, <1>13 DEF StartImpossible, StepFails, Inside, Outer, PCs, At
  <2> QED  BY <1>1, <2>1, StaysLocked
<1>14. CASE Busy(p) \/ ReadCommitted(p) \/ Retire(p) \/ RollbackConsume(p) \/ FinishWithdrawn(p)
              \/ Revoke(p) \/ CommitAdopted(p) \/ DirectWriteDaemon(p) \/ Crash(p)
  <2>1. End(p)
    BY <1>14 DEF Busy, ReadCommitted, Retire, RollbackConsume, FinishWithdrawn, Revoke, CommitAdopted,
                 DirectWriteDaemon, Crash
  <2> QED  BY <2>1, EndUnlocks
<1> QED  BY <1>3, <1>4, <1>5, <1>6, <1>7, <1>8, <1>9, <1>10, <1>11, <1>12, <1>13, <1>14 DEF Acts, Step

\* Only one process is inside.
LEMMA Alone ==
  ASSUME Inv, NEW p \in Procs, NEW q \in Procs, job[p].pc \in Inside, job[q].pc \in Inside
  PROVE  p = q
BY DEF Inv, Locking

-----------------------------------------------------------------------------
(* What a process knows, when others step.                                 *)

LEMMA OthersWork ==
  ASSUME Inv, NEW p \in Procs, Moved(p), job[p].pc \in Inside, Works(job[p])'
  PROVE  Working'
<1>1. ASSUME NEW q \in Procs, q # p
      PROVE  Works(job[q])'
  <2>1. job[q].pc \in Outer /\ job'[q] = job[q]
    BY <1>1, Alone DEF Inside, Moved, Inv, TypeOK, Jobs
  <2>2. Works(job[q])
    BY DEF Inv, Working
  <2> QED  BY <2>1, <2>2 DEF Works, Outer, Staging, Applies
<1> QED  BY <1>1 DEF Working

LEMMA SameWork ==
  ASSUME Inv, NEW p \in Procs, Moved(p), UNCHANGED storeVars, Works(job[p])'
  PROVE  Working'
<1>1. ASSUME NEW q \in Procs, q # p
      PROVE  Works(job[q])'
  <2>1. job'[q] = job[q]
    BY <1>1 DEF Moved
  <2>2. Works(job[q])
    BY DEF Inv, Working
  <2> QED  BY <2>1, <2>2 DEF Works, storeVars, New, Named, Trusted, Valid, HasManifest, Recovery
<1> QED  BY <1>1 DEF Working

\* A command that has ended, or has not entered, needs to know nothing.
LEMMA OuterWorks ==
  ASSUME NEW j, j.pc \in Outer \ {"direct_core", "direct_daemon"}
  PROVE  Works(j)
BY DEF Works, Outer, Staging, Applies

\* A new directory is named by nothing.
LEMMA Grows ==
  ASSUME TypeOKStore, Fresh, Sound, nextId <= MaxGens, NEW d \in Generations,
         gens' = [gens EXCEPT ![nextId] = d], nextId' = nextId + 1, UNCHANGED slots
  PROVE  /\ TypeOKStore' /\ Fresh' /\ Sound' /\ Named' = Named
         /\ nextId \in Ids \ Named /\ gens[nextId] = NoDir /\ gens'[nextId] = d
         /\ \A g \in Ids \ {nextId} : gens'[g] = gens[g]
<1>1. nextId \in Ids /\ nextId \in Nat /\ MaxGens \in Nat
  BY IdFacts DEF TypeOKStore, Ids
<1>2. gens[nextId] = NoDir
  BY <1>1 DEF Fresh
<1>3. nextId \notin Named
  BY <1>1, <1>2 DEF Sound, BaselineKept
<1>4. gens'[nextId] = d /\ \A g \in Ids \ {nextId} : gens'[g] = gens[g]
  BY <1>1 DEF TypeOKStore
<1>5. TypeOKStore'
  <2>1. gens' \in [Ids -> Generations \cup {NoDir}]
    BY <1>1 DEF TypeOKStore
  <2>2. nextId' \in 1 .. MaxGens + 1
    BY <1>1 DEF TypeOKStore
  <2> QED  BY <2>1, <2>2 DEF TypeOKStore
<1>6. Fresh'
  <2> SUFFICES ASSUME NEW g \in Ids, g >= nextId'
               PROVE  gens'[g] = NoDir
    BY DEF Fresh
  <2>1. g \in Nat /\ g # nextId /\ g >= nextId
    BY <1>1, IdFacts
  <2> QED  BY <1>4, <2>1 DEF Fresh
<1>7. Named' = Named
  BY DEF Named
<1>8. ASSUME NEW g \in {slots.active, slots.pending, slots.previous}
      PROVE  /\ g \in Ids => gens'[g] = gens[g]
             /\ Trusted(g)' <=> Trusted(g)
             /\ Valid(g)' <=> Valid(g)
  <2>1. g \in Ids => g # nextId
    BY <1>3, IdFacts DEF Named
  <2> QED  BY <1>4, <2>1 DEF Trusted, Valid, HasManifest
<1>9. Sound'
  <2>1. \A g \in Named : gens'[g] # NoDir
    BY <1>3, <1>4 DEF Sound, BaselineKept, Named, TypeOKStore, Slots
  <2>2. Trusted(slots.pending)' => Valid(slots.previous)' /\ gens'[slots.pending].bound = slots.previous
    BY <1>8 DEF Sound, BaselineKept, Trusted
  <2>3. \A g \in {slots.active, slots.previous} : Trusted(g)' => Valid(g)'
    BY <1>8 DEF Sound, BaselineKept
  <2> QED  BY <1>7, <2>1, <2>2, <2>3 DEF Sound, BaselineKept
<1> QED  BY <1>1, <1>2, <1>3, <1>4, <1>5, <1>6, <1>7, <1>9

\* A directory is changed that no slot names, or the pending one gets a mark.
LEMMA Marks ==
  ASSUME TypeOKStore, Fresh, Sound, NEW g \in Ids, gens[g] # NoDir, NEW d \in Generations,
         gens' = [gens EXCEPT ![g] = d], UNCHANGED <<slots, nextId>>,
         g \in Named => g = slots.pending /\ d.trusted = gens[g].trusted /\ d.bound = gens[g].bound
  PROVE  /\ TypeOKStore' /\ Fresh' /\ Sound' /\ Named' = Named
         /\ gens'[g] = d /\ \A h \in Ids \ {g} : gens'[h] = gens[h]
<1>1. NoDir \notin Generations
  BY UpgradeAssumption
<1>2. gens'[g] = d /\ \A h \in Ids \ {g} : gens'[h] = gens[h]
  BY DEF TypeOKStore
<1>3. TypeOKStore'
  BY DEF TypeOKStore
<1>4. Fresh'
  BY <1>2 DEF Fresh
<1>5. Named' = Named
  BY DEF Named
<1>6. ASSUME NEW h \in {slots.active, slots.previous}
      PROVE  (Trusted(h)' <=> Trusted(h)) /\ (Valid(h)' <=> Valid(h))
  <2>1. h \in Ids => h # g
    BY IdFacts DEF Sound, Named
  <2> QED  BY <1>2, <2>1 DEF Trusted, Valid, HasManifest
<1>7. Sound'
  <2>1. \A h \in Named : gens'[h] # NoDir
    BY <1>1, <1>2 DEF Sound, BaselineKept, Named, TypeOKStore, Slots
  <2>2. Trusted(slots.pending)' => Trusted(slots.pending) /\ gens'[slots.pending].bound = gens[slots.pending].bound
    BY <1>1, <1>2, IdFacts DEF Trusted, Named
  <2>3. Trusted(slots.pending)' => Valid(slots.previous)' /\ gens'[slots.pending].bound = slots.previous
    BY <1>6, <2>2 DEF Sound, BaselineKept
  <2>4. \A h \in {slots.active, slots.previous} : Trusted(h)' => Valid(h)'
    BY <1>6 DEF Sound, BaselineKept
  <2> QED  BY <1>5, <2>1, <2>3, <2>4 DEF Sound, BaselineKept
<1> QED  BY <1>2, <1>3, <1>4, <1>5, <1>7

-----------------------------------------------------------------------------
(* The store, step by step.                                                *)

Good(p) == TypeOKStore' /\ Fresh' /\ Sound' /\ Works(job[p])'

LEMMA SameStore ==
  ASSUME Inv, UNCHANGED storeVars
  PROVE  TypeOKStore' /\ Fresh' /\ Sound'
BY DEF Inv, TypeOK, TypeOKStore, Fresh, Sound, BaselineKept, storeVars, Named, Trusted, Valid, HasManifest

LEMMA EndGood ==
  ASSUME Inv, NEW p \in Procs, End(p), TypeOKStore' /\ Fresh' /\ Sound'
  PROVE  Good(p)
<1>1. job'[p].pc = "idle"
  BY EndTyped, IdleTyped DEF Inv, TypeOK, JobOK
<1>2. job'[p].pc \in Outer \ {"direct_core", "direct_daemon"}
  BY <1>1 DEF Outer
<1>3. Works(job'[p])
  BY <1>2, OuterWorks
<1> QED  BY <1>2 DEF Good, Works, Outer, Staging, Applies

LEMMA AdmitGood ==
  ASSUME Inv, NEW p \in Procs, Admit(p)
  PROVE  Good(p)
<1>1. /\ TypeOKStore /\ Fresh /\ Sound /\ JobOK /\ job[p] \in Jobs /\ installed \in Scenes
      /\ nextId \in Nat /\ MaxGens \in Nat /\ NoGen \notin Ids
  BY IdFacts DEF Inv, TypeOK, JobOK, TypeOKStore
<1>2. CASE End(p)
  <2>1. UNCHANGED slots
    BY DEF Admit
  <2>2. CASE UNCHANGED <<gens, nextId>>
    BY <1>2, <2>1, <2>2, EndGood, SameStore DEF storeVars
  <2>3. CASE ~UNCHANGED <<gens, nextId>>
    <3>1. job'[p].pc = "capture"
      BY <1>1, <2>3 DEF Admit, JobOK, Jobs
    <3> QED  BY <1>1, <1>2, <3>1, EndTyped, IdleTyped
  <2> QED  BY <2>2, <2>3
<1>3. ASSUME ~End(p)
      PROVE  Admitted /\ slots.pending = NoGen /\ ~(nextId + 1 > MaxGens) /\ UNCHANGED slots
  BY <1>3, Zenon DEF Admit
<1>4. CASE ~End(p) /\ Recovery
  <2>1. /\ Trusted(slots.previous) /\ Valid(slots.previous) /\ UNCHANGED <<gens, nextId>>
        /\ job' = [job EXCEPT ![p].pc = "write", ![p].base = slots.previous]
    BY <1>4, <1>3 DEF Admit
  <2>2. job'[p].pc = "write" /\ job'[p].base = slots.previous
    BY <1>1, <2>1 DEF JobOK, Jobs
  <2>3. UNCHANGED storeVars
    BY <1>3, <1>4, <2>1 DEF storeVars
  <2>4. nextId <= MaxGens
    BY <1>1, <1>3, <1>4
  <2>5. Works(job[p])'
    BY <1>3, <1>4, <2>1, <2>2, <2>3, <2>4
       DEF Works, Staging, Applies, storeVars, Recovery, Trusted, Valid, HasManifest
  <2> QED  BY <2>3, <2>5, SameStore DEF Good
<1>5. CASE ~End(p) /\ ~Recovery
  <2> DEFINE d == [Baseline(installed, FALSE) EXCEPT !.sealed = FALSE]
  <2>1. /\ gens' = [gens EXCEPT ![nextId] = d] /\ nextId' = nextId + 1
        /\ job' = [job EXCEPT ![p].pc = "capture", ![p].base = nextId]
    BY <1>3, <1>5 DEF Admit
  <2>2. d \in Generations /\ d.trusted /\ ~d.tomb
    BY <1>1, BaselineTyped DEF Baseline, Generations
  <2> HIDE DEF d
  <2>3. nextId <= MaxGens
    BY <1>1, <1>3, <1>5
  <2>4. /\ TypeOKStore' /\ Fresh' /\ Sound' /\ Named' = Named
        /\ nextId \in Ids \ Named /\ gens'[nextId] = d
    BY <1>1, <1>3, <1>5, <2>1, <2>2, <2>3, Grows
  <2>5. job'[p].pc = "capture" /\ job'[p].base = nextId
    BY <1>1, <2>1 DEF JobOK, Jobs
  <2>6. New(job[p].base)'
    BY <2>2, <2>4, <2>5, UpgradeAssumption DEF New, Trusted
  <2>7. ~Recovery' /\ slots'.pending = NoGen
    BY <1>3, <1>5 DEF Recovery
  <2>8. nextId' <= MaxGens
    BY <1>1, <1>3, <1>5, <2>1
  <2>9. Works(job[p])'
    BY <2>5, <2>6, <2>7, <2>8 DEF Works, Staging, Applies
  <2> QED  BY <2>4, <2>9 DEF Good
<1> QED  BY <1>2, <1>4, <1>5

\* While it is being captured the baseline is a new directory.
LEMMA CaptureGood ==
  ASSUME Inv, NEW p \in Procs, CaptureCore(p) \/ SealBaseline(p)
  PROVE  Good(p)
<1> DEFINE b == job[p].base
<1>1. /\ TypeOKStore /\ Fresh /\ Sound /\ JobOK /\ job[p] \in Jobs /\ installed \in Scenes
      /\ NoGen \notin Ids
  BY IdFacts DEF Inv, TypeOK, JobOK, TypeOKStore
<1>2. job[p].pc \in {"capture", "seal"}
  BY DEF CaptureCore, SealBaseline, At
<1>3. New(b) /\ ~Recovery /\ slots.pending = NoGen /\ nextId <= MaxGens
  BY <1>2 DEF Inv, Working, Works, Staging
<1>4. b \in Ids /\ gens[b] \in Generations /\ gens[b] # NoDir /\ b \notin Named
      /\ gens[b].trusted /\ ~gens[b].tomb
  BY <1>1, <1>3 DEF New, Trusted, TypeOKStore
<1>5. \E d \in Generations :
        /\ gens' = [gens EXCEPT ![b] = d]
        /\ d.trusted = gens[b].trusted /\ d.bound = gens[b].bound /\ d.tomb = gens[b].tomb
        /\ SealBaseline(p) => d.sealed
  <2>1. CASE CaptureCore(p)
    <3> DEFINE c == installed["core"]
               a == [gens[b].art EXCEPT !["core"] = c]
    <3>1. a \in Scenes
      <4>1. gens[b].art \in Scenes /\ c \in Revs \cup {Missing}
        BY <1>1, <1>4, FileTyped DEF Generations
      <4> HIDE DEF c
      <4> QED  BY <4>1 DEF Scenes
    <3>2. gens' = [gens EXCEPT ![b] = [gens[b] EXCEPT !.art = a]]
      BY <1>1, <1>4, <2>1 DEF CaptureCore, TypeOKStore
    <3> HIDE DEF a
    <3>3. [gens[b] EXCEPT !.art = a] \in Generations
      BY <1>4, <3>1 DEF Generations
    <3>4. ~SealBaseline(p)
      BY <2>1 DEF CaptureCore, SealBaseline, At
    <3> QED  BY <1>4, <3>2, <3>3, <3>4 DEF Generations
  <2>2. CASE SealBaseline(p)
    <3>1. gens' = [gens EXCEPT ![b] = [gens[b] EXCEPT !.sealed = TRUE]]
      BY <1>1, <1>4, <2>2 DEF SealBaseline, TypeOKStore
    <3>2. [gens[b] EXCEPT !.sealed = TRUE] \in Generations
      BY <1>4 DEF Generations
    <3> QED  BY <1>4, <3>1, <3>2 DEF Generations
  <2> QED  BY <2>1, <2>2
<1>6. PICK d \in Generations :
        /\ gens' = [gens EXCEPT ![b] = d]
        /\ d.trusted = gens[b].trusted /\ d.bound = gens[b].bound /\ d.tomb = gens[b].tomb
        /\ SealBaseline(p) => d.sealed
  BY <1>5
<1>7. UNCHANGED <<slots, nextId>>
  BY DEF CaptureCore, SealBaseline
<1>8. TypeOKStore' /\ Fresh' /\ Sound' /\ Named' = Named /\ gens'[b] = d
  BY <1>1, <1>4, <1>6, <1>7, Marks
<1>9. job'[p].base = b /\ job'[p].pc = (IF SealBaseline(p) THEN "write" ELSE "seal")
  <2>1. CASE CaptureCore(p)
    BY <1>1, <2>1 DEF CaptureCore, SealBaseline, Goto, At, JobOK, Jobs
  <2>2. CASE SealBaseline(p)
    BY <1>1, <2>2 DEF SealBaseline, Goto, JobOK, Jobs
  <2> QED  BY <2>1, <2>2
<1>10. New(job[p].base)'
  BY <1>4, <1>6, <1>8, <1>9, UpgradeAssumption DEF New, Trusted
<1>11. SealBaseline(p) => Trusted(job[p].base)' /\ Valid(job[p].base)'
  BY <1>4, <1>6, <1>8, <1>9, UpgradeAssumption DEF Trusted, Valid, HasManifest
<1>12. ~Recovery' /\ slots'.pending = NoGen /\ nextId' <= MaxGens
  BY <1>3, <1>7 DEF Recovery
<1>13. Works(job[p])'
  BY <1>9, <1>10, <1>11, <1>12 DEF Works, Staging, Applies
<1> QED  BY <1>8, <1>13 DEF Good

LEMMA WriteCandidateGood ==
  ASSUME Inv, NEW p \in Procs, WriteCandidate(p)
  PROVE  Good(p)
<1> DEFINE b == job[p].base
           d == Candidate([daemon |-> job[p].exe, core |-> job[p].core], b)
<1>1. /\ TypeOKStore /\ Fresh /\ Sound /\ JobOK /\ job[p] \in Jobs
      /\ nextId \in Nat /\ MaxGens \in Nat /\ NoGen \notin Ids /\ Ids \subseteq Nat
  BY IdFacts DEF Inv, TypeOK, JobOK, TypeOKStore
<1>2. job[p].pc = "write"
  BY DEF WriteCandidate, At
<1>3. /\ slots.pending = NoGen /\ nextId <= MaxGens /\ Trusted(b) /\ Valid(b)
      /\ (Recovery => b = slots.previous) /\ (~Recovery => New(b))
  BY <1>2 DEF Inv, Working, Works, Staging
<1>4. b \in Ids /\ gens[b] # NoDir
  BY <1>3 DEF Trusted
<1>5. d \in Generations
  <2>1. job[p].exe \in Revs \cup {Missing} /\ job[p].core \in Revs \cup {Missing}
    BY <1>1 DEF Jobs
  <2>2. [daemon |-> job[p].exe, core |-> job[p].core] \in Scenes
    BY <2>1 DEF Scenes, Artifacts
  <2> QED  BY <1>4, <2>2, CandidateTyped
<1>6. d.trusted /\ d.sealed /\ ~d.tomb /\ d.bound = b
  BY DEF Candidate
<1>7. gens' = [gens EXCEPT ![nextId] = d] /\ nextId' = nextId + 1 /\ UNCHANGED slots
  BY DEF WriteCandidate
<1> HIDE DEF d
<1>8. /\ TypeOKStore' /\ Fresh' /\ Sound' /\ Named' = Named
      /\ nextId \in Ids \ Named /\ gens[nextId] = NoDir /\ gens'[nextId] = d
      /\ \A g \in Ids \ {nextId} : gens'[g] = gens[g]
  BY <1>1, <1>3, <1>5, <1>7, Grows
<1>9. job'[p].pc = "stage" /\ job'[p].cand = nextId /\ job'[p].base = b
  BY <1>1 DEF WriteCandidate, JobOK, Jobs
<1>10. b # nextId
  BY <1>4, <1>8
<1>11. Trusted(job[p].base)' /\ Valid(job[p].base)'
  BY <1>3, <1>4, <1>8, <1>9, <1>10 DEF Trusted, Valid, HasManifest
<1>12. (Recovery' => job'[p].base = slots'.previous) /\ (~Recovery' => New(job[p].base)')
  BY <1>3, <1>4, <1>7, <1>8, <1>9, <1>10 DEF Recovery, New, Trusted
<1>13. /\ New(job[p].cand)' /\ Valid(job[p].cand)'
       /\ gens'[job'[p].cand].bound = job'[p].base /\ job'[p].cand # job'[p].base
  BY <1>6, <1>5, <1>8, <1>9, <1>10, UpgradeAssumption DEF New, Trusted, Valid, HasManifest
<1>14. Works(job[p])'
  BY <1>3, <1>7, <1>9, <1>11, <1>12, <1>13 DEF Works, Staging, Applies
<1> QED  BY <1>8, <1>14 DEF Good

LEMMA StageGood ==
  ASSUME Inv, NEW p \in Procs, Stage(p)
  PROVE  Good(p)
<1> DEFINE b == job[p].base
           c == job[p].cand
<1>1. /\ TypeOKStore /\ Fresh /\ Sound /\ JobOK /\ job[p] \in Jobs /\ slots \in Slots
      /\ NoGen \notin Ids
  BY IdFacts DEF Inv, TypeOK, JobOK, TypeOKStore
<1>2. job[p].pc = "stage"
  BY DEF Stage, At
<1>3. /\ slots.pending = NoGen /\ Trusted(b) /\ Valid(b)
      /\ (Recovery => b = slots.previous) /\ (~Recovery => New(b))
      /\ New(c) /\ Valid(c) /\ gens[c].bound = b /\ c # b
  BY <1>2 DEF Inv, Working, Works, Staging
<1>4. b \in Ids /\ c \in Ids /\ c \notin Named /\ gens[c] # NoDir /\ gens[b] # NoDir
  BY <1>3 DEF Trusted, New
<1>5. slots' = [slots EXCEPT !.pending = c, !.previous = b] /\ UNCHANGED <<gens, nextId>>
  BY DEF Stage, StageSlots
<1>6. slots'.active = slots.active /\ slots'.pending = c /\ slots'.previous = b /\ slots' \in Slots
  BY <1>1, <1>4, <1>5 DEF Slots
<1>7. TypeOKStore' /\ Fresh'
  BY <1>1, <1>5, <1>6 DEF TypeOKStore, Fresh
<1>8. Sound'
  <2>1. \A g \in Named' : gens'[g] # NoDir
    BY <1>1, <1>4, <1>5, <1>6 DEF Named, Sound, BaselineKept
  <2>2. Trusted(slots.pending)' => Valid(slots.previous)' /\ gens'[slots'.pending].bound = slots'.previous
    BY <1>3, <1>5, <1>6 DEF Valid, HasManifest
  <2>3. \A g \in {slots'.active, slots'.previous} : (g \in Ids /\ gens'[g] # NoDir /\ gens'[g].trusted)
          => g \in Ids /\ gens'[g] # NoDir /\ gens'[g].sealed /\ ~gens'[g].tomb
    BY <1>1, <1>3, <1>5, <1>6 DEF Sound, BaselineKept, Trusted, Valid, HasManifest
  <2>4. slots'.pending \notin {slots'.active, slots'.previous}
    BY <1>1, <1>3, <1>4, <1>6 DEF Named
  <2> QED  BY <2>1, <2>2, <2>3, <2>4 DEF Sound, BaselineKept, Trusted, Valid, HasManifest
<1>9. job'[p].pc \in {"idle", "lock"}
  <2>1. CASE job[p].seen = NoScene
    BY <1>1, <2>1, EndTyped, IdleTyped DEF Stage
  <2>2. CASE job[p].seen # NoScene
    BY <1>1, <2>2 DEF Stage, JobOK, Idle
  <2> QED  BY <2>1, <2>2
<1>10. Works(job[p])'
  BY <1>9 DEF Works, Staging, Applies
<1> QED  BY <1>7, <1>8, <1>10 DEF Good

-----------------------------------------------------------------------------
\* The steps of the pipeline leave the store alone until its outcome is written.
LEMMA PipelineKeeps ==
  ASSUME Inv, NEW p \in Procs, job[p].pc \in Applies, UNCHANGED storeVars, JobOK',
         job'[p].pc \in Applies, job'[p].cand = job[p].cand, job'[p].base = job[p].base
  PROVE  Good(p)
<1>1. /\ job[p].cand = slots.pending /\ job[p].base = slots.previous
      /\ Trusted(job[p].cand) /\ Trusted(job[p].base)
  BY DEF Inv, Working, Works
<1>2. Works(job[p])'
  BY <1>1 DEF Works, Staging, Applies, storeVars, Trusted
<1> QED  BY <1>2, SameStore DEF Good

LEMMA ReadGood ==
  ASSUME Inv, NEW p \in Procs, ReadPending(p)
  PROVE  Good(p)
<1> DEFINE g == slots.pending
<1>1. JobOK /\ job[p] \in Jobs /\ slots \in Slots
  BY DEF Inv, TypeOK, JobOK, TypeOKStore
<1>2. slots.pending # NoGen /\ UNCHANGED storeVars
  BY DEF ReadPending
<1>3. CASE End(p)
  BY <1>2, <1>3, EndGood, SameStore
<1>4. CASE HasWithdrawn(g)
  <2>1. job'[p].pc = "finish"
    BY <1>1, <1>4 DEF ReadPending, Goto, JobOK, Jobs
  <2>2. slots'.pending \in Ids
    BY <1>1, <1>2 DEF Slots, storeVars
  <2>3. Works(job[p])'
    BY <2>1, <2>2 DEF Works, Staging, Applies
  <2> QED  BY <1>2, <2>3, SameStore DEF Good
<1>5. CASE ~HasWithdrawn(g) /\ ~End(p)
  <2>1. Applicable(p, g)
    BY <1>5 DEF ReadPending
  <2>2. /\ job'[p].pc \in {"start", "quiesce"} /\ job'[p].cand = slots.pending
        /\ job'[p].base = slots.previous
    BY <1>1, <1>5, <2>1 DEF ReadPending, JobOK, Jobs
  <2>3. Trusted(slots.pending) /\ Trusted(slots.previous)
    BY <2>1 DEF Applicable
  <2>4. Works(job[p])'
    BY <1>2, <2>2, <2>3 DEF Works, Staging, Applies, storeVars, Trusted
  <2> QED  BY <1>2, <2>4, SameStore DEF Good
<1> QED  BY <1>3, <1>4, <1>5

LEMMA PipelineGood ==
  ASSUME Inv, NEW p \in Procs,
         Quiesce(p) \/ Replace(p) \/ Start(p) \/ Prove(p) \/ RollbackQuiesce(p) \/ RollbackRestore(p)
           \/ RollbackStart(p) \/ RollbackProve(p) \/ StartImpossible(p) \/ StepFails(p)
  PROVE  Good(p)
<1>1. JobOK /\ job[p] \in Jobs /\ Moved(p)
  BY PlainMoves DEF Inv, TypeOK, JobOK, Step
<1>2. UNCHANGED storeVars
  BY DEF Quiesce, Replace, Start, Prove, RollbackQuiesce, RollbackRestore, RollbackStart,
         RollbackProve, StartImpossible, StepFails
<1>3. job[p].pc \in Applies
  BY DEF Quiesce, Replace, Start, Prove, RollbackQuiesce, RollbackRestore, RollbackStart,
         RollbackProve, StartImpossible, StepFails, At, Applies
<1>4. CASE End(p)
  BY <1>2, <1>4, EndGood, SameStore
<1>5. CASE \E l \in Applies : Goto(p, l)
  <2>1. PICK l \in Applies : Goto(p, l)
    BY <1>5
  <2>2. job'[p].pc = l /\ job'[p].cand = job[p].cand /\ job'[p].base = job[p].base
    BY <1>1, <2>1 DEF Goto, JobOK, Jobs
  <2> QED  BY <1>1, <1>2, <1>3, <2>2, PipelineKeeps DEF Moved
<1>6. CASE UNCHANGED job
  BY <1>1, <1>2, <1>3, <1>6, PipelineKeeps DEF Moved
<1>7. End(p) \/ (\E l \in Applies : Goto(p, l)) \/ UNCHANGED job
  BY DEF Quiesce, Replace, Start, Prove, RollbackQuiesce, RollbackRestore, RollbackStart,
         RollbackProve, StartImpossible, StepFails, Applies
<1> QED  BY <1>4, <1>5, <1>6, <1>7

\* The write of the slots that ends an upgrade: what it keeps is trusted.
LEMMA SlotsWritten ==
  ASSUME TypeOKStore, Fresh, Sound, UNCHANGED <<gens, nextId>>, slots' \in Slots,
         slots'.pending = NoGen,
         \A g \in {slots'.active, slots'.previous} \ {NoGen} : g \in Ids /\ gens[g] # NoDir /\ Valid(g)
  PROVE  TypeOKStore' /\ Fresh' /\ Sound'
<1>1. NoGen \notin Ids
  BY IdFacts
<1>2. TypeOKStore' /\ Fresh'
  BY DEF TypeOKStore, Fresh
<1>3. Sound'
  BY <1>1 DEF Sound, BaselineKept, Named, Trusted, Valid, HasManifest
<1> QED  BY <1>2, <1>3

LEMMA CommitGood ==
  ASSUME Inv, NEW p \in Procs, Commit(p)
  PROVE  Good(p)
<1>1. /\ TypeOKStore /\ Fresh /\ Sound /\ JobOK /\ job[p] \in Jobs /\ slots \in Slots
      /\ NoGen \notin Ids /\ UNCHANGED <<gens, nextId>>
  BY IdFacts DEF Inv, TypeOK, JobOK, TypeOKStore, Commit
<1>2. job[p].pc = "commit"
  BY DEF Commit, At
<1>3. /\ job[p].cand = slots.pending /\ job[p].base = slots.previous
      /\ Trusted(job[p].cand) /\ Trusted(job[p].base)
  BY <1>2 DEF Inv, Working, Works, Applies
<1>4. CASE slots.pending = job[p].cand /\ Valid(job[p].cand)
  <2>1. slots' = CommitSlots(job[p].base) /\ job'[p].pc = "retire"
    BY <1>1, <1>4 DEF Commit, Goto, JobOK, Jobs
  <2>2. /\ slots'.active = slots.pending /\ slots'.pending = NoGen /\ slots'.previous = slots.previous
        /\ slots' \in Slots
    BY <1>1, <1>3, <2>1 DEF CommitSlots, Slots
  <2>3. Valid(slots.previous) /\ slots.previous \in Ids /\ gens[slots.previous] # NoDir
    BY <1>1, <1>3 DEF Sound, BaselineKept, Trusted
  <2>4. TypeOKStore' /\ Fresh' /\ Sound'
    BY <1>1, <1>3, <1>4, <2>2, <2>3, SlotsWritten DEF Trusted
  <2>5. Works(job[p])'
    BY <2>1, <2>2 DEF Works, Staging, Applies
  <2> QED  BY <2>4, <2>5 DEF Good
<1>5. CASE ~(slots.pending = job[p].cand /\ Valid(job[p].cand))
  <2>1. End(p) /\ UNCHANGED storeVars
    BY <1>1, <1>5 DEF Commit, storeVars
  <2> QED  BY <2>1, EndGood, SameStore
<1> QED  BY <1>4, <1>5

LEMMA ConsumeGood ==
  ASSUME Inv, NEW p \in Procs, RollbackConsume(p) \/ Revoke(p)
  PROVE  Good(p)
<1>1. /\ TypeOKStore /\ Fresh /\ Sound /\ JobOK /\ job[p] \in Jobs /\ slots \in Slots
      /\ NoGen \notin Ids /\ UNCHANGED <<gens, nextId>> /\ End(p)
  BY IdFacts DEF Inv, TypeOK, JobOK, TypeOKStore, RollbackConsume, Revoke
<1>2. job[p].pc \in {"rb_consume", "revoke"}
  BY DEF RollbackConsume, Revoke, At
<1>3. job[p].base = slots.previous /\ Trusted(job[p].base)
  BY <1>2 DEF Inv, Working, Works, Applies
<1>4. slots' = CompensateSlots(job[p].base) \/ slots' = RevokeSlots(job[p].base)
  BY DEF RollbackConsume, Revoke
<1>5. Valid(slots.previous) /\ slots.previous \in Ids /\ gens[slots.previous] # NoDir
  BY <1>1, <1>3 DEF Sound, BaselineKept, Trusted
<1>6. /\ slots' \in Slots /\ slots'.pending = NoGen
      /\ {slots'.active, slots'.previous} \subseteq {slots.previous, NoGen}
  BY <1>1, <1>3, <1>4, <1>5 DEF CompensateSlots, RevokeSlots, Slots
<1>7. TypeOKStore' /\ Fresh' /\ Sound'
  BY <1>1, <1>5, <1>6, SlotsWritten
<1> QED  BY <1>1, <1>7, EndGood

LEMMA FinishGood ==
  ASSUME Inv, NEW p \in Procs, FinishWithdrawn(p)
  PROVE  Good(p)
<1>1. /\ TypeOKStore /\ Fresh /\ Sound /\ slots \in Slots
      /\ NoGen \notin Ids /\ UNCHANGED <<gens, nextId>> /\ End(p)
  BY IdFacts DEF Inv, TypeOK, TypeOKStore, FinishWithdrawn
<1>2. CASE FinishRefused(slots.pending)
  BY <1>1, <1>2, EndGood, SameStore DEF FinishWithdrawn, storeVars
<1>3. CASE ~FinishRefused(slots.pending)
  <2>1. Trusted(slots.previous)
    BY <1>3 DEF FinishRefused
  <2>2. slots' = CompensateSlots(slots.previous) \/ slots' = RevokeSlots(slots.previous)
    BY <1>3 DEF FinishWithdrawn
  <2>3. Valid(slots.previous) /\ slots.previous \in Ids /\ gens[slots.previous] # NoDir
    BY <1>1, <2>1 DEF Sound, BaselineKept, Trusted
  <2>4. /\ slots' \in Slots /\ slots'.pending = NoGen
        /\ {slots'.active, slots'.previous} \subseteq {slots.previous, NoGen}
    BY <1>1, <2>2, <2>3 DEF CompensateSlots, RevokeSlots, Slots
  <2>5. TypeOKStore' /\ Fresh' /\ Sound'
    BY <1>1, <2>3, <2>4, SlotsWritten
  <2> QED  BY <1>1, <2>5, EndGood
<1> QED  BY <1>2, <1>3

\* The pending generation gets its mark, and is pending still.
LEMMA MarkGood ==
  ASSUME Inv, NEW p \in Procs, MarkProven(p) \/ RollbackWithdraw(p) \/ Withdraw(p)
  PROVE  Good(p)
<1> DEFINE c == job[p].cand
<1>1. /\ TypeOKStore /\ Fresh /\ Sound /\ JobOK /\ job[p] \in Jobs /\ NoGen \notin Ids
      /\ UNCHANGED <<slots, nextId>>
  BY IdFacts DEF Inv, TypeOK, JobOK, TypeOKStore, MarkProven, RollbackWithdraw, Withdraw
<1>2. job[p].pc \in {"rb_mark", "rb_withdraw", "withdraw"}
  BY DEF MarkProven, RollbackWithdraw, Withdraw, At
<1>3. /\ c = slots.pending /\ job[p].base = slots.previous /\ Trusted(c) /\ Trusted(job[p].base)
  BY <1>2 DEF Inv, Working, Works, Applies
<1>4. c \in Ids /\ gens[c] \in Generations /\ gens[c] # NoDir
  BY <1>1, <1>3 DEF Trusted, TypeOKStore
<1>5. \E d \in Generations :
        gens' = [gens EXCEPT ![c] = d] /\ d.trusted = gens[c].trusted /\ d.bound = gens[c].bound
  <2>1. CASE MarkProven(p)
    <3>1. gens' = [gens EXCEPT ![c] = [gens[c] EXCEPT !.proven = TRUE]]
      BY <1>1, <1>4, <2>1 DEF MarkProven, TypeOKStore
    <3>2. [gens[c] EXCEPT !.proven = TRUE] \in Generations
      BY <1>4 DEF Generations
    <3> QED  BY <1>4, <3>1, <3>2 DEF Generations
  <2>2. CASE RollbackWithdraw(p) \/ Withdraw(p)
    <3>1. gens' = [gens EXCEPT ![c] = [gens[c] EXCEPT !.tomb = TRUE]]
      BY <1>1, <1>4, <2>2 DEF RollbackWithdraw, Withdraw, TypeOKStore
    <3>2. [gens[c] EXCEPT !.tomb = TRUE] \in Generations
      BY <1>4 DEF Generations
    <3> QED  BY <1>4, <3>1, <3>2 DEF Generations
  <2> QED  BY <2>1, <2>2
<1>6. PICK d \in Generations :
        gens' = [gens EXCEPT ![c] = d] /\ d.trusted = gens[c].trusted /\ d.bound = gens[c].bound
  BY <1>5
<1>7. /\ TypeOKStore' /\ Fresh' /\ Sound' /\ gens'[c] = d
      /\ \A h \in Ids \ {c} : gens'[h] = gens[h]
  BY <1>1, <1>3, <1>4, <1>6, Marks
<1>8. job'[p].cand = c /\ job'[p].base = job[p].base /\ job'[p].pc \in Applies
  <2>1. CASE MarkProven(p)
    BY <1>1, <2>1 DEF MarkProven, Goto, JobOK, Jobs, Applies
  <2>2. CASE RollbackWithdraw(p)
    BY <1>1, <2>2 DEF RollbackWithdraw, Goto, JobOK, Jobs, Applies
  <2>3. CASE Withdraw(p)
    BY <1>1, <2>3 DEF Withdraw, Goto, JobOK, Jobs, Applies
  <2> QED  BY <2>1, <2>2, <2>3
<1>9. Trusted(job[p].cand)' /\ Trusted(job[p].base)'
  <2>1. d # NoDir /\ d.trusted
    BY <1>3, <1>6, UpgradeAssumption DEF Trusted
  <2>2. Trusted(job[p].cand)'
    BY <1>4, <1>7, <1>8, <2>1 DEF Trusted
  <2>3. job[p].base \in Ids /\ gens'[job[p].base] # NoDir /\ gens'[job[p].base].trusted
    BY <1>3, <1>7, <2>1 DEF Trusted
  <2>4. Trusted(job[p].base)'
    BY <1>8, <2>3 DEF Trusted
  <2> QED  BY <2>2, <2>4
<1>10. Works(job[p])'
  BY <1>1, <1>3, <1>8, <1>9 DEF Works, Staging, Applies
<1> QED  BY <1>7, <1>10 DEF Good

LEMMA AssociateGood ==
  ASSUME Inv, NEW p \in Procs, Associate(p)
  PROVE  Good(p)
<1> DEFINE g == slots.pending
<1>1. /\ TypeOKStore /\ Fresh /\ Sound /\ JobOK /\ job[p] \in Jobs /\ NoGen \notin Ids
      /\ UNCHANGED <<slots, nextId>> /\ slots \in Slots
  BY IdFacts DEF Inv, TypeOK, JobOK, TypeOKStore, Associate
<1>2. CASE End(p)
  <2>1. CASE UNCHANGED gens
    BY <1>1, <1>2, <2>1, EndGood, SameStore DEF storeVars
  <2>2. CASE ~UNCHANGED gens
    <3>1. job'[p].pc = "withdraw"
      BY <1>1, <2>2 DEF Associate, JobOK, Jobs
    <3> QED  BY <1>1, <1>2, <3>1, EndTyped, IdleTyped
  <2> QED  BY <2>1, <2>2
<1>3. CASE ~End(p)
  <2>1. /\ g # NoGen /\ gens[g] # NoDir /\ gens[g].trusted
        /\ Trusted(slots.previous)
        /\ gens' = [gens EXCEPT ![g].assoc = slots.previous]
        /\ job' = [job EXCEPT ![p].pc = "withdraw", ![p].cand = g, ![p].base = slots.previous]
    BY <1>3 DEF Associate
  <2>2. g \in Ids /\ gens[g] \in Generations /\ slots.previous \in Ids
    BY <1>1, <2>1 DEF Slots, TypeOKStore, Trusted
  <2>3. gens' = [gens EXCEPT ![g] = [gens[g] EXCEPT !.assoc = slots.previous]]
    BY <1>1, <2>1, <2>2 DEF TypeOKStore
  <2> DEFINE d == [gens[g] EXCEPT !.assoc = slots.previous]
  <2>4. d \in Generations /\ d.trusted = gens[g].trusted /\ d.bound = gens[g].bound
    BY <2>2 DEF Generations
  <2> HIDE DEF d
  <2>5. gens' = [gens EXCEPT ![g] = d]
    BY <2>3 DEF d
  <2>6. /\ TypeOKStore' /\ Fresh' /\ Sound' /\ gens'[g] = d
        /\ \A h \in Ids \ {g} : gens'[h] = gens[h]
    BY <1>1, <2>1, <2>2, <2>4, <2>5, Marks
  <2>7. job'[p].pc = "withdraw" /\ job'[p].cand = g /\ job'[p].base = slots.previous
    BY <1>1, <2>1 DEF JobOK, Jobs
  <2>8. Trusted(job[p].cand)' /\ Trusted(job[p].base)'
    BY <2>1, <2>2, <2>4, <2>6, <2>7, UpgradeAssumption DEF Trusted
  <2>9. Works(job[p])'
    BY <1>1, <2>7, <2>8 DEF Works, Staging, Applies
  <2> QED  BY <2>6, <2>9 DEF Good
<1> QED  BY <1>2, <1>3

\* What is collected or retired is named by no slot.
LEMMA RetireGood ==
  ASSUME Inv, NEW p \in Procs, Retire(p)
  PROVE  Good(p)
<1>1. /\ TypeOKStore /\ Fresh /\ Sound /\ End(p) /\ NoGen \notin Ids
      /\ UNCHANGED <<slots, nextId>> /\ slots \in Slots
  BY IdFacts DEF Inv, TypeOK, TypeOKStore, Retire
<1>2. slots.pending = NoGen
  BY DEF Retire, At, Inv, Working, Works
<1>3. \A g \in Ids : gens'[g] = NoDir \/ gens'[g] = gens[g]
  BY DEF Retire
<1>4. ASSUME NEW g \in Named
      PROVE  g \in Ids /\ gens'[g] = gens[g]
  <2>1. g \in {slots.active, slots.previous} /\ g \in Ids
    BY <1>1, <1>2 DEF Named, Slots
  <2>2. g \notin Collected
    BY DEF Collected, Unreferenced
  <2>3. g \notin Retired(job[p].exe)
    BY <1>1, <2>1 DEF Retired, HasWithdrawn, Sound, BaselineKept, Trusted, Valid
  <2> QED  BY <2>1, <2>2, <2>3 DEF Retire
<1>5. TypeOKStore'
  <2>1. gens' \in [Ids -> Generations \cup {NoDir}]
    BY <1>1 DEF Retire, TypeOKStore
  <2> QED  BY <1>1, <2>1 DEF TypeOKStore
<1>6. Fresh'
  BY <1>1, <1>3 DEF Fresh
<1>7. Sound'
  <2>1. \A g \in Named' : gens'[g] # NoDir
    BY <1>1, <1>4 DEF Named, Sound, BaselineKept
  <2>2. \A g \in {slots.active, slots.previous} : g \in Ids =>
          (Trusted(g)' <=> Trusted(g)) /\ (Valid(g)' <=> Valid(g))
    BY <1>1, <1>4 DEF Named, Trusted, Valid, HasManifest
  <2>3. \A g \in {slots.active, slots.previous} : Trusted(g)' => Valid(g)'
    BY <1>1, <2>2 DEF Sound, BaselineKept, Trusted
  <2> QED  BY <1>1, <1>2, <2>1, <2>3 DEF Sound, BaselineKept, Trusted
<1> QED  BY <1>1, <1>5, <1>6, <1>7, EndGood

LEMMA AdoptionGood ==
  ASSUME Inv, NEW p \in Procs, PersistAdopted(p) \/ RecheckScene(p) \/ CommitAdopted(p)
  PROVE  Good(p)
<1> DEFINE b == job[p].base
<1>1. /\ TypeOKStore /\ Fresh /\ Sound /\ JobOK /\ job[p] \in Jobs /\ NoGen \notin Ids /\ slots \in Slots
      /\ installed \in Scenes /\ nextId \in Nat /\ MaxGens \in Nat
  BY IdFacts DEF Inv, TypeOK, JobOK, TypeOKStore
<1>2. CASE End(p) /\ UNCHANGED storeVars
  BY <1>2, EndGood, SameStore
<1>3. CASE PersistAdopted(p) /\ ~(End(p) /\ UNCHANGED storeVars)
  <2> DEFINE d == Baseline(job[p].seen.art, TRUE)
  <2>1. /\ Adoptable /\ Scene = job[p].seen /\ nextId <= MaxGens /\ UNCHANGED slots
        /\ gens' = [gens EXCEPT ![nextId] = d] /\ nextId' = nextId + 1
        /\ job' = [job EXCEPT ![p].pc = "recheck", ![p].base = nextId]
    BY <1>3 DEF PersistAdopted, storeVars
  <2>2. job[p].seen = [slots |-> slots, art |-> installed]
    BY <2>1 DEF Scene
  <2>3. job[p].seen \in [slots: Slots, art: Scenes]
    BY <1>1, <2>2
  <2>4. /\ d \in Generations /\ d.trusted /\ d.sealed /\ ~d.tomb /\ d.art = job[p].seen.art
    BY <2>3, BaselineTyped DEF Baseline
  <2> HIDE DEF d
  <2>5. /\ TypeOKStore' /\ Fresh' /\ Sound' /\ Named' = Named
        /\ nextId \in Ids \ Named /\ gens'[nextId] = d
        /\ \A g \in Ids \ {nextId} : gens'[g] = gens[g]
    BY <1>1, <2>1, <2>4, Grows
  <2>6. job'[p].pc = "recheck" /\ job'[p].base = nextId /\ job'[p].seen = job[p].seen
    BY <1>1, <2>1 DEF JobOK, Jobs
  <2>7. New(job[p].base)' /\ Valid(job[p].base)' /\ gens'[job'[p].base].art = job'[p].seen.art
    BY <2>4, <2>5, <2>6, UpgradeAssumption DEF New, Trusted, Valid, HasManifest
  <2>8. \A g \in Named' : ~(g \in Ids /\ gens'[g] # NoDir /\ gens'[g].trusted)
    BY <2>1, <2>5 DEF Adoptable, Trusted
  <2>9. Works(job[p])'
    BY <2>3, <2>6, <2>7, <2>8 DEF Works, Staging, Applies, Trusted
  <2> QED  BY <2>5, <2>9 DEF Good
<1>4. CASE RecheckScene(p) /\ ~(End(p) /\ UNCHANGED storeVars)
  <2>1. UNCHANGED storeVars /\ Scene = job[p].seen /\ Goto(p, "adopted") /\ job[p].pc = "recheck"
    BY <1>4 DEF RecheckScene, At
  <2>2. /\ job'[p].pc = "adopted" /\ job'[p].base = b /\ job'[p].seen = job[p].seen
    BY <1>1, <2>1 DEF Goto, JobOK, Jobs
  <2>3. /\ New(b) /\ Valid(b)
        /\ job[p].seen \in [slots: Slots, art: Scenes] /\ gens[b].art = job[p].seen.art
        /\ \A g \in Named : ~Trusted(g)
    BY <2>1 DEF Inv, Working, Works
  <2>4. job[p].seen.slots = slots
    BY <2>1 DEF Scene
  <2>5. Works(job[p])'
    BY <2>1, <2>2, <2>3, <2>4 DEF Works, Staging, Applies, storeVars, New, Named, Trusted, Valid, HasManifest
  <2> QED  BY <2>1, <2>5, SameStore DEF Good
<1>5. CASE CommitAdopted(p)
  <2>1. job[p].pc = "adopted" /\ End(p) /\ UNCHANGED <<gens, nextId>> /\ slots' = RevokeSlots(b)
    BY <1>5 DEF CommitAdopted, At
  <2>2. New(b) /\ Valid(b)
    BY <2>1 DEF Inv, Working, Works
  <2>3. b \in Ids /\ gens[b] # NoDir
    BY <2>2 DEF New, Trusted
  <2>4. slots' \in Slots /\ slots'.pending = NoGen /\ {slots'.active, slots'.previous} \subseteq {b, NoGen}
    BY <2>1, <2>3 DEF RevokeSlots, Slots
  <2>5. TypeOKStore' /\ Fresh' /\ Sound'
    BY <1>1, <2>1, <2>2, <2>3, <2>4, SlotsWritten
  <2> QED  BY <2>1, <2>5, EndGood
<1> QED  BY <1>2, <1>3, <1>4, <1>5

LEMMA OuterGood ==
  ASSUME Inv, NEW p \in Procs,
         Invoke(p) \/ DirectInstall(p) \/ Upgrade(p) \/ CheckSkew(p) \/ Acquire(p) \/ Busy(p)
           \/ ReadCommitted(p) \/ ObserveScene(p) \/ DirectWriteCore(p) \/ DirectWriteDaemon(p) \/ Crash(p)
  PROVE  Good(p) /\ UNCHANGED storeVars
<1>1. JobOK /\ job[p] \in Jobs /\ Moved(p)
  BY ActsMove DEF Inv, TypeOK, JobOK, Acts, Step
<1>2. UNCHANGED storeVars
  BY DEF Invoke, DirectInstall, Upgrade, CheckSkew, Acquire, Busy, ReadCommitted, ObserveScene,
         DirectWriteCore, DirectWriteDaemon, Crash
<1>3. CASE End(p)
  BY <1>2, <1>3, EndGood, SameStore
<1>4. SUFFICES ASSUME ~End(p)
               PROVE  Works(job[p])'
  BY <1>2, <1>3, SameStore DEF Good
<1>5. CASE Invoke(p)
  <2>1. {Entry("install"), Entry("discard"), Entry("adopt"), "skew"}
           \subseteq {"migrate", "observe", "lock", "skew"}
    BY DEF Entry
  <2>2. ASSUME \E exe \in Revs, core \in CoreSources :
                 job' = [job EXCEPT ![p] = [Idle EXCEPT !.pc = Entry("install"), !.exe = exe, !.core = core]]
        PROVE  job'[p].pc \in {"migrate", "observe", "lock", "skew"}
    BY <1>1, <2>1, <2>2 DEF JobOK, Idle
  <2>3. ASSUME \E exe \in Revs :
                 job' = [job EXCEPT ![p] = [Idle EXCEPT !.pc = "skew", !.cmd = "restart", !.exe = exe]]
        PROVE  job'[p].pc \in {"migrate", "observe", "lock", "skew"}
    BY <1>1, <2>1, <2>3 DEF JobOK, Idle
  <2>4. ASSUME job' = [job EXCEPT ![p] = [Idle EXCEPT !.pc = Entry("discard"), !.cmd = "discard"]]
        PROVE  job'[p].pc \in {"migrate", "observe", "lock", "skew"}
    BY <1>1, <2>1, <2>4 DEF JobOK, Idle
  <2>5. ASSUME job' = [job EXCEPT ![p] = [Idle EXCEPT !.pc = Entry("adopt"), !.cmd = "adopt"]]
        PROVE  job'[p].pc \in {"migrate", "observe", "lock", "skew"}
    BY <1>1, <2>1, <2>5 DEF JobOK, Idle
  <2>6. job'[p].pc \in {"migrate", "observe", "lock", "skew"}
    BY <1>5, <2>2, <2>3, <2>4, <2>5 DEF Invoke
  <2> QED  BY <2>6 DEF Works, Staging, Applies
<1>6. CASE DirectInstall(p)
  <2>1. PICK exe \in Revs, core \in Revs, l \in {"direct_core", "direct_daemon"} :
          job' = [job EXCEPT ![p] = [Idle EXCEPT !.cmd = "direct", !.exe = exe, !.core = core, !.pc = l]]
    BY <1>6 DEF DirectInstall
  <2>2. job'[p].pc = l /\ job'[p].exe = exe /\ job'[p].core = core
    BY <1>1, <2>1 DEF JobOK, Idle
  <2> QED  BY <2>2 DEF Works, Staging, Applies
<1>7. CASE Upgrade(p)
  <2>1. job'[p].pc = "skew"
    BY <1>1, <1>7 DEF Upgrade, JobOK, Idle
  <2> QED  BY <2>1 DEF Works, Staging, Applies
<1>8. CASE CheckSkew(p)
  <2>1. job'[p].pc \in {"migrate", "lock"}
    BY <1>1, <1>4, <1>8 DEF CheckSkew, JobOK, Jobs, Goto, Entry
  <2> QED  BY <2>1 DEF Works, Staging, Applies
<1>9. CASE Acquire(p)
  <2>1. job'[p].pc \in {"admit", "read", "associate", "persist"}
    BY <1>1, <1>9 DEF Acquire, Goto, JobOK
  <2> QED  BY <2>1 DEF Works, Staging, Applies
<1>10. CASE ObserveScene(p)
  <2>1. job'[p].pc = "lock"
    BY <1>1, <1>4, <1>10 DEF ObserveScene, JobOK, Jobs
  <2> QED  BY <2>1 DEF Works, Staging, Applies
<1>11. CASE DirectWriteCore(p)
  <2>1. job[p].pc = "direct_core" /\ job'[p].pc = "direct_daemon"
        /\ job'[p].exe = job[p].exe /\ job'[p].core = job[p].core
    BY <1>1, <1>11 DEF DirectWriteCore, Goto, At, JobOK, Jobs
  <2>2. job[p].exe \in Revs /\ job[p].core \in Revs
    BY <2>1 DEF Inv, Working, Works
  <2> QED  BY <2>1, <2>2 DEF Works, Staging, Applies
<1>12. CASE Busy(p) \/ ReadCommitted(p) \/ DirectWriteDaemon(p) \/ Crash(p)
  BY <1>4, <1>12 DEF Busy, ReadCommitted, DirectWriteDaemon, Crash
<1> QED  BY <1>5, <1>6, <1>7, <1>8, <1>9, <1>10, <1>11, <1>12

\* The migrated store: two generations of unknown origin.
LEMMA MigrateGood ==
  ASSUME Inv, NEW p \in Procs, Migrate(p)
  PROVE  TypeOKStore' /\ Fresh' /\ Sound' /\ Working' /\ legacy' = NoGen
<1>1. /\ JobOK /\ job[p] \in Jobs /\ installed \in Scenes /\ Moved(p) /\ legacy \in LegacyStores \cup {NoGen}
  BY PlainMoves DEF Inv, TypeOK, JobOK, Step
<1>2. job'[p].pc \in {"observe", "lock"}
  BY <1>1 DEF Migrate, Goto, JobOK
<1>3. Works(job[p])'
  BY <1>2 DEF Works, Staging, Applies
<1>4. legacy' = NoGen
  BY DEF Migrate
<1>5. CASE legacy = NoGen
  <2>1. UNCHANGED storeVars
    BY <1>5 DEF Migrate, storeVars
  <2> QED  BY <1>1, <1>3, <1>4, <2>1, SameStore, SameWork
<1>6. CASE legacy # NoGen
  <2>1. slots' = legacy /\ gens' = LegacyGenerations /\ nextId' = nextId /\ legacy \in LegacyStores
    BY <1>1, <1>6 DEF Migrate
  <2>2. /\ nextId = 3 /\ \A q \in Procs : job[q].pc \in Early
        /\ MaxGens \in Nat /\ NoGen \notin Ids /\ 1 \in Ids /\ 2 \in Ids /\ Ids \subseteq Nat
    BY <1>6, IdFacts DEF Inv, Before
  <2>3. /\ legacy.active \in {1, NoGen} /\ legacy.pending \in {2, NoGen} /\ legacy.previous \in {1, NoGen}
        /\ legacy.active = NoGen \/ legacy.previous = NoGen
        /\ legacy \in Slots
    BY <2>1, <2>2 DEF LegacyStores, Slots
  <2>4. ASSUME NEW b \in Ids \cup {NoGen}
        PROVE  /\ Inherited(b) \in Generations /\ ~Inherited(b).trusted
    <3>1. Candidate(installed, b) \in Generations
      BY <1>1, CandidateTyped
    <3> QED  BY <3>1 DEF Inherited, Generations
  <2>5. ASSUME NEW g \in Ids
        PROVE  /\ g \notin {1, 2} => gens'[g] = NoDir
               /\ g \in Named' => gens'[g] \in Generations
               /\ gens'[g] = NoDir \/ (gens'[g] \in Generations /\ ~gens'[g].trusted)
    <3>1. gens'[g] = IF g \notin {legacy.active, legacy.pending, legacy.previous} THEN NoDir
                     ELSE Inherited(IF g = legacy.pending THEN legacy.previous ELSE NoGen)
      BY <2>1 DEF LegacyGenerations
    <3>2. legacy.previous \in Ids \cup {NoGen}
      BY <2>3 DEF Slots
    <3>3. Named' = {legacy.active, legacy.pending, legacy.previous} \ {NoGen}
      BY <2>1 DEF Named
    <3> QED  BY <2>2, <2>3, <2>4, <3>1, <3>2, <3>3
  <2>6. TypeOKStore'
    <3>1. gens' \in [Ids -> Generations \cup {NoDir}]
      BY <2>1, <2>5 DEF LegacyGenerations
    <3> QED  BY <2>1, <2>2, <2>3, <3>1 DEF TypeOKStore, Inv, TypeOK
  <2>7. Fresh'
    BY <2>1, <2>2, <2>5 DEF Fresh
  <2>8. \A g : ~(g \in Ids /\ gens'[g] # NoDir /\ gens'[g].trusted)
    BY <2>5
  <2>9. Named' \subseteq Ids
    BY <2>1, <2>3 DEF Named, Slots
  <2>10. \A g \in Named' : gens'[g] # NoDir
    BY <2>5, <2>9, UpgradeAssumption
  <2>11. Sound'
    <3>1. slots'.pending # NoGen => slots'.pending \notin {slots'.active, slots'.previous}
      BY <2>1, <2>2, <2>3
    <3> QED  BY <2>8, <2>10, <3>1 DEF Sound, BaselineKept, Trusted
  <2>12. Working'
    <3>1. ASSUME NEW q \in Procs, q # p
          PROVE  Works(job[q])'
      <4>1. job[q].pc \in Early /\ job'[q] = job[q] /\ Works(job[q])
        BY <1>1, <2>2, <3>1 DEF Moved, Inv, Working
      <4> QED  BY <4>1 DEF Works, Early, Staging, Applies
    <3> QED  BY <1>3, <3>1 DEF Working
  <2> QED  BY <1>4, <2>6, <2>7, <2>11, <2>12
<1> QED  BY <1>5, <1>6

-----------------------------------------------------------------------------
(* The invariant.                                                          *)

LEMMA ActsKeep ==
  ASSUME Inv, NEW p \in Procs, Acts(p)
  PROVE  TypeOKStore' /\ Fresh' /\ Sound' /\ Working'
<1>1. Moved(p)
  BY ActsMove
<1>2. CASE Migrate(p)
  BY <1>2, MigrateGood
<1>3. CASE Invoke(p) \/ DirectInstall(p) \/ Upgrade(p) \/ CheckSkew(p) \/ Acquire(p) \/ Busy(p)
             \/ ReadCommitted(p) \/ ObserveScene(p) \/ DirectWriteCore(p) \/ DirectWriteDaemon(p) \/ Crash(p)
  BY <1>1, <1>3, OuterGood, SameWork DEF Good
<1>4. ASSUME Good(p), job[p].pc \in Inside
      PROVE  TypeOKStore' /\ Fresh' /\ Sound' /\ Working'
  BY <1>1, <1>4, OthersWork DEF Good
<1>5. CASE Admit(p) \/ CaptureCore(p) \/ SealBaseline(p) \/ WriteCandidate(p) \/ Stage(p) \/ ReadPending(p)
  <2>1. job[p].pc \in Inside
    BY <1>5 DEF Admit, CaptureCore, SealBaseline, WriteCandidate, Stage, ReadPending, At, Inside, Outer, PCs
  <2> QED  BY <1>4, <1>5, <2>1, AdmitGood, CaptureGood, WriteCandidateGood, StageGood, ReadGood
<1>6. CASE Quiesce(p) \/ Replace(p) \/ Start(p) \/ Prove(p) \/ RollbackQuiesce(p) \/ RollbackRestore(p)
             \/ RollbackStart(p) \/ RollbackProve(p) \/ StartImpossible(p) \/ StepFails(p)
  <2>1. job[p].pc \in Inside
    BY <1>6 DEF Quiesce, Replace, Start, Prove, RollbackQuiesce, RollbackRestore, RollbackStart,
                RollbackProve, StartImpossible, StepFails, At, Inside, Outer, PCs
  <2> QED  BY <1>4, <1>6, <2>1, PipelineGood
<1>7. CASE Commit(p) \/ RollbackConsume(p) \/ Revoke(p) \/ FinishWithdrawn(p) \/ Retire(p)
  <2>1. job[p].pc \in Inside
    BY <1>7 DEF Commit, RollbackConsume, Revoke, FinishWithdrawn, Retire, At, Inside, Outer, PCs
  <2> QED  BY <1>4, <1>7, <2>1, CommitGood, ConsumeGood, FinishGood, RetireGood
<1>8. CASE MarkProven(p) \/ RollbackWithdraw(p) \/ Withdraw(p) \/ Associate(p)
             \/ PersistAdopted(p) \/ RecheckScene(p) \/ CommitAdopted(p)
  <2>1. job[p].pc \in Inside
    BY <1>8 DEF MarkProven, RollbackWithdraw, Withdraw, Associate, PersistAdopted, RecheckScene,
                CommitAdopted, At, Inside, Outer, PCs
  <2> QED  BY <1>4, <1>8, <2>1, MarkGood, AssociateGood, AdoptionGood
<1> QED  BY <1>2, <1>3, <1>5, <1>6, <1>7, <1>8 DEF Acts, Step

\* What runs and what is installed.
FilesOK == installed \in Scenes /\ run \in Runs

LEMMA LaunchTyped ==
  ASSUME FilesOK, installed["daemon"] # Missing, NEW core \in Revs \cup {Off}, Launch(core)
  PROVE  run' \in Runs
<1>1. installed["daemon"] \in Revs
  BY FileTyped DEF FilesOK
<1> QED  BY <1>1 DEF FilesOK, Launch, Runs, Artifacts

LEMMA QuiesceTyped ==
  ASSUME FilesOK, NEW target \in Scenes, run' = QuiesceFor(target)
  PROVE  run' \in Runs
BY DEF FilesOK, QuiesceFor, WithoutCore, Runs, Artifacts

LEMMA ReplacedTyped ==
  ASSUME FilesOK, NEW target \in Scenes, installed # target,
         installed' = Replaced(NextFile(target), target[NextFile(target)])
  PROVE  installed' \in Scenes
<1>1. NextFile(target) \in Artifacts
  BY NextFileIn DEF FilesOK
<1>2. target[NextFile(target)] \in Revs \cup {Missing}
  BY <1>1 DEF Scenes
<1> QED  BY <1>1, <1>2 DEF FilesOK, Scenes, Replaced

LEMMA FilesTyped ==
  ASSUME Inv, NEW p \in Procs, Acts(p)
  PROVE  FilesOK'
<1>1. FilesOK /\ JobOK /\ job[p] \in Jobs
  BY DEF Inv, TypeOK, FilesOK, JobOK
<1>2. CASE UNCHANGED <<installed, run>>
  BY <1>1, <1>2 DEF FilesOK
<1>3. ASSUME job[p].pc \in Applies
      PROVE  gens[job[p].cand].art \in Scenes /\ gens[job[p].base].art \in Scenes
  <2>1. Trusted(job[p].cand) /\ Trusted(job[p].base)
    BY <1>3 DEF Inv, Working, Works
  <2>2. gens[job[p].cand] \in Generations /\ gens[job[p].base] \in Generations
    BY <2>1 DEF Trusted, Inv, TypeOK, TypeOKStore
  <2> QED  BY <2>2 DEF Generations
<1>4. CASE Quiesce(p) \/ RollbackQuiesce(p)
  <2>1. job[p].pc \in Applies /\ UNCHANGED installed
    BY <1>4 DEF Quiesce, RollbackQuiesce, At, Applies
  <2>2. \E target \in Scenes : run' = QuiesceFor(target)
    BY <1>3, <1>4, <2>1 DEF Quiesce, RollbackQuiesce
  <2> QED  BY <1>1, <2>1, <2>2, QuiesceTyped DEF FilesOK
<1>5. CASE Replace(p) \/ RollbackRestore(p)
  <2>1. job[p].pc \in Applies /\ UNCHANGED run
    BY <1>5 DEF Replace, RollbackRestore, At, Applies
  <2>2. UNCHANGED installed
        \/ \E target \in Scenes : installed # target
             /\ installed' = Replaced(NextFile(target), target[NextFile(target)])
    BY <1>3, <1>5, <2>1 DEF Replace, RollbackRestore
  <2> QED  BY <1>1, <2>1, <2>2, ReplacedTyped DEF FilesOK
<1>6. CASE Start(p) \/ RollbackStart(p)
  <2>1. installed["daemon"] # Missing /\ UNCHANGED installed
    BY <1>6 DEF Start, RollbackStart
  <2>2. /\ installed["core"] # Missing => installed["core"] \in Revs
        /\ run["core"] \in Revs \cup {Off}
    BY <1>1, <2>1, FileTyped DEF FilesOK, Runs, Artifacts
  <2>3. \E core \in Revs \cup {Off} : Launch(core)
    BY <1>6, <2>2 DEF Start, RollbackStart
  <2> QED  BY <1>1, <2>1, <2>3, LaunchTyped DEF FilesOK
<1>7. CASE DirectWriteCore(p) \/ DirectWriteDaemon(p)
  <2>1. job[p].exe \in Revs /\ job[p].core \in Revs
    BY <1>7 DEF DirectWriteCore, DirectWriteDaemon, At, Inv, Working, Works
  <2>2. CASE DirectWriteCore(p)
    BY <1>1, <2>1, <2>2 DEF DirectWriteCore, FilesOK, Scenes
  <2>3. CASE DirectWriteDaemon(p)
    BY <1>1, <2>1, <2>3 DEF DirectWriteDaemon, FilesOK, Scenes, Runs, Artifacts
  <2> QED  BY <1>7, <2>2, <2>3
<1>8. CASE Upgrade(p)
  <2>1. UNCHANGED run /\ \E core \in Revs : installed' = [installed EXCEPT !["core"] = core]
    BY <1>8 DEF Upgrade
  <2> QED  BY <1>1, <2>1 DEF FilesOK, Scenes
<1>9. CASE ~(Quiesce(p) \/ RollbackQuiesce(p) \/ Replace(p) \/ RollbackRestore(p) \/ Start(p) \/ RollbackStart(p)
              \/ DirectWriteCore(p) \/ DirectWriteDaemon(p) \/ Upgrade(p))
  <2>1. UNCHANGED <<installed, run>>
    BY <1>9 DEF Acts, Step, Invoke, DirectInstall, Crash, StepFails, CheckSkew, Migrate, Acquire, Busy,
       Admit, CaptureCore, SealBaseline, WriteCandidate, Stage, ReadCommitted, ReadPending, Prove, Commit,
       Retire, RollbackProve, MarkProven, RollbackWithdraw, RollbackConsume, FinishWithdrawn, Associate,
       Withdraw, Revoke, ObserveScene, PersistAdopted, RecheckScene, CommitAdopted, StartImpossible
  <2> QED  BY <1>2, <2>1
<1> QED  BY <1>4, <1>5, <1>6, <1>7, <1>8, <1>9

\* The counters, the old store and the lock.
LEMMA RestTyped ==
  ASSUME Inv, NEW p \in Procs, Acts(p)
  PROVE  /\ lock' \in Procs \cup {NoProc} /\ legacy' \in {legacy, NoGen}
         /\ faults' \in 0 .. MaxFaults /\ outside' \in 0 .. MaxOutside
         /\ outside' # 0 \/ outside = 0
<1>1. /\ lock \in Procs \cup {NoProc} /\ faults \in 0 .. MaxFaults /\ outside \in 0 .. MaxOutside
      /\ MaxFaults \in Nat /\ MaxOutside \in Nat
  BY UpgradeAssumption DEF Inv, TypeOK
<1>2. lock' \in {lock, p, NoProc}
  BY DEF Acts, Step, Invoke, DirectInstall, Upgrade, Crash, StepFails, CheckSkew, Migrate, Acquire, Busy,
       Admit, CaptureCore, SealBaseline, WriteCandidate, Stage, ReadCommitted, ReadPending, Quiesce, Replace,
       Start, Prove, Commit, Retire, RollbackQuiesce, RollbackRestore, RollbackStart, RollbackProve,
       MarkProven, RollbackWithdraw, RollbackConsume, FinishWithdrawn, Associate,
       Withdraw, Revoke, ObserveScene, PersistAdopted, RecheckScene, CommitAdopted, DirectWriteCore,
       DirectWriteDaemon, StartImpossible, End
<1>3. legacy' \in {legacy, NoGen}
  BY DEF Acts, Step, Invoke, DirectInstall, Upgrade, Crash, StepFails, CheckSkew, Migrate, Acquire, Busy,
       Admit, CaptureCore, SealBaseline, WriteCandidate, Stage, ReadCommitted, ReadPending, Quiesce, Replace,
       Start, Prove, Commit, Retire, RollbackQuiesce, RollbackRestore, RollbackStart, RollbackProve,
       MarkProven, RollbackWithdraw, RollbackConsume, FinishWithdrawn, Associate,
       Withdraw, Revoke, ObserveScene, PersistAdopted, RecheckScene, CommitAdopted, DirectWriteCore,
       DirectWriteDaemon, StartImpossible
<1>4. UNCHANGED envVars \/ Fault \/ Outside
  BY DEF Acts, Step, Invoke, DirectInstall, Upgrade, Crash, StepFails, CheckSkew, Migrate, Acquire, Busy,
       Admit, CaptureCore, SealBaseline, WriteCandidate, Stage, ReadCommitted, ReadPending, Quiesce, Replace,
       Start, Prove, Commit, Retire, RollbackQuiesce, RollbackRestore, RollbackStart, RollbackProve,
       MarkProven, RollbackWithdraw, RollbackConsume, FinishWithdrawn, Associate,
       Withdraw, Revoke, ObserveScene, PersistAdopted, RecheckScene, CommitAdopted, DirectWriteCore,
       DirectWriteDaemon, StartImpossible
<1> QED  BY <1>1, <1>2, <1>3, <1>4 DEF Fault, Outside, envVars

LEMMA BeforeKept ==
  ASSUME Inv, NEW p \in Procs, Acts(p)
  PROVE  Before'
<1> SUFFICES ASSUME legacy' # NoGen
             PROVE  /\ slots' = EmptySlots /\ nextId' = 3
                    /\ \A g \in Ids : gens'[g] = NoDir
                    /\ \A q \in Procs : job'[q].pc \in Early
  BY DEF Before
<1>1. legacy # NoGen
  BY RestTyped
<1>2. /\ slots = EmptySlots /\ nextId = 3
      /\ \A g \in Ids : gens[g] = NoDir
      /\ \A q \in Procs : job[q].pc \in Early
  BY <1>1 DEF Inv, Before
<1>3. Moved(p) /\ JobOK /\ job[p] \in Jobs
  BY ActsMove DEF Inv, TypeOK, JobOK
<1>4. ~Migrate(p)
  BY DEF Migrate
<1>5. Invoke(p) \/ DirectInstall(p) \/ Upgrade(p) \/ CheckSkew(p) \/ DirectWriteCore(p)
        \/ DirectWriteDaemon(p) \/ Crash(p)
  BY <1>2, <1>4 DEF Acts, Step, StepFails, Acquire, Busy, Early,
       Admit, CaptureCore, SealBaseline, WriteCandidate, Stage, ReadCommitted, ReadPending, Quiesce, Replace,
       Start, Prove, Commit, Retire, RollbackQuiesce, RollbackRestore, RollbackStart, RollbackProve,
       MarkProven, RollbackWithdraw, RollbackConsume, FinishWithdrawn, Associate,
       Withdraw, Revoke, ObserveScene, PersistAdopted, RecheckScene, CommitAdopted, StartImpossible, At
<1>6. UNCHANGED storeVars
  BY <1>5, OuterGood
<1>7. job'[p].pc \in Early
  <2>1. CASE End(p)
    BY <1>3, <2>1, EndTyped, IdleTyped DEF Early
  <2>2. CASE Invoke(p)
    <3>1. {Entry("install"), Entry("discard"), Entry("adopt"), "skew"} \subseteq Early
      BY <1>1 DEF Entry, Early
    <3>2. ASSUME \E exe \in Revs, core \in CoreSources :
                   job' = [job EXCEPT ![p] = [Idle EXCEPT !.pc = Entry("install"), !.exe = exe, !.core = core]]
          PROVE  job'[p].pc \in Early
      BY <1>3, <3>1, <3>2 DEF JobOK, Idle
    <3>3. ASSUME \E exe \in Revs :
                   job' = [job EXCEPT ![p] = [Idle EXCEPT !.pc = "skew", !.cmd = "restart", !.exe = exe]]
          PROVE  job'[p].pc \in Early
      BY <1>3, <3>1, <3>3 DEF JobOK, Idle
    <3>4. ASSUME job' = [job EXCEPT ![p] = [Idle EXCEPT !.pc = Entry("discard"), !.cmd = "discard"]]
          PROVE  job'[p].pc \in Early
      BY <1>3, <3>1, <3>4 DEF JobOK, Idle
    <3>5. ASSUME job' = [job EXCEPT ![p] = [Idle EXCEPT !.pc = Entry("adopt"), !.cmd = "adopt"]]
          PROVE  job'[p].pc \in Early
      BY <1>3, <3>1, <3>5 DEF JobOK, Idle
    <3> QED  BY <2>2, <3>2, <3>3, <3>4, <3>5 DEF Invoke
  <2>3. CASE DirectInstall(p)
    BY <1>3, <2>3 DEF DirectInstall, JobOK, Idle, Early
  <2>4. CASE Upgrade(p)
    BY <1>3, <2>4 DEF Upgrade, JobOK, Idle, Early
  <2>5. CASE CheckSkew(p) /\ ~End(p)
    BY <1>1, <1>3, <2>5 DEF CheckSkew, JobOK, Jobs, Goto, Entry, Early
  <2>6. CASE DirectWriteCore(p)
    BY <1>3, <2>6 DEF DirectWriteCore, Goto, JobOK, Early
  <2>7. CASE DirectWriteDaemon(p) \/ Crash(p)
    BY <2>1, <2>7 DEF DirectWriteDaemon, Crash
  <2> QED  BY <1>5, <2>1, <2>2, <2>3, <2>4, <2>5, <2>6, <2>7
<1> QED  BY <1>2, <1>3, <1>6, <1>7 DEF storeVars, Moved

LEMMA DiesKeeps ==
  ASSUME Inv, Dies
  PROVE  Inv'
<1>1. UNCHANGED <<storeVars, legacy, lock, installed, job>> /\ Fault
  BY DEF Dies
<1>2. TypeOKStore' /\ Fresh' /\ Sound'
  BY <1>1, SameStore
<1>3. run' \in Runs
  <2>1. installed["daemon"] # Missing => installed["daemon"] \in Revs
    BY FileTyped DEF Inv, TypeOK
  <2>2. run \in Runs /\ Stopped \in Runs
    BY DEF Inv, TypeOK, Stopped, Runs
  <2> QED  BY <2>1, <2>2 DEF Dies, Runs, Artifacts
<1>4. TypeOK'
  BY <1>1, <1>2, <1>3, UpgradeAssumption DEF Fault, Inv, TypeOK
<1>5. Locking' /\ Before'
  BY <1>1 DEF Inv, Locking, Before, storeVars
<1>6. Working'
  BY <1>1 DEF Inv, Working, Works, storeVars, New, Named, Trusted, Valid, HasManifest, Recovery
<1> QED  BY <1>2, <1>4, <1>5, <1>6 DEF Inv

LEMMA InitInv ==
  ASSUME Init
  PROVE  Inv
<1>1. MaxGens \in Nat /\ MaxGens >= 2 /\ NoGen \notin Ids /\ NoProc \notin Procs
  BY IdFacts, UpgradeAssumption
<1>2. slots = EmptySlots /\ gens = [g \in Ids |-> NoDir] /\ nextId = (IF legacy = NoGen THEN 1 ELSE 3)
      /\ legacy \in LegacyStores \cup {NoGen} /\ lock = NoProc
      /\ job = [p \in Procs |-> Idle] /\ faults = 0 /\ outside = 0
  BY DEF Init
<1>3. TypeOKStore
  BY <1>1, <1>2 DEF TypeOKStore, EmptySlots, Slots
<1>4. installed \in Scenes /\ run \in Runs
  BY DEF Init, Scenes, Runs, Artifacts
<1>5. TypeOK
  BY <1>2, <1>3, <1>4, IdleTyped, UpgradeAssumption DEF TypeOK
<1>6. Locking /\ Before /\ Fresh
  BY <1>1, <1>2, IdleTyped DEF Locking, Before, Fresh, Inside, Outer, Early
<1>7. Sound
  BY <1>1, <1>2 DEF Sound, BaselineKept, EmptySlots, Named, Trusted
<1>8. Working
  BY <1>2, IdleTyped DEF Working, Works, Staging, Applies
<1> QED  BY <1>5, <1>6, <1>7, <1>8 DEF Inv

LEMMA NextInv ==
  ASSUME Inv, [Next]_vars
  PROVE  Inv'
<1>1. CASE Dies
  BY <1>1, DiesKeeps
<1>2. ASSUME NEW p \in Procs, Acts(p)
      PROVE  Inv'
  <2>1. TypeOKStore' /\ Fresh' /\ Sound' /\ Working' /\ Locking' /\ Before'
    BY <1>2, ActsKeep, LockingKept, BeforeKept
  <2>2. TypeOK'
    <3>1. job' \in [Procs -> Jobs]
      BY <1>2, ActsMove DEF Moved, JobOK
    <3>2. installed' \in Scenes /\ run' \in Runs
      BY <1>2, FilesTyped DEF FilesOK
    <3>3. legacy \in LegacyStores \cup {NoGen}
      BY DEF Inv, TypeOK
    <3> QED  BY <1>2, <2>1, <3>1, <3>2, <3>3, RestTyped DEF TypeOK
  <2> QED  BY <2>1, <2>2 DEF Inv
<1>3. CASE UNCHANGED vars
  <2>1. UNCHANGED storeVars /\ UNCHANGED <<legacy, lock, installed, run, job, faults, outside>>
    BY <1>3 DEF vars, envVars
  <2>2. TypeOKStore' /\ Fresh' /\ Sound'
    BY <2>1, SameStore
  <2>3. TypeOK' /\ Locking' /\ Before'
    BY <2>1, <2>2 DEF Inv, TypeOK, Locking, Before, storeVars
  <2>4. Working'
    BY <2>1 DEF Inv, Working, Works, storeVars, New, Named, Trusted, Valid, HasManifest, Recovery
  <2> QED  BY <2>2, <2>3, <2>4 DEF Inv
<1> QED  BY <1>1, <1>2, <1>3 DEF Next, Acts

LEMMA AlwaysInv == Spec => []Inv
<1>1. Init => Inv
  BY InitInv
<1>2. Inv /\ [Next]_vars => Inv'
  BY NextInv
<1> QED  BY <1>1, <1>2, PTL DEF Spec

\* Every file, slot, directory and process keeps its type, whatever commands meet,
\* fail or are killed.
THEOREM UpgradeTypeCorrect == Spec => []TypeOK
<1>1. Inv => TypeOK
  BY DEF Inv
<1> QED  BY <1>1, AlwaysInv, PTL

\* The baseline a pending or revoked upgrade returns to stays, whole and the one
\* its candidate names, for any number of processes, generations and faults.
THEOREM BaselinesAreKept == Spec => []BaselineKept
<1>1. Inv => BaselineKept
  BY DEF Inv, Sound
<1> QED  BY <1>1, AlwaysInv, PTL

-----------------------------------------------------------------------------
(* The commands implement UpgradeContract.                                 *)

\* What a command at its step knows of the installed files, as long as nothing has
\* written them without the store lock.
Covers(j) ==
  /\ j.pc \in Staging /\ ~Recovery => gens[j.base].art = installed
  /\ j.pc = "commit" => gens[j.cand].art = installed
  /\ j.pc \in {"rb_mark", "rb_withdraw", "rb_consume", "adopted"} => gens[j.base].art = installed
  /\ j.pc \notin {"direct_core", "direct_daemon"}

Covered == outside = 0 => \A p \in Procs : Covers(job[p])

\* A directory that stays keeps its provenance and, once its baseline is captured,
\* its files.
LEMMA DirsKeep ==
  ASSUME Inv, NEW p \in Procs, Acts(p), ~Migrate(p), NEW g \in Ids, gens[g] # NoDir, gens'[g] # NoDir
  PROVE  /\ gens'[g].trusted = gens[g].trusted
         /\ (job[p].pc = "capture" /\ g = job[p].base) \/ gens'[g].art = gens[g].art
<1>1. gens \in [Ids -> Generations \cup {NoDir}] /\ gens[g] \in Generations /\ Fresh /\ nextId \in Nat
  BY IdFacts DEF Inv, TypeOK, TypeOKStore
<1>2. g # nextId
  <2>1. ~(g >= nextId)
    BY <1>1 DEF Fresh
  <2> QED  BY <1>1, <2>1, IdFacts
<1>3. CASE UNCHANGED gens
  BY <1>3
<1>4. CASE \E d \in Generations : gens' = [gens EXCEPT ![nextId] = d]
  BY <1>1, <1>2, <1>4
<1>5. CASE Admit(p) /\ ~UNCHANGED gens
  <2>1. gens' = [gens EXCEPT ![nextId] = [Baseline(installed, FALSE) EXCEPT !.sealed = FALSE]]
    BY <1>5 DEF Admit
  <2> QED  BY <1>1, <1>2, <2>1
<1>6. CASE WriteCandidate(p)
  <2>1. gens' = [gens EXCEPT ![nextId] = Candidate([daemon |-> job[p].exe, core |-> job[p].core], job[p].base)]
    BY <1>6 DEF WriteCandidate
  <2> QED  BY <1>1, <1>2, <2>1
<1>7. CASE PersistAdopted(p) /\ ~UNCHANGED gens
  <2>1. gens' = [gens EXCEPT ![nextId] = Baseline(job[p].seen.art, TRUE)]
    BY <1>7 DEF PersistAdopted
  <2> QED  BY <1>1, <1>2, <2>1
<1>8. CASE CaptureCore(p)
  <2>1. gens' = [gens EXCEPT ![job[p].base].art["core"] = installed["core"]] /\ job[p].pc = "capture"
    BY <1>8 DEF CaptureCore, At
  <2>2. CASE g # job[p].base
    BY <1>1, <2>1, <2>2
  <2>3. CASE g = job[p].base
    <3>1. gens'[g] = [gens[g] EXCEPT !.art["core"] = installed["core"]]
      BY <1>1, <2>1, <2>3
    <3> QED  BY <1>1, <2>1, <2>3, <3>1 DEF Generations
  <2> QED  BY <2>2, <2>3
<1>9. CASE SealBaseline(p)
  <2>1. gens' = [gens EXCEPT ![job[p].base].sealed = TRUE]
    BY <1>9 DEF SealBaseline
  <2>2. gens'[g] \in {gens[g], [gens[g] EXCEPT !.sealed = TRUE]}
    BY <1>1, <2>1
  <2> QED  BY <1>1, <2>2 DEF Generations
<1>10. CASE MarkProven(p)
  <2>1. gens' = [gens EXCEPT ![job[p].cand].proven = TRUE]
    BY <1>10 DEF MarkProven
  <2>2. gens'[g] \in {gens[g], [gens[g] EXCEPT !.proven = TRUE]}
    BY <1>1, <2>1
  <2> QED  BY <1>1, <2>2 DEF Generations
<1>11. CASE RollbackWithdraw(p) \/ Withdraw(p)
  <2>1. gens' = [gens EXCEPT ![job[p].cand].tomb = TRUE]
    BY <1>11 DEF RollbackWithdraw, Withdraw
  <2>2. gens'[g] \in {gens[g], [gens[g] EXCEPT !.tomb = TRUE]}
    BY <1>1, <2>1
  <2> QED  BY <1>1, <2>2 DEF Generations
<1>12. CASE Associate(p) /\ ~UNCHANGED gens
  <2>1. gens' = [gens EXCEPT ![slots.pending].assoc = slots.previous]
    BY <1>12 DEF Associate
  <2>2. gens'[g] \in {gens[g], [gens[g] EXCEPT !.assoc = slots.previous]}
    BY <1>1, <2>1
  <2> QED  BY <1>1, <2>2 DEF Generations
<1>13. CASE Retire(p)
  <2>1. gens'[g] \in {NoDir, gens[g]}
    BY <1>13 DEF Retire
  <2> QED  BY <2>1
<1>14. CASE ~(Admit(p) \/ WriteCandidate(p) \/ PersistAdopted(p) \/ CaptureCore(p) \/ SealBaseline(p) \/ MarkProven(p)
               \/ RollbackWithdraw(p) \/ Withdraw(p) \/ Associate(p) \/ Retire(p))
  <2>1. UNCHANGED gens
    BY <1>14 DEF Acts, Step, Invoke, DirectInstall, Upgrade, Crash, StepFails, CheckSkew, Acquire, Busy,
       Stage, ReadCommitted, ReadPending, Quiesce, Replace,
       Start, Prove, Commit, RollbackQuiesce, RollbackRestore, RollbackStart, RollbackProve,
       RollbackConsume, FinishWithdrawn, Revoke, ObserveScene, RecheckScene, CommitAdopted, DirectWriteCore,
       DirectWriteDaemon, StartImpossible, storeVars
  <2> QED  BY <2>1, <1>3
<1> QED  BY <1>3, <1>5, <1>6, <1>7, <1>8, <1>9, <1>10, <1>11, <1>12, <1>13, <1>14

\* A step that leaves the slots and the files alone is no step of the contract.
LEMMA Stutters ==
  ASSUME Inv, Inv', UNCHANGED <<slots, installed>>,
         \A g \in Named : gens'[g].trusted = gens[g].trusted /\ gens'[g].art = gens[g].art
  PROVE  UNCHANGED Contract!vars
<1>1. \A g \in Named : g \in Ids /\ gens[g] # NoDir /\ gens'[g] # NoDir
  <2>1. slots \in Slots /\ Named' = Named
    BY DEF Inv, TypeOK, TypeOKStore, Named
  <2>2. \A g \in Named : gens[g] # NoDir
    BY DEF Inv, Sound, BaselineKept
  <2>3. \A g \in Named' : gens'[g] # NoDir
    BY DEF Inv, Sound, BaselineKept
  <2> QED  BY <2>1, <2>2, <2>3 DEF Named, Slots
<1>2. \A g \in {slots.active, slots.pending, slots.previous} :
        /\ Trusted(g)' <=> Trusted(g)
        /\ g \in Ids => gens'[g].art = gens[g].art
  <2>1. \A g \in {slots.active, slots.pending, slots.previous} : g \in Ids => g \in Named
    BY IdFacts DEF Named
  <2> QED  BY <1>1, <2>1 DEF Trusted
<1>3. Phase' = Phase
  BY <1>2 DEF Phase
<1>4. /\ Phase # "settled" => slots.previous \in Ids
      /\ Phase = "staged" => slots.pending \in Ids
  BY DEF Inv, Sound, BaselineKept, Phase, Trusted, Valid
<1> QED  BY <1>2, <1>3, <1>4 DEF Contract!vars

\* The other steps of the pipeline touch no slot and, unless they write a file, none
\* of the managed files.
Quiet(p) == Acts(p) /\ ~Migrate(p) /\ UNCHANGED <<slots, installed>>

LEMMA QuietStutters ==
  ASSUME Inv, Inv', NEW p \in Procs, Quiet(p)
  PROVE  UNCHANGED Contract!vars
<1>1. ASSUME NEW g \in Named
      PROVE  gens'[g].trusted = gens[g].trusted /\ gens'[g].art = gens[g].art
  <2>1. g \in Ids /\ Named' = Named
    BY DEF Inv, TypeOK, TypeOKStore, Named, Slots, Quiet
  <2>2. gens[g] # NoDir /\ gens'[g] # NoDir
    BY <2>1 DEF Inv, Sound, BaselineKept
  <2>3. ~(job[p].pc = "capture" /\ g = job[p].base)
    BY DEF Inv, Working, Works, New
  <2> QED  BY <2>1, <2>2, <2>3, DirsKeep DEF Quiet
<1> QED  BY <1>1, Stutters DEF Quiet

LEMMA MigrateStutters ==
  ASSUME Inv, Inv', NEW p \in Procs, Migrate(p)
  PROVE  UNCHANGED Contract!vars
<1>1. UNCHANGED installed
  BY DEF Migrate
<1>2. CASE UNCHANGED <<slots, gens>>
  BY <1>1, <1>2, Stutters
<1>3. CASE ~UNCHANGED <<slots, gens>>
  <2>1. slots = EmptySlots /\ gens' = LegacyGenerations /\ slots' \in Slots
    BY <1>3 DEF Migrate, Inv, Before, TypeOK, TypeOKStore
  <2>2. Phase = "settled"
    BY <2>1, IdFacts DEF EmptySlots, Phase, Trusted
  <2>3. \A g \in Ids : gens'[g] = NoDir \/ gens'[g].trusted = FALSE
    BY <2>1 DEF LegacyGenerations, Inherited, Candidate
  <2>4. Phase' = "settled"
    BY <2>3 DEF Phase, Trusted
  <2> QED  BY <1>1, <2>2, <2>4 DEF Contract!vars
<1> QED  BY <1>2, <1>3

LEMMA StageKept ==
  ASSUME Inv, NEW p \in Procs, Covers(job[p]), Stage(p)
  PROVE  Contract!Stage
<1> DEFINE b == job[p].base
           c == job[p].cand
<1>1. /\ slots' = [slots EXCEPT !.pending = c, !.previous = b] /\ UNCHANGED <<gens, installed>>
      /\ slots \in Slots /\ job[p].pc = "stage"
  BY DEF Stage, StageSlots, At, Inv, TypeOK, TypeOKStore
<1>2. /\ slots.pending = NoGen
      /\ Trusted(b) /\ (Recovery => b = slots.previous)
      /\ Trusted(c) /\ gens[c] \in Generations
  BY <1>1 DEF Inv, Working, Works, Staging, New, TypeOK, TypeOKStore, Trusted
<1>3. slots'.pending = c /\ slots'.previous = b
  BY <1>1 DEF Slots
<1>4. Phase' = "staged"
  BY <1>1, <1>2, <1>3 DEF Phase, Trusted
<1>5. Phase = IF Recovery THEN "revoked" ELSE "settled"
  BY <1>2, IdFacts DEF Phase, Recovery, Trusted
<1>6. ~Recovery => gens[b].art = installed
  BY <1>1 DEF Covers, Staging
<1>7. gens'[b].art = IF Phase = "settled" THEN installed ELSE gens[slots.previous].art
  BY <1>1, <1>2, <1>5, <1>6
<1>8. gens'[c].art \in Scenes
  BY <1>1, <1>2 DEF Generations
<1> QED  BY <1>1, <1>3, <1>4, <1>5, <1>7, <1>8 DEF Contract!Stage

LEMMA WriteKept ==
  ASSUME Inv, NEW p \in Procs, Replace(p) \/ RollbackRestore(p), ~UNCHANGED installed
  PROVE  Contract!Write
<1> DEFINE b == job[p].base
           c == job[p].cand
<1>1. /\ c = slots.pending /\ b = slots.previous /\ Trusted(c) /\ Trusted(b)
      /\ UNCHANGED <<slots, gens>> /\ installed \in Scenes
  BY DEF Inv, Working, Works, Applies, Replace, RollbackRestore, At, storeVars, TypeOK
<1>2. Phase = "staged" /\ Phase' = "staged"
  BY <1>1 DEF Phase, Trusted
<1>3. gens[b].art \in Scenes /\ gens[c].art \in Scenes
  BY <1>1 DEF Inv, TypeOK, TypeOKStore, Trusted, Generations
<1>4. PICK s \in {gens[b].art, gens[c].art} :
        installed # s /\ installed' = [installed EXCEPT ![NextFile(s)] = s[NextFile(s)]]
  BY DEF Replace, RollbackRestore, Replaced
<1>5. NextFile(s) \in DOMAIN installed
  BY <1>1, <1>3, <1>4, NextFileIn DEF Scenes
<1>6. \E a \in DOMAIN installed : installed' = [installed EXCEPT ![a] = s[a]]
  BY <1>4, <1>5
<1> QED  BY <1>1, <1>2, <1>4, <1>6 DEF Contract!Write

\* Once the slots are written, an upgrade has ended in one of three ways.
LEMMA SettleKept ==
  ASSUME Inv, Phase = "staged", UNCHANGED <<gens, installed>>,
         NEW a \in Ids, NEW b \in Ids \cup {NoGen},
         slots' = [active |-> a, pending |-> NoGen, previous |-> b]
  PROVE  Contract!Settle
<1>1. Phase' = "settled"
  BY IdFacts DEF Phase, Trusted
<1> QED  BY <1>1 DEF Contract!Settle

LEMMA RevokeKept ==
  ASSUME Inv, Phase = "staged", UNCHANGED <<gens, installed>>, Trusted(slots.previous),
         slots' = RevokeSlots(slots.previous)
  PROVE  Contract!Revoke
<1>1. Phase' = "revoked" /\ slots'.previous = slots.previous
  BY IdFacts DEF Phase, Trusted, RevokeSlots
<1> QED  BY <1>1 DEF Contract!Revoke

LEMMA EndsKept ==
  ASSUME Inv, NEW p \in Procs, Covers(job[p]), ~UNCHANGED slots,
         Commit(p) \/ RollbackConsume(p) \/ Revoke(p)
  PROVE  Contract!Commit \/ Contract!Revert \/ Contract!Revoke
<1> DEFINE b == job[p].base
           c == job[p].cand
<1>1. /\ c = slots.pending /\ b = slots.previous /\ Trusted(c) /\ Trusted(b)
      /\ UNCHANGED <<gens, installed>> /\ c \in Ids /\ b \in Ids
  BY DEF Inv, Working, Works, Applies, Commit, RollbackConsume, Revoke, At, Trusted
<1>2. Phase = "staged"
  BY <1>1 DEF Phase
<1>3. CASE Commit(p)
  <2>1. slots' = [active |-> c, pending |-> NoGen, previous |-> b] /\ job[p].pc = "commit"
    BY <1>1, <1>3 DEF Commit, CommitSlots, At
  <2>2. installed = gens[c].art
    BY <2>1 DEF Covers
  <2> QED  BY <1>1, <1>2, <2>1, <2>2, SettleKept DEF Contract!Commit
<1>4. CASE RollbackConsume(p)
  <2>1. slots' = [active |-> b, pending |-> NoGen, previous |-> NoGen] /\ job[p].pc = "rb_consume"
    BY <1>4 DEF RollbackConsume, CompensateSlots, At
  <2>2. installed = gens[b].art
    BY <2>1 DEF Covers
  <2> QED  BY <1>1, <1>2, <2>1, <2>2, SettleKept DEF Contract!Revert
<1>5. CASE Revoke(p)
  BY <1>1, <1>2, <1>5, RevokeKept DEF Revoke
<1> QED  BY <1>3, <1>4, <1>5

LEMMA FinishKept ==
  ASSUME Inv, NEW p \in Procs, FinishWithdrawn(p), ~UNCHANGED slots
  PROVE  Contract!Revert \/ Contract!Revoke
<1> DEFINE g == slots.pending
           b == slots.previous
<1>1. /\ ~FinishRefused(g) /\ UNCHANGED <<gens, installed>> /\ job[p].pc = "finish"
      /\ slots' = IF gens[g].proven THEN CompensateSlots(b) ELSE RevokeSlots(b)
  BY DEF FinishWithdrawn, At
<1>2. g \in Ids /\ gens[g].trusted /\ Trusted(b)
  BY <1>1 DEF Inv, Working, Works, FinishRefused
<1>3. gens[g] # NoDir
  BY <1>2, IdFacts DEF Inv, Sound, BaselineKept, Named
<1>4. Phase = "staged" /\ b \in Ids
  BY <1>2, <1>3 DEF Phase, Trusted
<1>5. CASE gens[g].proven
  <2>1. installed = gens[b].art
    BY <1>1, <1>5 DEF FinishRefused, BaselineProven, RunsAs
  <2>2. slots' = [active |-> b, pending |-> NoGen, previous |-> NoGen]
    BY <1>1, <1>5 DEF CompensateSlots
  <2> QED  BY <1>1, <1>4, <2>1, <2>2, SettleKept DEF Contract!Revert
<1>6. CASE ~gens[g].proven
  BY <1>1, <1>2, <1>4, <1>6, RevokeKept
<1> QED  BY <1>5, <1>6

LEMMA AdoptKept ==
  ASSUME Inv, NEW p \in Procs, Covers(job[p]), CommitAdopted(p)
  PROVE  Contract!Adopt
<1> DEFINE b == job[p].base
<1>1. /\ job[p].pc = "adopted" /\ slots' = [active |-> NoGen, pending |-> NoGen, previous |-> b]
      /\ UNCHANGED <<gens, installed>>
  BY DEF CommitAdopted, RevokeSlots, At
<1>2. Trusted(b) /\ \A g \in Named : ~Trusted(g)
  BY <1>1 DEF Inv, Working, Works, New
<1>3. Phase = "settled"
  BY <1>2, IdFacts DEF Phase, Named, Trusted
<1>4. Phase' = "revoked"
  BY <1>1, <1>2, IdFacts DEF Phase, Trusted
<1>5. gens[b].art = installed
  BY <1>1 DEF Covers
<1> QED  BY <1>1, <1>3, <1>4, <1>5 DEF Contract!Adopt

\* As long as nothing is written outside of the lock, a step is one of the contract's.
LEMMA ActsContract ==
  ASSUME Inv, Inv', NEW p \in Procs, Acts(p), Covers(job[p]), outside' = 0
  PROVE  Contract!Next \/ UNCHANGED Contract!vars
<1>1. ~Outside
  <2>1. outside \in Nat
    BY UpgradeAssumption DEF Inv, TypeOK
  <2> QED  BY <2>1 DEF Outside
<1>2. ~(DirectInstall(p) \/ Upgrade(p) \/ DirectWriteCore(p) \/ DirectWriteDaemon(p))
  BY <1>1 DEF DirectInstall, Upgrade, DirectWriteCore, DirectWriteDaemon, Covers, At
<1>3. CASE Migrate(p)
  BY <1>3, MigrateStutters
<1>4. CASE Quiet(p)
  BY <1>4, QuietStutters
<1>5. CASE Stage(p)
  BY <1>5, StageKept DEF Contract!Next
<1>6. CASE (Replace(p) \/ RollbackRestore(p)) /\ ~UNCHANGED installed
  BY <1>6, WriteKept DEF Contract!Next
<1>7. CASE (Commit(p) \/ RollbackConsume(p) \/ Revoke(p)) /\ ~UNCHANGED slots
  BY <1>7, EndsKept DEF Contract!Next
<1>8. CASE FinishWithdrawn(p) /\ ~UNCHANGED slots
  BY <1>8, FinishKept DEF Contract!Next
<1>9. CASE CommitAdopted(p)
  BY <1>9, AdoptKept DEF Contract!Next
<1>10. CASE /\ ~(Migrate(p) \/ Stage(p) \/ CommitAdopted(p))
            /\ Replace(p) \/ RollbackRestore(p) => UNCHANGED installed
            /\ Commit(p) \/ RollbackConsume(p) \/ Revoke(p) \/ FinishWithdrawn(p) => UNCHANGED slots
  <2>1. UNCHANGED <<slots, installed>>
    BY <1>2, <1>10 DEF Acts, Step, Invoke, Crash, StepFails, CheckSkew, Acquire, Busy,
       Admit, CaptureCore, SealBaseline, WriteCandidate, ReadCommitted, ReadPending, Quiesce, Replace,
       Start, Prove, Commit, Retire, RollbackQuiesce, RollbackRestore, RollbackStart, RollbackProve,
       MarkProven, RollbackWithdraw, RollbackConsume, FinishWithdrawn, Associate,
       Withdraw, Revoke, ObserveScene, PersistAdopted, RecheckScene, StartImpossible, storeVars
  <2> QED  BY <1>4, <1>10, <2>1 DEF Quiet
<1> QED  BY <1>3, <1>5, <1>6, <1>7, <1>8, <1>9, <1>10

-----------------------------------------------------------------------------

\* A command that is at none of these steps has looked at nothing.
Looked == Staging \cup {"commit", "rb_mark", "rb_withdraw", "rb_consume", "adopted", "direct_core", "direct_daemon"}

LEMMA BlindCovers ==
  ASSUME NEW p \in Procs, job'[p].pc \notin Looked
  PROVE  Covers(job[p])'
BY DEF Covers, Looked, Staging

LEMMA EndCovers ==
  ASSUME Inv, NEW p \in Procs, End(p)
  PROVE  Covers(job[p])'
<1>1. job'[p].pc = "idle"
  BY EndTyped, IdleTyped DEF Inv, TypeOK, JobOK
<1> QED  BY <1>1, BlindCovers DEF Looked, Staging

\* Another process is not inside, or saw what is still there.
LEMMA OtherCovers ==
  ASSUME Inv, NEW p \in Procs, NEW q \in Procs, p # q, Acts(p), ~(DirectInstall(p) \/ Upgrade(p)),
         job[p].pc \notin {"direct_core", "direct_daemon"}, Covers(job[q])
  PROVE  Covers(job[q])'
<1>1. job'[q] = job[q]
  BY ActsMove DEF Moved
<1>2. CASE job[p].pc \in Inside
  <2>1. job[q].pc \notin Inside
    BY <1>2, Alone
  <2>2. job[q].pc \in PCs /\ job[q].pc \notin {"direct_core", "direct_daemon"}
    BY DEF Inv, TypeOK, Jobs, Covers
  <2>3. job[q].pc \notin Looked
    BY <2>1, <2>2 DEF Inside, Outer, Looked, Staging
  <2> QED  BY <1>1, <2>3, BlindCovers
<1>3. CASE job[p].pc \notin Inside /\ UNCHANGED <<slots, gens, installed>>
  BY <1>1, <1>3 DEF Covers, Recovery
<1>4. CASE Migrate(p) /\ ~UNCHANGED <<slots, gens>>
  <2>1. job[q].pc \in Early
    BY <1>4 DEF Migrate, Inv, Before
  <2>2. job[q].pc \notin Looked
    BY <2>1 DEF Covers, Early, Looked, Staging
  <2> QED  BY <1>1, <2>2, BlindCovers
<1>5. CASE job[p].pc \notin Inside /\ ~(Migrate(p) /\ ~UNCHANGED <<slots, gens>>)
  <2>1. UNCHANGED installed
    BY <1>5 DEF Acts, Step, Invoke, DirectInstall, Upgrade, Crash, StepFails, CheckSkew, Migrate, Acquire, Busy,
       Admit, CaptureCore, SealBaseline, WriteCandidate, Stage, ReadCommitted, ReadPending, Quiesce, Replace,
       Start, Prove, Commit, Retire, RollbackQuiesce, RollbackRestore, RollbackStart, RollbackProve,
       MarkProven, RollbackWithdraw, RollbackConsume, FinishWithdrawn, Associate,
       Withdraw, Revoke, ObserveScene, PersistAdopted, RecheckScene, CommitAdopted, DirectWriteCore,
       DirectWriteDaemon, StartImpossible, At, Inside, Outer, PCs
  <2>2. UNCHANGED <<slots, gens>>
    BY <1>5 DEF Acts, Step, Invoke, DirectInstall, Upgrade, Crash, StepFails, CheckSkew, Migrate, Acquire, Busy,
       Admit, CaptureCore, SealBaseline, WriteCandidate, Stage, ReadCommitted, ReadPending, Quiesce, Replace,
       Start, Prove, Commit, Retire, RollbackQuiesce, RollbackRestore, RollbackStart, RollbackProve,
       MarkProven, RollbackWithdraw, RollbackConsume, FinishWithdrawn, Associate,
       Withdraw, Revoke, ObserveScene, PersistAdopted, RecheckScene, CommitAdopted, DirectWriteCore,
       DirectWriteDaemon, StartImpossible, At, Inside, Outer, PCs, storeVars
  <2> QED  BY <1>3, <1>5, <2>1, <2>2
<1> QED  BY <1>2, <1>4, <1>5

\* A baseline is a copy of the files as they are.
LEMMA StagingCovers ==
  ASSUME Inv, NEW p \in Procs, Covers(job[p]),
         Admit(p) \/ CaptureCore(p) \/ SealBaseline(p) \/ WriteCandidate(p)
  PROVE  Covers(job[p])'
<1> DEFINE b == job[p].base
<1>1. /\ gens \in [Ids -> Generations \cup {NoDir}] /\ job \in [Procs -> Jobs] /\ JobOK /\ slots \in Slots
      /\ nextId \in Nat /\ MaxGens \in Nat /\ Fresh
  BY IdFacts DEF Inv, TypeOK, TypeOKStore, JobOK
<1>2. UNCHANGED <<slots, installed>> /\ Recovery' = Recovery
  BY DEF Admit, CaptureCore, SealBaseline, WriteCandidate, Recovery
<1>3. CASE End(p)
  BY <1>3, EndCovers
<1>4. ASSUME job'[p].pc \in Staging, ~Recovery => gens'[job'[p].base].art = installed
      PROVE  Covers(job[p])'
  BY <1>2, <1>4 DEF Covers, Staging
<1>5. CASE Admit(p) /\ ~End(p)
  <2>1. ~(nextId + 1 > MaxGens)
    BY <1>5, Zenon DEF Admit
  <2>2. nextId \in Ids
    <3>1. nextId \in 1 .. MaxGens + 1
      BY DEF Inv, TypeOK, TypeOKStore
    <3> QED  BY <1>1, <2>1, <3>1 DEF Ids
  <2>3. CASE Recovery
    <3>1. job'[p].pc = "write"
      BY <1>1, <1>5, <2>3 DEF Admit, Jobs
    <3> QED  BY <1>4, <2>3, <3>1 DEF Staging
  <2>4. CASE ~Recovery
    <3>1. gens' = [gens EXCEPT ![nextId] = [Baseline(installed, FALSE) EXCEPT !.sealed = FALSE]]
      BY <1>5, <2>4 DEF Admit
    <3>2. job'[p].pc = "capture" /\ job'[p].base = nextId
      <4>1. job' = [job EXCEPT ![p].pc = "capture", ![p].base = nextId]
        BY <1>5, <2>4 DEF Admit
      <4>2. job[p] \in Jobs
        BY <1>1
      <4> QED  BY <1>1, <4>1, <4>2 DEF Jobs
    <3>3. gens'[nextId].art = installed
      BY <1>1, <2>2, <3>1 DEF Baseline
    <3> QED  BY <1>4, <3>2, <3>3 DEF Staging
  <2> QED  BY <2>3, <2>4
<1>6. ASSUME job[p].pc \in {"capture", "seal"}
      PROVE  b \in Ids /\ gens[b] \in Generations /\ gens[b].art = installed
  BY <1>1, <1>6 DEF Inv, Working, Works, New, Trusted, Covers, Staging
<1>7. CASE CaptureCore(p)
  <2>1. job[p].pc = "capture" /\ gens' = [gens EXCEPT ![b].art["core"] = installed["core"]]
    BY <1>7 DEF CaptureCore, At
  <2>2. job'[p].pc = "seal" /\ job'[p].base = b
    BY <1>1, <1>7 DEF CaptureCore, Goto, Jobs
  <2>3. gens'[b] = [gens[b] EXCEPT !.art = [@ EXCEPT !["core"] = installed["core"]]]
    BY <1>1, <1>6, <2>1
  <2>4. gens'[b].art = [installed EXCEPT !["core"] = installed["core"]]
    BY <1>6, <2>1, <2>3 DEF Generations
  <2>5. gens'[b].art = installed
    BY <2>4 DEF Inv, TypeOK, Scenes, Artifacts
  <2> QED  BY <1>4, <2>2, <2>5 DEF Staging
<1>8. CASE SealBaseline(p)
  <2>1. job[p].pc = "seal" /\ gens' = [gens EXCEPT ![b].sealed = TRUE]
    BY <1>8 DEF SealBaseline, At
  <2>2. job'[p].pc = "write" /\ job'[p].base = b
    BY <1>1, <1>8 DEF SealBaseline, Goto, Jobs
  <2>3. gens'[b].art = installed
    BY <1>1, <1>6, <2>1 DEF Generations
  <2> QED  BY <1>4, <2>2, <2>3 DEF Staging
<1>9. CASE WriteCandidate(p)
  <2> DEFINE d == Candidate([daemon |-> job[p].exe, core |-> job[p].core], b)
  <2>1. job[p].pc = "write" /\ gens' = [gens EXCEPT ![nextId] = d]
    BY <1>9 DEF WriteCandidate, At
  <2>2. Trusted(b) /\ (~Recovery => gens[b].art = installed)
    BY <2>1 DEF Inv, Working, Works, Covers, Staging
  <2>3. b # nextId
    BY <1>1, <2>2, IdFacts DEF Trusted, Fresh
  <2>4. job'[p].pc = "stage" /\ job'[p].base = b
    BY <1>1, <1>9 DEF WriteCandidate, Jobs
  <2> HIDE DEF d
  <2>5. gens'[b] = gens[b]
    BY <1>1, <2>1, <2>2, <2>3 DEF Trusted
  <2> QED  BY <1>4, <2>2, <2>4, <2>5 DEF Staging
<1> QED  BY <1>3, <1>5, <1>7, <1>8, <1>9

\* The proofs of a step are about the files as they are.
LEMMA ProofCovers ==
  ASSUME Inv, NEW p \in Procs, Covers(job[p]),
         Prove(p) \/ RollbackProve(p) \/ MarkProven(p) \/ RollbackWithdraw(p) \/ RecheckScene(p)
  PROVE  Covers(job[p])'
<1> DEFINE b == job[p].base
           c == job[p].cand
<1>1. /\ gens \in [Ids -> Generations \cup {NoDir}] /\ job \in [Procs -> Jobs] /\ JobOK
      /\ UNCHANGED <<slots, installed>>
  BY DEF Inv, TypeOK, TypeOKStore, JobOK, Prove, RollbackProve, MarkProven, RollbackWithdraw, RecheckScene, storeVars
<1>2. CASE End(p)
  BY <1>2, EndCovers
<1>3. CASE Prove(p)
  <2>1. job'[p].pc \in {"commit", "rb_quiesce"} /\ job'[p].cand = c
    BY <1>1, <1>3 DEF Prove, Goto, Jobs
  <2>2. job'[p].pc = "commit" => gens'[c].art = installed
    BY <1>1, <1>3 DEF Prove, Goto, Jobs, RunsAs, storeVars
  <2> QED  BY <1>1, <2>1, <2>2 DEF Covers, Staging
<1>4. CASE RollbackProve(p) /\ ~End(p)
  <2>1. job'[p].pc = "rb_mark" /\ job'[p].base = b
    BY <1>1, <1>4 DEF RollbackProve, Goto, Jobs
  <2>2. gens'[b].art = installed
    BY <1>4 DEF RollbackProve, BaselineProven, RunsAs, storeVars
  <2> QED  BY <1>1, <2>1, <2>2 DEF Covers, Staging
<1>5. CASE MarkProven(p) \/ RollbackWithdraw(p)
  <2>1. job'[p].pc \in {"rb_withdraw", "rb_consume"} /\ job'[p].base = b
    BY <1>1, <1>5 DEF MarkProven, RollbackWithdraw, Goto, Jobs
  <2>2. job[p].pc \in {"rb_mark", "rb_withdraw"}
    BY <1>5 DEF MarkProven, RollbackWithdraw, At
  <2>3. Trusted(b) /\ Trusted(c) /\ gens[b].art = installed
    BY <2>2 DEF Inv, Working, Works, Applies, Covers
  <2>4. gens'[b].art = gens[b].art
    <3>1. b \in Ids /\ gens[b] \in Generations
      BY <1>1, <2>3 DEF Trusted
    <3>2. CASE MarkProven(p)
      <4>1. gens' = [gens EXCEPT ![c].proven = TRUE]
        BY <3>2 DEF MarkProven
      <4>2. gens'[b] \in {gens[b], [gens[b] EXCEPT !.proven = TRUE]}
        BY <1>1, <3>1, <4>1
      <4> QED  BY <3>1, <4>2 DEF Generations
    <3>3. CASE RollbackWithdraw(p)
      <4>1. gens' = [gens EXCEPT ![c].tomb = TRUE]
        BY <3>3 DEF RollbackWithdraw
      <4>2. gens'[b] \in {gens[b], [gens[b] EXCEPT !.tomb = TRUE]}
        BY <1>1, <3>1, <4>1
      <4> QED  BY <3>1, <4>2 DEF Generations
    <3> QED  BY <1>5, <3>2, <3>3
  <2> QED  BY <1>1, <2>1, <2>3, <2>4 DEF Covers, Staging
<1>6. CASE RecheckScene(p) /\ ~End(p)
  <2>1. job[p].pc = "recheck" /\ Scene = job[p].seen
    BY <1>6 DEF RecheckScene, At
  <2>2. gens[b].art = job[p].seen.art
    BY <2>1 DEF Inv, Working, Works
  <2>3. job'[p].pc = "adopted" /\ job'[p].base = b
    BY <1>1, <1>6 DEF RecheckScene, Goto, Jobs
  <2>4. gens'[b].art = installed
    BY <1>6, <2>1, <2>2 DEF Scene, RecheckScene, storeVars
  <2> QED  BY <1>1, <2>3, <2>4 DEF Covers, Staging
<1> QED  BY <1>2, <1>3, <1>4, <1>5, <1>6

LEMMA BlindSteps ==
  ASSUME Inv, NEW p \in Procs, Acts(p), ~DirectInstall(p),
         job[p].pc \notin {"direct_core", "direct_daemon"},
         ~(Admit(p) \/ CaptureCore(p) \/ SealBaseline(p) \/ WriteCandidate(p)),
         ~(Prove(p) \/ RollbackProve(p) \/ MarkProven(p) \/ RollbackWithdraw(p) \/ RecheckScene(p)),
         ~End(p)
  PROVE  job'[p].pc \notin Looked
<1>1. job \in [Procs -> Jobs] /\ job[p] \in Jobs
  BY DEF Inv, TypeOK
<1>2. ASSUME NEW l, Goto(p, l) PROVE job'[p].pc = l
  BY <1>1, <1>2 DEF Goto, Jobs
<1>3. CASE Invoke(p)
  <2>1. \A cmd : Entry(cmd) \notin Looked /\ "skew" \notin Looked
    BY DEF Entry, Looked, Staging
  <2>2. ASSUME \E exe \in Revs, core \in CoreSources :
                 job' = [job EXCEPT ![p] = [Idle EXCEPT !.pc = Entry("install"), !.exe = exe, !.core = core]]
        PROVE  job'[p].pc \notin Looked
    BY <1>1, <2>1, <2>2 DEF Idle
  <2>3. ASSUME \E exe \in Revs :
                 job' = [job EXCEPT ![p] = [Idle EXCEPT !.pc = "skew", !.cmd = "restart", !.exe = exe]]
        PROVE  job'[p].pc \notin Looked
    BY <1>1, <2>1, <2>3 DEF Idle
  <2>4. ASSUME job' = [job EXCEPT ![p] = [Idle EXCEPT !.pc = Entry("discard"), !.cmd = "discard"]]
        PROVE  job'[p].pc \notin Looked
    BY <1>1, <2>1, <2>4 DEF Idle
  <2>5. ASSUME job' = [job EXCEPT ![p] = [Idle EXCEPT !.pc = Entry("adopt"), !.cmd = "adopt"]]
        PROVE  job'[p].pc \notin Looked
    BY <1>1, <2>1, <2>5 DEF Idle
  <2> QED  BY <1>3, <2>2, <2>3, <2>4, <2>5 DEF Invoke
<1>4. CASE CheckSkew(p)
  <2>1. \A cmd : Entry(cmd) \notin Looked
    BY DEF Entry, Looked, Staging
  <2>2. CASE Goto(p, Entry("restart"))
    BY <1>2, <2>1, <2>2
  <2>3. CASE ~Goto(p, Entry("restart"))
    <3>1. job' = [job EXCEPT ![p].pc = Entry("install"), ![p].cmd = "install",
                                ![p].core = installed["core"],
                                ![p].seen = [slots |-> slots, art |-> installed]]
      BY <1>4, <2>3 DEF CheckSkew
    <3>2. job'[p].pc = Entry("install")
      BY <1>1, <3>1 DEF Jobs
    <3> QED  BY <2>1, <3>2
  <2> QED  BY <2>2, <2>3
<1>5. CASE Upgrade(p)
  BY <1>1, <1>5 DEF Upgrade, Idle, Looked, Staging
<1>6. CASE Migrate(p) \/ Acquire(p)
  <2>1. \E l \in {"observe", "lock", "admit", "read", "associate", "persist"} : Goto(p, l)
    BY <1>6 DEF Migrate, Acquire
  <2> QED  BY <1>2, <2>1 DEF Looked, Staging
<1>7. CASE Stage(p)
  <2>1. job' = [job EXCEPT ![p] = [Idle EXCEPT !.pc = "lock", !.cmd = "restart", !.exe = job[p].exe]]
    BY <1>7 DEF Stage
  <2> QED  BY <1>1, <2>1 DEF Idle, Looked, Staging
<1>8. CASE ReadPending(p)
  <2>1. CASE Goto(p, "finish")
    BY <1>2, <2>1 DEF Looked, Staging
  <2>2. CASE ~Goto(p, "finish")
    <3>1. job'[p].pc \in {"start", "quiesce"}
      BY <1>1, <1>8, <2>2 DEF ReadPending, Jobs
    <3> QED  BY <3>1 DEF Looked, Staging
  <2> QED  BY <2>1, <2>2
<1>9. CASE Quiesce(p) \/ Replace(p) \/ Start(p) \/ RollbackQuiesce(p) \/ RollbackRestore(p) \/ RollbackStart(p)
             \/ Commit(p) \/ Withdraw(p) \/ StepFails(p) \/ StartImpossible(p)
  <2>1. \/ \E l \in {"replace", "start", "prove", "rb_restore", "rb_start", "rb_prove", "rb_quiesce",
                     "retire", "revoke"} : Goto(p, l)
        \/ UNCHANGED job /\ job[p].pc \in {"replace", "rb_restore"}
    BY <1>9 DEF Quiesce, Replace, Start, RollbackQuiesce, RollbackRestore, RollbackStart,
                Commit, Withdraw, StepFails, StartImpossible, At
  <2> QED  BY <1>2, <2>1 DEF Looked, Staging
<1>10. CASE Associate(p)
  <2>1. job'[p].pc = "withdraw"
    BY <1>1, <1>10 DEF Associate, Jobs
  <2> QED  BY <2>1 DEF Looked, Staging
<1>11. CASE ObserveScene(p)
  <2>1. job'[p].pc = "lock"
    BY <1>1, <1>11 DEF ObserveScene, Jobs
  <2> QED  BY <2>1 DEF Looked, Staging
<1>12. CASE PersistAdopted(p)
  <2>1. job'[p].pc = "recheck"
    BY <1>1, <1>12 DEF PersistAdopted, Jobs
  <2> QED  BY <2>1 DEF Looked, Staging
<1>13. ~(Busy(p) \/ ReadCommitted(p) \/ Retire(p) \/ RollbackConsume(p) \/ FinishWithdrawn(p) \/ Revoke(p)
          \/ CommitAdopted(p) \/ DirectWriteCore(p) \/ DirectWriteDaemon(p) \/ Crash(p))
  BY DEF Busy, ReadCommitted, Retire, RollbackConsume, FinishWithdrawn, Revoke, CommitAdopted,
         DirectWriteCore, DirectWriteDaemon, Crash, At
<1> QED  BY <1>3, <1>4, <1>5, <1>6, <1>7, <1>8, <1>9, <1>10, <1>11, <1>12, <1>13 DEF Acts, Step

LEMMA CoveredKept ==
  ASSUME Inv, Covered, [Next]_vars
  PROVE  Covered'
<1> SUFFICES ASSUME outside' = 0, NEW q \in Procs
             PROVE  Covers(job[q])'
  BY DEF Covered
<1>1. ASSUME NEW p \in Procs, Acts(p)
      PROVE  Covers(job[q])'
  <2>1. outside = 0 /\ ~Outside
    BY <1>1, RestTyped DEF Outside
  <2>2. Covers(job[p]) /\ Covers(job[q])
    BY <2>1 DEF Covered
  <2>3. ~(DirectInstall(p) \/ Upgrade(p)) /\ job[p].pc \notin {"direct_core", "direct_daemon"}
    BY <2>1, <2>2 DEF DirectInstall, Upgrade, Covers
  <2>4. CASE p # q
    BY <1>1, <2>2, <2>3, <2>4, OtherCovers
  <2>5. Covers(job[p])'
    <3>1. CASE End(p)
      BY <3>1, EndCovers
    <3>2. CASE Admit(p) \/ CaptureCore(p) \/ SealBaseline(p) \/ WriteCandidate(p)
      BY <2>2, <3>2, StagingCovers
    <3>3. CASE Prove(p) \/ RollbackProve(p) \/ MarkProven(p) \/ RollbackWithdraw(p) \/ RecheckScene(p)
      BY <2>2, <3>3, ProofCovers
    <3>4. CASE ~End(p) /\ ~(Admit(p) \/ CaptureCore(p) \/ SealBaseline(p) \/ WriteCandidate(p))
               /\ ~(Prove(p) \/ RollbackProve(p) \/ MarkProven(p) \/ RollbackWithdraw(p) \/ RecheckScene(p))
      <4>1. job'[p].pc \notin Looked
        BY <1>1, <2>3, <3>4, BlindSteps
      <4> QED  BY <4>1, BlindCovers
    <3> QED  BY <3>1, <3>2, <3>3, <3>4
  <2> QED  BY <2>4, <2>5
<1>2. CASE Dies \/ UNCHANGED vars
  <2>1. UNCHANGED <<slots, gens, installed, job>>
    BY <1>2 DEF Dies, vars, storeVars
  <2>2. outside = 0
    BY <1>2 DEF Dies, Fault, vars, envVars
  <2> QED  BY <2>1, <2>2 DEF Covered, Covers, Recovery
<1> QED  BY <1>1, <1>2 DEF Next, Acts

LEMMA NextContract ==
  ASSUME Inv, Inv', Covered, [Next]_vars, outside' = 0
  PROVE  Contract!Next \/ UNCHANGED Contract!vars
<1>1. ASSUME NEW p \in Procs, Acts(p)
      PROVE  Contract!Next \/ UNCHANGED Contract!vars
  <2>1. Covers(job[p])
    BY <1>1, RestTyped DEF Covered
  <2> QED  BY <1>1, <2>1, ActsContract
<1>2. CASE Dies \/ UNCHANGED vars
  <2>1. UNCHANGED <<slots, gens, installed>>
    BY <1>2 DEF Dies, vars, storeVars
  <2> QED  BY <2>1, Stutters
<1> QED  BY <1>1, <1>2 DEF Next, Acts

LEMMA InitContract ==
  ASSUME Init
  PROVE  Contract!Init /\ Covered
<1>1. slots = EmptySlots /\ installed \in Scenes
  BY InitInv DEF Init, Inv, TypeOK
<1>2. Phase = "settled"
  BY <1>1, IdFacts DEF EmptySlots, Phase, Trusted
<1>3. Covered
  BY IdleTyped DEF Init, Covered, Covers, Staging
<1> QED  BY <1>1, <1>2, <1>3 DEF Contract!Init

\* Staging, application, rollback, revocation, withdrawal and adoption, with their
\* crashes, implement the promise of UpgradeContract, for any number of processes and
\* generations, as long as every writer takes the store lock.
THEOREM UpgradeImplemented == Spec => ImplementsContract
<1>1. Init => Contract!Init /\ Covered
  BY InitContract
<1>2. Inv /\ Covered /\ [Next]_vars => Covered'
  BY CoveredKept
<1>3. ASSUME Inv, Inv', Covered, [Next]_vars
      PROVE  [outside' = 0 => Contract!Next \/ UNCHANGED Contract!vars]_vars
  BY <1>3, NextContract
<1> QED  BY <1>1, <1>2, <1>3, AlwaysInv, PTL DEF Spec, ImplementsContract

=============================================================================
