--------------------------- MODULE UserConfigProofs ---------------------------
(***************************************************************************)
(* The lock is held by who believes to hold it, the active pointer stays   *)
(* usable, a failed command restores what it wrote and a removed           *)
(* subscription stays removed, for any number of processes, subscriptions, *)
(* contents, commands and faults.  Last, that everything keeps its type.   *)
(***************************************************************************)
EXTENDS UserConfig, FiniteSetTheorems, TLAPS

\* What a step of `config --fix` may have changed meanwhile: it takes no lock.
Stable == IF count.fixes = 0 THEN Files ELSE Files \ {"config"}

\* The files of d are those of the last hold, but for S.
Same(d, S) == \A f \in Stable \ S : d[f] = last[f]

IsDisk(d) == d = [f \in Files |-> d[f]]

SubsOK(subs) == DOMAIN subs \subseteq Ids /\ \A i \in DOMAIN subs : subs[i] \in Entries

Usable(d) == d["active"] # None => d["active"] \in Alive(d["subs"]) /\ d[d["active"]] # NoFile

PlanOps == AddOps \cup OverlayOps \cup {"switch", "remove", "agent", "refresh", "tun", "restore"}

CmdOK(c) ==
  /\ c.op \in AddOps => c.url \in Urls
  /\ c.op \in AddOps \cup {"refresh"} => c.data \in Contents
  /\ c.activate = "auto" => c.op \in {"add", "menu-add"}
  /\ c.op \in PlanOps \cup {"fix", "none"}

IsJob(s) ==
  s = [pc |-> s.pc, then |-> s.then, cmd |-> s.cmd, id |-> s.id, plan |-> s.plan, at |-> s.at,
       activated |-> s.activated, undo |-> s.undo, snap |-> s.snap, prev |-> s.prev]

IsCount(c) == c = [commands |-> c.commands, faults |-> c.faults, fixes |-> c.fixes]

Shaped ==
  /\ ps = [p \in Procs |-> ps[p]] /\ \A p \in Procs : IsJob(ps[p])
  /\ depth = [p \in Procs |-> depth[p]]
  /\ IsCount(count)

\* Where a process is says how deep its hold is.
Depths(p) ==
  LET s == ps[p]
  IN /\ s.pc \in {"idle", "apply", "send", "fix", "fixed"} => depth[p] = 0
     /\ s.pc \in {"plan", "write", "prompt", "reconcile", "reconciled"} => depth[p] = 1
     /\ s.pc = "want" => /\ s.then \in {"plan", "merge", "reconcile"}
                         /\ depth[p] = IF s.then = "merge" /\ Op(p) # "menu-add" THEN 1 ELSE 0
     /\ s.pc \in {"merge", "validate"} => depth[p] = IF Op(p) = "menu-add" THEN 1 ELSE 2
     /\ s.pc = "prompt" => s.then = "merge" /\ Op(p) # "menu-add"
     /\ s.pc = "undo" => depth[p] = 1 \/ (depth[p] = 0 /\ s.undo = <<>>)
     /\ s.pc \in {"failed", "leave"} => depth[p] \in {0, 1}

Locked(p) ==
  /\ ps[p].pc \in Places /\ depth[p] \in 0 .. 2
  /\ lock = p <=> depth[p] > 0
  /\ Depths(p)

Locking == \A p \in Procs : Locked(p)

-----------------------------------------------------------------------------
(* A step is one process's.                                                *)

Moves(p) ==
  /\ Shaped'
  /\ \A q \in Procs \ {p} : ps'[q] = ps[q] /\ depth'[q] = depth[q]

Fun == ps = [p \in Procs |-> ps[p]]

\* The process's record after a step.
Becomes(p, j) == Fun' /\ ps'[p] = j /\ \A q \in Procs \ {p} : ps'[q] = ps[q]

LEMMA IdleShaped ==
  IsJob(Idle) /\ Idle.pc = "idle" /\ Idle.cmd = Plain /\ Plain.op = "none" /\ Plain.activate = "no"
BY DEF IsJob, Idle, Plain

LEMMA DepthMoves ==
  ASSUME Shaped, NEW p \in Procs, NEW n, depth' = [depth EXCEPT ![p] = n]
  PROVE  /\ depth'[p] = n /\ depth' = [q \in Procs |-> depth'[q]]
         /\ \A q \in Procs \ {p} : depth'[q] = depth[q]
BY DEF Shaped

LEMMA DropMoves ==
  ASSUME Shaped, NEW p \in Procs, Drop(p)
  PROVE  /\ depth'[p] = depth[p] - 1 /\ depth' = [q \in Procs |-> depth'[q]]
         /\ \A q \in Procs \ {p} : depth'[q] = depth[q]
BY DEF Shaped, Drop

LEMMA FaultCounts ==
  ASSUME Shaped, Fault
  PROVE  IsCount(count') /\ count'.fixes = count.fixes
BY DEF Shaped, Fault, IsCount

LEMMA StepCounts ==
  ASSUME Shaped, NEW p \in Procs, Step(p)
  PROVE  IsCount(count') /\ (count'.fixes = count.fixes \/ (Fix(p) /\ count'.fixes = 1))
<1>1. IsCount(count)
  BY DEF Shaped
<1>2. CASE UNCHANGED count
  BY <1>1, <1>2
<1>3. CASE Fault
  BY <1>3, FaultCounts
<1>4. CASE Begin(p) \/ Fix(p)
  BY <1>1, <1>4 DEF Begin, Fix, IsCount
<1> QED  BY <1>2, <1>3, <1>4 DEF Step, Acquire, AcquireTimesOut, Plan, WriteNext, Written, WriteFails, Prompt,
     MergeWrite, MergeFails, Validate, ResolveFails, UndoNext, UndoFails, Undone, Leave, ReadBase, Reconcile,
     Send, FixChecked, Crash, Unresolved

LEMMA StepMoves ==
  ASSUME Shaped, NEW p \in Procs, Step(p)
  PROVE  Moves(p)
<1>1. IsJob(ps[p]) /\ IsCount(count) /\ IsJob(Idle)
  BY IdleShaped DEF Shaped
<1>2. IsCount(count')
  BY StepCounts
<1>3. depth' = [q \in Procs |-> depth'[q]] /\ \A q \in Procs \ {p} : depth'[q] = depth[q]
  <2>1. CASE UNCHANGED depth
    BY <2>1 DEF Shaped
  <2>2. CASE Drop(p)
    BY <2>2, DropMoves
  <2>3. CASE \E n : depth' = [depth EXCEPT ![p] = n]
    BY <2>3, DepthMoves
  <2>4. CASE Acquire(p)
    BY <2>4 DEF Acquire, Shaped
  <2> QED  BY <2>1, <2>2, <2>3, <2>4 DEF Step, Begin, AcquireTimesOut, Plan, WriteNext, Written, WriteFails, Prompt,
       MergeWrite, MergeFails, Validate, ResolveFails, UndoNext, UndoFails, Undone, Leave, ReadBase, Reconcile,
       Send, Fix, FixChecked, Crash
<1>4. \E j : IsJob(j) /\ Becomes(p, j)
  <2>1. Fun
    BY DEF Shaped, Fun
  <2>2. ASSUME NEW x, ps' = [ps EXCEPT ![p].pc = x]
        PROVE  \E j : IsJob(j) /\ Becomes(p, j)
    <3>1. Becomes(p, [ps[p] EXCEPT !.pc = x])
      BY <2>1, <2>2 DEF Fun, Becomes
    <3>2. IsJob([ps[p] EXCEPT !.pc = x])
      BY <1>1 DEF IsJob
    <3> QED  BY <3>1, <3>2
  <2>3. ASSUME NEW j, IsJob(j), ps' = [ps EXCEPT ![p] = j]
        PROVE  \E k : IsJob(k) /\ Becomes(p, k)
    <3>1. Becomes(p, j)
      BY <2>1, <2>3 DEF Fun, Becomes
    <3> QED  BY <2>3, <3>1
  <2>4. CASE Begin(p)
    <3>1. PICK c \in Commands(disk) :
            ps' = [ps EXCEPT ![p] = [Idle EXCEPT !.cmd = c, !.then = "plan",
                                     !.pc = IF c.op = "fix" THEN "fix" ELSE "want"]]
      BY <2>4 DEF Begin
    <3>2. PICK t : t = [Idle EXCEPT !.cmd = c, !.then = "plan", !.pc = IF c.op = "fix" THEN "fix" ELSE "want"]
      OBVIOUS
    <3>3. IsJob(t)
      BY <3>2 DEF Idle, IsJob
    <3> QED  BY <2>3, <3>1, <3>2, <3>3
  <2>5. CASE Plan(p)
    <3>1. ASSUME NEW id, NEW w, NEW b, ps' = [ps EXCEPT ![p].pc = "write", ![p].id = id, ![p].plan = w,
                                                       ![p].snap = disk, ![p].activated = b]
          PROVE  \E j : IsJob(j) /\ Becomes(p, j)
      <4>1. PICK t : t = [ps[p] EXCEPT !.pc = "write", !.id = id, !.plan = w, !.snap = disk, !.activated = b]
        OBVIOUS
      <4>2. IsJob(t)
        BY <1>1, <4>1 DEF IsJob
      <4>3. Becomes(p, t)
        BY <2>1, <3>1, <4>1 DEF Fun, Becomes
      <4> QED  BY <4>2, <4>3
    <3> QED  BY <2>2, <2>5, <3>1 DEF Plan
  <2>6. CASE WriteNext(p)
    <3>1. Becomes(p, [ps[p] EXCEPT !.at = ps[p].at + 1])
      BY <2>1, <2>6 DEF WriteNext, Fun, Becomes
    <3>2. IsJob([ps[p] EXCEPT !.at = ps[p].at + 1])
      BY <1>1 DEF IsJob
    <3> QED  BY <3>1, <3>2
  <2>7. CASE Written(p)
    <3>1. PICK x, y : ps' = [ps EXCEPT ![p].pc = x, ![p].then = y]
      BY <2>7 DEF Written
    <3>2. PICK t : t = [ps[p] EXCEPT !.pc = x, !.then = y]
      OBVIOUS
    <3>3. IsJob(t)
      BY <1>1, <3>2 DEF IsJob
    <3>4. Becomes(p, t)
      BY <2>1, <3>1, <3>2 DEF Fun, Becomes
    <3> QED  BY <3>3, <3>4
  <2>8. CASE ReadBase(p)
    <3>1. PICK t : t = [ps[p] EXCEPT !.pc = "want", !.then = "reconcile", !.prev = disk["config"]]
      OBVIOUS
    <3>2. IsJob(t)
      BY <1>1, <3>1 DEF IsJob
    <3>3. Becomes(p, t)
      BY <2>1, <2>8, <3>1 DEF ReadBase, Fun, Becomes
    <3> QED  BY <3>2, <3>3
  <2>9. CASE Prompt(p)
    <3>1. ASSUME ps' = [ps EXCEPT ![p].pc = "want", ![p].activated = TRUE]
          PROVE  \E j : IsJob(j) /\ Becomes(p, j)
      <4>1. PICK t : t = [ps[p] EXCEPT !.pc = "want", !.activated = TRUE]
        OBVIOUS
      <4>2. IsJob(t)
        BY <1>1, <4>1 DEF IsJob
      <4>3. Becomes(p, t)
        BY <2>1, <3>1, <4>1 DEF Fun, Becomes
      <4> QED  BY <4>2, <4>3
    <3> QED  BY <2>2, <2>9, <3>1 DEF Prompt
  <2>10. ASSUME NEW u, ps' = [ps EXCEPT ![p] = Undoing(p, u)]
         PROVE  \E j : IsJob(j) /\ Becomes(p, j)
    <3>1. PICK t : t = [ps[p] EXCEPT !.pc = "undo", !.undo = u]
      OBVIOUS
    <3>2. IsJob(t)
      BY <1>1, <3>1 DEF IsJob
    <3> QED  BY <2>3, <2>10, <3>1, <3>2 DEF Undoing
  <2>11. CASE MergeWrite(p)
    <3>1. ASSUME ps' = [ps EXCEPT ![p].pc = "validate", ![p].prev = disk["config"]]
          PROVE  \E j : IsJob(j) /\ Becomes(p, j)
      <4>1. PICK t : t = [ps[p] EXCEPT !.pc = "validate", !.prev = disk["config"]]
        OBVIOUS
      <4>2. IsJob(t)
        BY <1>1, <4>1 DEF IsJob
      <4>3. Becomes(p, t)
        BY <2>1, <3>1, <4>1 DEF Fun, Becomes
      <4> QED  BY <4>2, <4>3
    <3> QED  BY <2>10, <2>11, <3>1 DEF MergeWrite
  <2>12. CASE Reconcile(p)
    <3>1. ASSUME NEW x, NEW z, ps' = [ps EXCEPT ![p].pc = x, ![p].prev = z]
          PROVE  \E j : IsJob(j) /\ Becomes(p, j)
      <4>1. PICK t : t = [ps[p] EXCEPT !.pc = x, !.prev = z]
        OBVIOUS
      <4>2. IsJob(t)
        BY <1>1, <4>1 DEF IsJob
      <4>3. Becomes(p, t)
        BY <2>1, <3>1, <4>1 DEF Fun, Becomes
      <4> QED  BY <4>2, <4>3
    <3>2. ASSUME NEW x, NEW z, ps' = [ps EXCEPT ![p].pc = x, ![p].cmd = z]
          PROVE  \E j : IsJob(j) /\ Becomes(p, j)
      <4>1. PICK t : t = [ps[p] EXCEPT !.pc = x, !.cmd = z]
        OBVIOUS
      <4>2. IsJob(t)
        BY <1>1, <4>1 DEF IsJob
      <4>3. Becomes(p, t)
        BY <2>1, <3>2, <4>1 DEF Fun, Becomes
      <4> QED  BY <4>2, <4>3
    <3> QED  BY <2>12, <3>1, <3>2 DEF Reconcile
  <2>13. CASE UndoNext(p) \/ UndoFails(p)
    <3>1. Becomes(p, [ps[p] EXCEPT !.undo = Tail(ps[p].undo)])
      BY <2>1, <2>13 DEF UndoNext, UndoFails, Fun, Becomes
    <3>2. IsJob([ps[p] EXCEPT !.undo = Tail(ps[p].undo)])
      <4>1. PICK u : u = Tail(ps[p].undo)
        OBVIOUS
      <4>2. IsJob([ps[p] EXCEPT !.undo = u])
        BY <1>1 DEF IsJob
      <4> QED  BY <4>1, <4>2
    <3> QED  BY <3>1, <3>2
  <2>14. CASE Leave(p)
    <3> DEFINE j == CASE ps[p].pc = "reconciled" -> [ps[p] EXCEPT !.pc = "send"]
                      [] ps[p].pc = "leave" /\ Op(p) = "menu-add" /\ ps[p].then = "plan" ->
                           [ps[p] EXCEPT !.pc = "want", !.then = "merge"]
                      [] ps[p].pc = "leave" /\ Applies(ps[p].cmd) -> [ps[p] EXCEPT !.pc = "apply"]
                      [] OTHER -> Idle
    <3>1. ps' = [ps EXCEPT ![p] = j]
      <4>1. ps' = [ps EXCEPT ![p] = CASE @.pc = "reconciled" -> [@ EXCEPT !.pc = "send"]
               [] @.pc = "leave" /\ Op(p) = "menu-add" /\ @.then = "plan" ->
                    [@ EXCEPT !.pc = "want", !.then = "merge"]
               [] @.pc = "leave" /\ Applies(@.cmd) -> [@ EXCEPT !.pc = "apply"]
               [] OTHER -> Idle]
        BY <2>14 DEF Leave
      <4> QED  BY <4>1
    <3>2. j \in {[ps[p] EXCEPT !.pc = "send"], [ps[p] EXCEPT !.pc = "want", !.then = "merge"],
                 [ps[p] EXCEPT !.pc = "apply"], Idle}
      BY DEF Applies, Merges, AddOps, OverlayOps, Op
    <3>3. PICK t : t = [ps[p] EXCEPT !.pc = "want", !.then = "merge"]
      OBVIOUS
    <3>4. IsJob(t)
      BY <1>1, <3>3 DEF IsJob
    <3>5. IsJob([ps[p] EXCEPT !.pc = "send"]) /\ IsJob([ps[p] EXCEPT !.pc = "apply"])
      BY <1>1 DEF IsJob
    <3> HIDE DEF j
    <3>6. IsJob(j)
      BY <1>1, <3>2, <3>3, <3>4, <3>5
    <3> QED  BY <2>3, <3>1, <3>6
  <2> QED  BY <1>1, <2>2, <2>3, <2>4, <2>5, <2>6, <2>7, <2>8, <2>9, <2>10, <2>11, <2>12, <2>13, <2>14
       DEF Step, Acquire, AcquireTimesOut, WriteFails, MergeFails, Validate,
           ResolveFails, Undone, Send, Fix, FixChecked, Crash
<1> QED  BY <1>1, <1>2, <1>3, <1>4 DEF Moves, Shaped, Becomes, Fun

-----------------------------------------------------------------------------
(* The fields a step changes.                                              *)

\* The command and what its plan was made from.
Keeps(p) ==
  /\ ps'[p].cmd = ps[p].cmd /\ ps'[p].id = ps[p].id /\ ps'[p].plan = ps[p].plan
  /\ ps'[p].snap = ps[p].snap

LEMMA GotoEffect ==
  ASSUME Shaped, NEW p \in Procs, NEW x, ps' = [ps EXCEPT ![p].pc = x]
  PROVE  /\ ps'[p].pc = x /\ Keeps(p) /\ ps'[p].then = ps[p].then /\ ps'[p].at = ps[p].at
         /\ ps'[p].activated = ps[p].activated /\ ps'[p].undo = ps[p].undo /\ ps'[p].prev = ps[p].prev
<1>1. ps'[p] = [ps[p] EXCEPT !.pc = x]
  BY DEF Shaped
<1>2. IsJob(ps[p])
  BY DEF Shaped
<1> QED  BY <1>1, <1>2 DEF IsJob, Keeps

LEMMA IdleEffect ==
  ASSUME Shaped, NEW p \in Procs, ps' = [ps EXCEPT ![p] = Idle]
  PROVE  ps'[p] = Idle /\ ps'[p].pc = "idle" /\ ps'[p].cmd = Plain
BY IdleShaped DEF Shaped

LEMMA UndoingEffect ==
  ASSUME Shaped, NEW p \in Procs, NEW u, ps' = [ps EXCEPT ![p] = Undoing(p, u)]
  PROVE  ps'[p].pc = "undo" /\ ps'[p].undo = u /\ Keeps(p) /\ ps'[p].at = ps[p].at
<1>1. PICK t : t = [ps[p] EXCEPT !.pc = "undo", !.undo = u]
  OBVIOUS
<1>2. ps'[p] = t
  BY <1>1 DEF Shaped, Undoing
<1>3. IsJob(ps[p])
  BY DEF Shaped
<1>4. /\ t.pc = "undo" /\ t.undo = u /\ t.cmd = ps[p].cmd /\ t.id = ps[p].id
      /\ t.plan = ps[p].plan /\ t.snap = ps[p].snap /\ t.at = ps[p].at
  BY <1>1, <1>3 DEF IsJob
<1> QED  BY <1>2, <1>4 DEF Keeps

LEMMA BeginEffect ==
  ASSUME Shaped, NEW p \in Procs, Begin(p)
  PROVE  \E c \in Commands(disk) :
           /\ ps'[p].cmd = c /\ ps'[p].then = "plan" /\ ps'[p].at = 0
           /\ ps'[p].pc = IF c.op = "fix" THEN "fix" ELSE "want"
<1>1. PICK c \in Commands(disk) :
        ps' = [ps EXCEPT ![p] = [Idle EXCEPT !.cmd = c, !.then = "plan",
                                 !.pc = IF c.op = "fix" THEN "fix" ELSE "want"]]
  BY DEF Begin
<1>2. ps'[p] = [Idle EXCEPT !.cmd = c, !.then = "plan", !.pc = IF c.op = "fix" THEN "fix" ELSE "want"]
  BY <1>1 DEF Shaped
<1>3. PICK x : x = IF c.op = "fix" THEN "fix" ELSE "want"
  OBVIOUS
<1>4. ps'[p] = [Idle EXCEPT !.cmd = c, !.then = "plan", !.pc = x]
  BY <1>2, <1>3
<1>5. ps'[p].cmd = c /\ ps'[p].then = "plan" /\ ps'[p].pc = x /\ ps'[p].at = Idle.at /\ Idle.at = 0
  BY <1>4, IdleShaped DEF IsJob, Idle
<1> QED  BY <1>3, <1>5

LEMMA PlanEffect ==
  ASSUME Shaped, NEW p \in Procs, Plan(p)
  PROVE  \/ ps' = [ps EXCEPT ![p].pc = "failed"]
         \/ \E id \in Targets(ps[p].cmd, disk) :
              LET w == Writes(ps[p].cmd, id, disk)
              IN /\ ps'[p].pc = "write" /\ ps'[p].id = id /\ ps'[p].plan = w /\ ps'[p].snap = disk
                 /\ ps'[p].activated = \E k \in DOMAIN w : w[k].file = "active"
                 /\ ps'[p].cmd = ps[p].cmd /\ ps'[p].at = ps[p].at
<1>1. SUFFICES ASSUME ~(ps' = [ps EXCEPT ![p].pc = "failed"])
               PROVE  \E id \in Targets(ps[p].cmd, disk) :
                        LET w == Writes(ps[p].cmd, id, disk)
                        IN /\ ps'[p].pc = "write" /\ ps'[p].id = id /\ ps'[p].plan = w /\ ps'[p].snap = disk
                           /\ ps'[p].activated = \E k \in DOMAIN w : w[k].file = "active"
                           /\ ps'[p].cmd = ps[p].cmd /\ ps'[p].at = ps[p].at
  OBVIOUS
<1>2. PICK id \in Targets(ps[p].cmd, disk) :
        LET w == Writes(ps[p].cmd, id, disk)
        IN ps' = [ps EXCEPT ![p].pc = "write", ![p].id = id, ![p].plan = w, ![p].snap = disk,
                            ![p].activated = \E k \in DOMAIN w : w[k].file = "active"]
  BY <1>1 DEF Plan
<1> DEFINE w == Writes(ps[p].cmd, id, disk)
           b == \E k \in DOMAIN w : w[k].file = "active"
<1>3. ps'[p] = [ps[p] EXCEPT !.pc = "write", !.id = id, !.plan = w, !.snap = disk, !.activated = b]
  BY <1>2 DEF Shaped
<1>4. IsJob(ps[p])
  BY DEF Shaped
<1> HIDE DEF w, b
<1>5. /\ ps'[p].pc = "write" /\ ps'[p].id = id /\ ps'[p].plan = w /\ ps'[p].snap = disk
      /\ ps'[p].activated = b /\ ps'[p].cmd = ps[p].cmd /\ ps'[p].at = ps[p].at
  BY <1>3, <1>4 DEF IsJob
<1> QED  BY <1>5 DEF w, b

LEMMA WriteNextEffect ==
  ASSUME Shaped, NEW p \in Procs, WriteNext(p)
  PROVE  /\ Keeps(p) /\ ps'[p].pc = ps[p].pc /\ ps'[p].at = ps[p].at + 1
         /\ ps'[p].activated = ps[p].activated
<1>1. ps'[p] = [ps[p] EXCEPT !.at = ps[p].at + 1]
  BY DEF Shaped, WriteNext
<1>2. IsJob(ps[p])
  BY DEF Shaped
<1> QED  BY <1>1, <1>2 DEF IsJob, Keeps

LEMMA WrittenEffect ==
  ASSUME Shaped, NEW p \in Procs, Written(p)
  PROVE  /\ Keeps(p) /\ ps'[p].at = ps[p].at /\ ps'[p].activated = ps[p].activated
         /\ ps'[p].pc = IF ~Merges(ps[p].cmd) THEN "leave"
                        ELSE IF ps[p].cmd.activate = "auto" THEN "prompt" ELSE "want"
         /\ ps'[p].then = IF Merges(ps[p].cmd) THEN "merge" ELSE ps[p].then
<1> DEFINE x == IF ~Merges(ps[p].cmd) THEN "leave"
                ELSE IF ps[p].cmd.activate = "auto" THEN "prompt" ELSE "want"
           y == IF Merges(ps[p].cmd) THEN "merge" ELSE ps[p].then
<1>1. ps'[p] = [ps[p] EXCEPT !.pc = x, !.then = y]
  BY DEF Shaped, Written
<1>2. IsJob(ps[p])
  BY DEF Shaped
<1> HIDE DEF x, y
<1>3. Keeps(p) /\ ps'[p].at = ps[p].at /\ ps'[p].activated = ps[p].activated /\ ps'[p].pc = x /\ ps'[p].then = y
  BY <1>1, <1>2 DEF IsJob, Keeps
<1> QED  BY <1>3 DEF x, y

LEMMA PromptEffect ==
  ASSUME Shaped, NEW p \in Procs, Prompt(p)
  PROVE  /\ Keeps(p) /\ ps'[p].at = ps[p].at /\ ps'[p].pc = "want" /\ ps'[p].then = ps[p].then
         /\ \/ ps'[p].activated = TRUE /\ disk' = [disk EXCEPT !["active"] = ps[p].id]
            \/ ps'[p].activated = ps[p].activated /\ UNCHANGED disk
<1>1. \/ ps'[p] = [ps[p] EXCEPT !.pc = "want", !.activated = TRUE] /\ disk' = [disk EXCEPT !["active"] = ps[p].id]
      \/ ps'[p] = [ps[p] EXCEPT !.pc = "want"] /\ UNCHANGED disk
  BY DEF Shaped, Prompt
<1>2. IsJob(ps[p])
  BY DEF Shaped
<1> QED  BY <1>1, <1>2 DEF IsJob, Keeps

LEMMA MergeWriteEffect ==
  ASSUME Shaped, NEW p \in Procs, MergeWrite(p)
  PROVE  \/ /\ ps'[p].pc = "validate" /\ ps'[p].prev = disk["config"] /\ Keeps(p)
            /\ ps'[p].at = ps[p].at /\ ps'[p].activated = ps[p].activated
            /\ disk' = [disk EXCEPT !["config"] = Merged(disk)]
            /\ UNCHANGED <<lock, depth, last>>
         \/ /\ ps'[p].pc = "undo" /\ ps'[p].undo = MergeUndo(p) /\ Keeps(p)
            /\ UNCHANGED disk /\ Drop(p)
<1>1. IsJob(ps[p])
  BY DEF Shaped
<1>2. CASE Mergeable(disk)
  <2>1. ps'[p] = [ps[p] EXCEPT !.pc = "validate", !.prev = disk["config"]]
    BY <1>2 DEF Shaped, MergeWrite
  <2>2. /\ ps'[p].pc = "validate" /\ ps'[p].prev = disk["config"] /\ Keeps(p)
        /\ ps'[p].at = ps[p].at /\ ps'[p].activated = ps[p].activated
    BY <1>1, <2>1 DEF IsJob, Keeps
  <2> QED  BY <1>2, <2>2 DEF MergeWrite
<1>3. CASE ~Mergeable(disk)
  BY <1>3, UndoingEffect DEF MergeWrite
<1> QED  BY <1>2, <1>3

LEMMA ReadBaseEffect ==
  ASSUME Shaped, NEW p \in Procs, ReadBase(p)
  PROVE  /\ ps'[p].pc = "want" /\ ps'[p].then = "reconcile"
         /\ ps'[p].cmd = ps[p].cmd /\ ps'[p].snap = ps[p].snap /\ ps'[p].prev = disk["config"]
<1>1. ps'[p] = [ps[p] EXCEPT !.pc = "want", !.then = "reconcile", !.prev = disk["config"]]
  BY DEF Shaped, ReadBase
<1>2. IsJob(ps[p])
  BY DEF Shaped
<1> QED  BY <1>1, <1>2 DEF IsJob

\* config.yaml with the overlay of now.
Reconciled == [disk["config"] EXCEPT !.overlay = disk["overlay"]]

LEMMA ReconcileEffect ==
  ASSUME Shaped, NEW p \in Procs, Reconcile(p)
  PROVE  /\ ps'[p].snap = ps[p].snap
         /\ \/ ps'[p].pc = "reconciled" /\ ps'[p].cmd = ps[p].cmd /\ ps'[p].prev = Reconciled
               /\ disk' = [disk EXCEPT !["config"] = Reconciled]
            \/ ps'[p].pc = "leave" /\ ps'[p].cmd = Plain /\ UNCHANGED disk
<1>1. \/ /\ ps'[p] = [ps[p] EXCEPT !.pc = "reconciled", !.prev = Reconciled]
         /\ disk' = [disk EXCEPT !["config"] = Reconciled]
      \/ ps'[p] = [ps[p] EXCEPT !.pc = "leave", !.cmd = Plain] /\ UNCHANGED disk
  BY DEF Shaped, Reconcile, Reconciled
<1>2. IsJob(ps[p])
  BY DEF Shaped
<1> QED  BY <1>1, <1>2 DEF IsJob

LEMMA UndoEffect ==
  ASSUME Shaped, NEW p \in Procs, UndoNext(p) \/ UndoFails(p)
  PROVE  ps'[p].pc = ps[p].pc /\ ps'[p].undo = Tail(ps[p].undo) /\ Keeps(p)
<1> DEFINE u == Tail(ps[p].undo)
<1>1. ps'[p] = [ps[p] EXCEPT !.undo = u]
  BY DEF Shaped, UndoNext, UndoFails
<1>2. IsJob(ps[p])
  BY DEF Shaped
<1> HIDE DEF u
<1>3. ps'[p].pc = ps[p].pc /\ ps'[p].undo = u /\ Keeps(p)
  BY <1>1, <1>2 DEF IsJob, Keeps
<1> QED  BY <1>3 DEF u

LEMMA LeaveEffect ==
  ASSUME Shaped, NEW p \in Procs, Leave(p)
  PROVE  \/ /\ \/ ps[p].pc = "reconciled" /\ ps'[p].pc = "send"
               \/ ps[p].pc = "leave" /\ Op(p) = "menu-add" /\ ps'[p].pc = "want" /\ ps'[p].then = "merge"
               \/ ps[p].pc = "leave" /\ ps'[p].pc = "apply"
            /\ ps'[p].cmd = ps[p].cmd /\ ps'[p].snap = ps[p].snap /\ ps'[p].prev = ps[p].prev
         \/ ps'[p] = Idle
<1>1. IsJob(ps[p])
  BY DEF Shaped
<1>2. ps'[p] = CASE ps[p].pc = "reconciled" -> [ps[p] EXCEPT !.pc = "send"]
                 [] ps[p].pc = "leave" /\ Op(p) = "menu-add" /\ ps[p].then = "plan" ->
                      [ps[p] EXCEPT !.pc = "want", !.then = "merge"]
                 [] ps[p].pc = "leave" /\ Applies(ps[p].cmd) -> [ps[p] EXCEPT !.pc = "apply"]
                 [] OTHER -> Idle
  <2>1. ps' = [ps EXCEPT ![p] = CASE @.pc = "reconciled" -> [@ EXCEPT !.pc = "send"]
               [] @.pc = "leave" /\ Op(p) = "menu-add" /\ @.then = "plan" ->
                    [@ EXCEPT !.pc = "want", !.then = "merge"]
               [] @.pc = "leave" /\ Applies(@.cmd) -> [@ EXCEPT !.pc = "apply"]
               [] OTHER -> Idle]
    BY DEF Leave
  <2> QED  BY <2>1 DEF Shaped
<1>3. CASE ps[p].pc = "reconciled"
  <2>1. ps'[p] = [ps[p] EXCEPT !.pc = "send"]
    BY <1>2, <1>3
  <2> QED  BY <1>1, <1>3, <2>1 DEF IsJob
<1>4. CASE ps[p].pc = "leave" /\ Op(p) = "menu-add" /\ ps[p].then = "plan"
  <2>1. ~Applies(ps[p].cmd)
    BY <1>4 DEF Applies, Merges, OverlayOps, Op
  <2>2. ps'[p] = [ps[p] EXCEPT !.pc = "want", !.then = "merge"]
    BY <1>2, <1>4, <2>1
  <2>3. /\ ps'[p].pc = "want" /\ ps'[p].then = "merge"
        /\ ps'[p].cmd = ps[p].cmd /\ ps'[p].snap = ps[p].snap /\ ps'[p].prev = ps[p].prev
    BY <1>1, <2>2 DEF IsJob
  <2> QED  BY <1>4, <2>3
<1>5. CASE ps[p].pc = "leave" /\ Applies(ps[p].cmd)
  <2>1. Op(p) # "menu-add"
    BY <1>5 DEF Applies, Merges, OverlayOps, Op
  <2>2. ps'[p] = [ps[p] EXCEPT !.pc = "apply"]
    BY <1>2, <1>5, <2>1
  <2> QED  BY <1>1, <1>5, <2>2 DEF IsJob
<1>6. CASE /\ ps[p].pc # "reconciled"
           /\ ~(ps[p].pc = "leave" /\ Op(p) = "menu-add" /\ ps[p].then = "plan")
           /\ ~(ps[p].pc = "leave" /\ Applies(ps[p].cmd))
  BY <1>2, <1>6
<1> QED  BY <1>3, <1>4, <1>5, <1>6

-----------------------------------------------------------------------------
(* The lock file belongs to the one process that is inside a hold.         *)

LEMMA StepLocks ==
  ASSUME Shaped, Locking, NEW p \in Procs, Step(p)
  PROVE  lock' = lock \/ (lock \in {None, p} /\ lock' \in {None, p})
<1>1. lock = p <=> depth[p] > 0
  BY DEF Locking, Locked
<1>2. depth[p] \in 0 .. 2
  BY DEF Locking, Locked
<1>3. CASE UNCHANGED lock
  BY <1>3
<1>4. CASE Drop(p)
  BY <1>1, <1>2, <1>4 DEF Drop, Outermost
<1>5. CASE Acquire(p)
  BY <1>1, <1>2, <1>5 DEF Acquire, Acquirable
<1>6. CASE Crash(p)
  BY <1>6 DEF Crash
<1> QED  BY <1>3, <1>4, <1>5, <1>6 DEF Step, Begin, AcquireTimesOut, Plan, WriteNext, Written, WriteFails, Prompt,
       MergeWrite, MergeFails, Validate, ResolveFails, UndoNext, UndoFails, Undone, Leave, ReadBase, Reconcile,
       Send, Fix, FixChecked

LEMMA OthersLocked ==
  ASSUME Shaped, Locking, NEW p \in Procs, Step(p), NEW q \in Procs \ {p}
  PROVE  Locked(q)'
<1>1. ps'[q] = ps[q] /\ depth'[q] = depth[q]
  BY StepMoves DEF Moves
<1>2. Locked(q)
  BY DEF Locking
<1>3. q # None
  BY IdsAssumption
<1>4. lock' = q <=> lock = q
  BY <1>3, StepLocks
<1> QED  BY <1>1, <1>2, <1>4 DEF Locked, Depths, Op

\* A hold goes one deeper or one up.
LEMMA DropLocks ==
  ASSUME Shaped, NEW p \in Procs, Locked(p), Drop(p), depth[p] > 0
  PROVE  /\ depth'[p] = depth[p] - 1 /\ depth'[p] \in 0 .. 2
         /\ lock' = p <=> depth'[p] > 0
         /\ lock' = IF depth[p] = 1 THEN None ELSE lock
<1>1. depth'[p] = depth[p] - 1 /\ p # None
  BY DropMoves, IdsAssumption
<1> QED  BY <1>1 DEF Locked, Drop, Outermost

LEMMA MenuAddUndo ==
  ASSUME NEW p \in Procs, Op(p) = "menu-add"
  PROVE  MergeUndo(p) = <<>>
BY DEF MergeUndo, OverlayOps, Op

LEMMA HolderLocked ==
  ASSUME Shaped, Locking, NEW p \in Procs, Step(p)
  PROVE  Locked(p)'
<1>1. Locked(p) /\ p # None
  BY IdsAssumption DEF Locking
<1>2. /\ depth[p] \in 0 .. 2 /\ (lock = p <=> depth[p] > 0) /\ Depths(p)
  BY <1>1 DEF Locked
<1>3. ASSUME UNCHANGED <<lock, depth>>, ps'[p].pc \in Places, Depths(p)'
      PROVE  Locked(p)'
  BY <1>2, <1>3 DEF Locked
<1>4. CASE Begin(p)
  <2>1. UNCHANGED <<lock, depth>> /\ depth[p] = 0
    BY <1>2, <1>4 DEF Begin, At, Depths
  <2>2. ps'[p].then = "plan" /\ ps'[p].pc \in {"fix", "want"}
    BY <1>4, BeginEffect
  <2> QED  BY <1>3, <2>1, <2>2 DEF Places, Depths
<1>5. CASE Acquire(p)
  <2>1. ps'[p].pc = ps[p].then /\ ps'[p].cmd = ps[p].cmd /\ ps'[p].undo = ps[p].undo
    BY <1>5, GotoEffect DEF Acquire, Keeps
  <2>2. depth'[p] = depth[p] + 1
    BY <1>5, DepthMoves DEF Acquire
  <2>3. /\ ps[p].then \in {"plan", "merge", "reconcile"}
        /\ depth[p] = IF ps[p].then = "merge" /\ Op(p) # "menu-add" THEN 1 ELSE 0
    BY <1>2, <1>5 DEF Acquire, At, Depths
  <2>4. lock' = p
    BY <1>2, <1>5 DEF Acquire
  <2> QED  BY <2>1, <2>2, <2>3, <2>4 DEF Locked, Places, Depths, Op
<1>6. CASE AcquireTimesOut(p)
  <2>1. ps'[p].pc = "idle"
    BY <1>6, IdleEffect DEF AcquireTimesOut
  <2>2. depth[p] = 0
    BY <1>2, <1>6 DEF AcquireTimesOut, Acquirable
  <2>3. depth'[p] = 0 /\ lock' = lock
    BY <1>6, <2>2, DepthMoves DEF AcquireTimesOut, DepthAfterTimeout
  <2> QED  BY <1>2, <2>1, <2>2, <2>3 DEF Locked, Places, Depths
<1>7. CASE Plan(p)
  <2>1. UNCHANGED <<lock, depth>> /\ depth[p] = 1
    BY <1>2, <1>7 DEF Plan, At, Depths
  <2>2. ps'[p].pc \in {"failed", "write"}
    BY <1>7, PlanEffect, GotoEffect
  <2> QED  BY <1>3, <2>1, <2>2 DEF Places, Depths
<1>8. CASE WriteNext(p)
  <2>1. UNCHANGED <<lock, depth>> /\ depth[p] = 1
    BY <1>2, <1>8 DEF WriteNext, At, Depths
  <2>2. ps'[p].pc = "write"
    BY <1>8, WriteNextEffect DEF WriteNext, At
  <2> QED  BY <1>3, <2>1, <2>2 DEF Places, Depths
<1>9. CASE Written(p)
  <2>1. UNCHANGED <<lock, depth>> /\ depth[p] = 1
    BY <1>2, <1>9 DEF Written, At, Depths
  <2>2. ps'[p].cmd = ps[p].cmd
    BY <1>9, WrittenEffect DEF Keeps
  <2>3. ~Merges(ps[p].cmd) => ps'[p].pc = "leave"
    BY <1>9, WrittenEffect
  <2>4. Merges(ps[p].cmd) => ps'[p].pc \in {"prompt", "want"} /\ ps'[p].then = "merge" /\ Op(p) # "menu-add"
    BY <1>9, WrittenEffect DEF Merges, OverlayOps, Op
  <2> QED  BY <1>3, <2>1, <2>2, <2>3, <2>4 DEF Places, Depths, Op
<1>10. CASE WriteFails(p)
  <2>1. UNCHANGED <<lock, depth>> /\ depth[p] = 1
    BY <1>2, <1>10 DEF WriteFails, At, Depths
  <2>2. ps'[p].pc = "undo"
    BY <1>10, UndoingEffect DEF WriteFails
  <2> QED  BY <1>3, <2>1, <2>2 DEF Places, Depths
<1>11. CASE Prompt(p)
  <2>1. UNCHANGED <<lock, depth>> /\ depth[p] = 1 /\ ps[p].then = "merge" /\ Op(p) # "menu-add"
    BY <1>2, <1>11 DEF Prompt, At, Depths
  <2>2. ps'[p].pc = "want" /\ ps'[p].then = ps[p].then /\ ps'[p].cmd = ps[p].cmd
    BY <1>11, PromptEffect DEF Keeps
  <2> QED  BY <1>3, <2>1, <2>2 DEF Places, Depths, Op
<1>12. depth[p] = (IF Op(p) = "menu-add" THEN 1 ELSE 2) /\ Drop(p) /\ ps'[p].pc = "undo" /\ ps'[p].undo = MergeUndo(p)
       => Locked(p)'
  BY <1>1, DropLocks, MenuAddUndo DEF Locked, Places, Depths
<1>13. CASE MergeWrite(p)
  <2>1. depth[p] = IF Op(p) = "menu-add" THEN 1 ELSE 2
    BY <1>2, <1>13 DEF MergeWrite, At, Depths
  <2>2. CASE ps'[p].pc = "validate" /\ ps'[p].cmd = ps[p].cmd /\ UNCHANGED <<lock, depth>>
    BY <1>3, <2>1, <2>2 DEF Places, Depths, Op
  <2> QED  BY <1>12, <1>13, <2>1, <2>2, MergeWriteEffect DEF Keeps
<1>14. CASE MergeFails(p)
  <2>1. depth[p] = IF Op(p) = "menu-add" THEN 1 ELSE 2
    BY <1>2, <1>14 DEF MergeFails, At, Depths
  <2>2. Drop(p) /\ ps'[p].pc = "undo" /\ ps'[p].undo = MergeUndo(p)
    BY <1>14, UndoingEffect DEF MergeFails
  <2> QED  BY <1>12, <2>1, <2>2
<1>15. CASE Validate(p)
  <2>1. depth[p] = IF Op(p) = "menu-add" THEN 1 ELSE 2
    BY <1>2, <1>15 DEF Validate, At, Depths
  <2>2. CASE ConfigValid(disk["config"])
    <3>1. ps'[p].pc = "leave"
      BY <1>15, <2>2, GotoEffect DEF Validate
    <3>2. depth'[p] \in {0, 1} /\ (lock' = p <=> depth'[p] > 0)
      BY <1>1, <1>15, <2>1, DropLocks DEF Validate
    <3> QED  BY <3>1, <3>2 DEF Locked, Places, Depths
  <2>3. CASE ~ConfigValid(disk["config"])
    <3>1. Drop(p) /\ ps'[p].pc = "undo" /\ ps'[p].undo = MergeUndo(p)
      BY <1>15, <2>3, UndoingEffect DEF Validate
    <3> QED  BY <1>12, <2>1, <3>1
  <2> QED  BY <2>2, <2>3
<1>16. CASE ResolveFails(p)
  <2>1. UNCHANGED <<lock, depth>> /\ depth[p] \in {0, 1}
    BY <1>2, <1>16 DEF ResolveFails, At, Depths
  <2>2. ps'[p].pc = "failed"
    BY <1>16, GotoEffect DEF ResolveFails
  <2> QED  BY <1>3, <2>1, <2>2 DEF Places, Depths
<1>17. CASE UndoNext(p) \/ UndoFails(p)
  <2>1. UNCHANGED <<lock, depth>> /\ depth[p] = 1
    BY <1>2, <1>17 DEF UndoNext, UndoFails, At, Depths
  <2>2. ps'[p].pc = "undo"
    BY <1>17, UndoEffect DEF UndoNext, UndoFails, At
  <2> QED  BY <1>3, <2>1, <2>2 DEF Places, Depths
<1>18. CASE Undone(p)
  <2>1. UNCHANGED <<lock, depth>> /\ depth[p] \in {0, 1}
    BY <1>2, <1>18 DEF Undone, At, Depths
  <2>2. ps'[p].pc = "failed"
    BY <1>18, GotoEffect DEF Undone
  <2> QED  BY <1>3, <2>1, <2>2 DEF Places, Depths
<1>19. CASE Leave(p)
  <2>1. depth[p] \in {0, 1}
    BY <1>2, <1>19 DEF Leave, Depths
  <2>2. depth'[p] = 0 /\ lock' # p
    BY <1>1, <1>2, <1>19, <2>1, DropLocks DEF Leave
  <2>3. \/ ps'[p].pc \in {"send", "apply", "idle"}
        \/ ps'[p].pc = "want" /\ ps'[p].then = "merge" /\ ps'[p].cmd = ps[p].cmd /\ Op(p) = "menu-add"
    BY <1>19, LeaveEffect, IdleShaped
  <2> QED  BY <2>2, <2>3 DEF Locked, Places, Depths, Op
<1>20. CASE ReadBase(p)
  <2>1. UNCHANGED <<lock, depth>> /\ depth[p] = 0
    BY <1>2, <1>20 DEF ReadBase, At, Depths
  <2>2. ps'[p].pc = "want" /\ ps'[p].then = "reconcile"
    BY <1>20, ReadBaseEffect
  <2> QED  BY <1>3, <2>1, <2>2 DEF Places, Depths
<1>21. CASE Reconcile(p)
  <2>1. UNCHANGED <<lock, depth>> /\ depth[p] = 1
    BY <1>2, <1>21 DEF Reconcile, At, Depths
  <2>2. ps'[p].pc \in {"reconciled", "leave"}
    BY <1>21, ReconcileEffect
  <2> QED  BY <1>3, <2>1, <2>2 DEF Places, Depths
<1>22. CASE Send(p) \/ Fix(p) \/ FixChecked(p)
  <2>1. UNCHANGED <<lock, depth>> /\ depth[p] = 0
    BY <1>2, <1>22 DEF Send, Fix, FixChecked, At, Depths
  <2>2. ps'[p].pc \in {"fixed", "idle"}
    BY <1>22, GotoEffect, IdleEffect DEF Send, Fix, FixChecked
  <2> QED  BY <1>3, <2>1, <2>2 DEF Places, Depths
<1>23. CASE Crash(p)
  <2>1. ps'[p].pc = "idle"
    BY <1>23, IdleEffect DEF Crash
  <2>2. depth'[p] = 0 /\ lock' # p
    BY <1>1, <1>23, DepthMoves DEF Crash
  <2> QED  BY <2>1, <2>2 DEF Locked, Places, Depths
<1> QED  BY <1>4, <1>5, <1>6, <1>7, <1>8, <1>9, <1>10, <1>11, <1>13, <1>14, <1>15, <1>16, <1>17, <1>18, <1>19,
            <1>20, <1>21, <1>22, <1>23 DEF Step

LEMMA StepLocked ==
  ASSUME Shaped, Locking, NEW p \in Procs, Step(p)
  PROVE  Shaped' /\ Locking'
<1>1. Shaped'
  BY StepMoves DEF Moves
<1>2. \A q \in Procs : Locked(q)'
  BY HolderLocked, OthersLocked
<1> QED  BY <1>1, <1>2 DEF Locking

LEMMA InitLocked ==
  ASSUME Init
  PROVE  Shaped /\ Locking
<1>1. \A p \in Procs : ps[p] = Idle /\ depth[p] = 0 /\ p # None
  BY IdsAssumption DEF Init
<1>2. Shaped
  BY <1>1, IdleShaped DEF Init, Shaped, IsCount
<1>3. Locking
  BY <1>1, IdleShaped DEF Init, Locking, Locked, Places, Depths
<1> QED  BY <1>2, <1>3

-----------------------------------------------------------------------------
(* Subscription metadata.                                                  *)

LEMMA EnteredSubs ==
  ASSUME NEW subs, SubsOK(subs), NEW id \in Ids, NEW url \in Urls
  PROVE  /\ SubsOK(Entered(subs, id, url)) /\ Alive(Entered(subs, id, url)) = Alive(subs) \cup {id}
         /\ id \in DOMAIN Entered(subs, id, url) /\ Entered(subs, id, url)[id].url = url
BY DEF SubsOK, Entered, Alive, Entries

LEMMA IdentityKnown ==
  ASSUME NEW subs, SubsOK(subs), NEW url
  PROVE  Identity(subs, url) \subseteq Ids
BY DEF SubsOK, Identity, OfUrl, Newest

LEMMA RetiredFinite ==
  ASSUME NEW subs, SubsOK(subs), NEW T, T \subseteq Retired(subs)
  PROVE  IsFiniteSet(T) /\ Cardinality(T) \in Nat /\ (T # {} => Cardinality(T) > 0)
<1>1. T \subseteq Ids
  BY DEF SubsOK, Retired
<1>2. IsFiniteSet(T)
  BY <1>1, IdsAssumption, FS_Subset
<1>3. Cardinality(T) \in Nat /\ (Cardinality(T) = 0 <=> T = {})
  BY <1>2, FS_CardinalityType, FS_EmptySet
<1> QED  BY <1>2, <1>3

\* Only the one that is retired is no longer alive; none comes alive.
LEMMA RetiredAfterSubs ==
  ASSUME NEW subs, SubsOK(subs), NEW id \in DOMAIN subs
  PROVE  /\ SubsOK(RetiredAfter(subs, id))
         /\ Alive(RetiredAfter(subs, id)) = Alive(subs) \ {id}
<1> DEFINE now == 1 + Cardinality(Retired(subs))
           rank(i) == Cardinality({j \in Retired(subs) : subs[j].retired <= subs[i].retired})
           marked == [i \in DOMAIN subs |->
                        IF i = id THEN [subs[i] EXCEPT !.retired = now]
                        ELSE IF i \in Retired(subs) THEN [subs[i] EXCEPT !.retired = rank(i)]
                        ELSE subs[i]]
           kept == {i \in Retired(marked) : marked[i].retired > now - RetiredLimit}
           R == [i \in Alive(marked) \cup kept |-> marked[i]]
<1>1. now \in Nat \ {0}
  BY RetiredFinite
<1>2. ASSUME NEW i \in Retired(subs)
      PROVE  rank(i) \in Nat \ {0}
  <2>1. i \in {j \in Retired(subs) : subs[j].retired <= subs[i].retired}
    BY <1>2 DEF SubsOK, Retired, Entries
  <2> QED  BY <2>1, RetiredFinite
<1> HIDE DEF now, rank
<1>3. ASSUME NEW i \in DOMAIN subs
      PROVE  marked[i] \in Entries /\ (marked[i].retired = 0 <=> i \in Alive(subs) \ {id})
  BY <1>1, <1>2, <1>3 DEF SubsOK, Alive, Retired, Entries
<1> HIDE DEF marked
<1>4. DOMAIN marked = DOMAIN subs
  BY DEF marked
<1>5. Alive(marked) = Alive(subs) \ {id}
  BY <1>3, <1>4 DEF Alive
<1>6. SubsOK(R) /\ Alive(R) = Alive(marked)
  BY <1>3, <1>4 DEF SubsOK, Alive, Retired
<1>7. RetiredAfter(subs, id) = R
  BY DEF RetiredAfter, marked, now, rank
<1> QED  BY <1>5, <1>6, <1>7

LEMMA RegisteredSubs ==
  /\ SubsOK(Registered)
  /\ Chosen # None => Chosen \in Alive(Registered) /\ Chosen \in Ids
BY RegisteredAssumption DEF SubsOK, Entries, Alive

-----------------------------------------------------------------------------
(* What a plan is made of.                                                 *)

IsPlan(w) ==
  /\ Len(w) \in Nat /\ DOMAIN w = 1 .. Len(w)
  /\ \A k \in 1 .. Len(w) : /\ w[k].file \in Files
                            /\ w[k].file = "subs" => SubsOK(w[k].val)

LEMMA FileNames ==
  /\ {"subs", "active", "overlay", "config"} \cap Ids = {}
  /\ {"subs", "active", "overlay", "config"} \subseteq Files /\ Ids \subseteq Files
BY IdsAssumption DEF Files

LEMMA WriteFields == \A f, v : Write(f, v).file = f /\ Write(f, v).val = v
BY DEF Write

LEMMA LivingKnown ==
  ASSUME NEW subs, SubsOK(subs)
  PROVE  Alive(subs) \subseteq Ids
BY DEF SubsOK, Alive

LEMMA AddPlanned ==
  ASSUME NEW c, NEW d, NEW id, NEW w, c.op \in AddOps, CmdOK(c), SubsOK(d["subs"]),
         id \in Targets(c, d), w = Writes(c, id, d)
  PROVE  /\ IsPlan(w) /\ id \in Ids /\ Len(w) \in {2, 3}
         /\ w[1] = Write(id, c.data) /\ w[2] = Write("subs", Entered(d["subs"], id, c.url))
         /\ Len(w) = 3 => w[3] = Write("active", id)
<1>1. id \in Ids
  BY IdentityKnown DEF Targets, AddOps
<1>2. SubsOK(Entered(d["subs"], id, c.url))
  BY <1>1, EnteredSubs DEF CmdOK
<1> DEFINE subs == Entered(d["subs"], id, c.url)
           head == <<Write(id, c.data), Write("subs", subs)>>
           tail == IF Activates(subs, c.activate) THEN <<Write("active", id)>> ELSE <<>>
<1>3. w = head \o tail
  BY DEF Writes, AddPlan, AddOps, OverlayOps
<1>4. tail = <<>> \/ tail = <<Write("active", id)>>
  OBVIOUS
<1> HIDE DEF subs, tail
<1>5. /\ Len(w) \in {2, 3} /\ DOMAIN w = 1 .. Len(w)
      /\ w[1] = Write(id, c.data) /\ w[2] = Write("subs", subs)
      /\ Len(w) = 3 => w[3] = Write("active", id)
  <2>1. CASE tail = <<>>
    <3>1. w = head
      BY <1>3, <2>1
    <3> QED  BY <3>1
  <2>2. CASE tail = <<Write("active", id)>>
    <3>1. PICK x, y, z : x = Write(id, c.data) /\ y = Write("subs", subs) /\ z = Write("active", id)
      OBVIOUS
    <3>2. w = <<x, y>> \o <<z>>
      BY <1>3, <2>2, <3>1
    <3> HIDE DEF head
    <3>3. PICK v : v = <<x, y>> \o <<z>>
      OBVIOUS
    <3>4. Len(v) = 3 /\ DOMAIN v = 1 .. 3 /\ v[1] = x /\ v[2] = y /\ v[3] = z
      BY <3>3
    <3>5. Len(w) = 3 /\ DOMAIN w = 1 .. 3 /\ w[1] = x /\ w[2] = y /\ w[3] = z
      BY <3>2, <3>3, <3>4
    <3> QED  BY <3>1, <3>5
  <2> QED  BY <1>4, <2>1, <2>2
<1>6. IsPlan(w)
  BY <1>1, <1>2, <1>5, FileNames DEF IsPlan, Write, subs
<1> QED  BY <1>1, <1>5, <1>6 DEF subs

LEMMA OnePlanned ==
  ASSUME NEW c, NEW d, NEW id, NEW w, c.op \in {"switch", "agent", "tun"} \cup OverlayOps,
         SubsOK(d["subs"]), id \in Targets(c, d), w = Writes(c, id, d)
  PROVE  /\ IsPlan(w) /\ Len(w) = 1
         /\ c.op = "switch" => w[1] = Write("active", id) /\ id \in Alive(d["subs"]) /\ d[id] # NoFile
         /\ c.op = "agent" => w[1] = Write("subs", d["subs"])
         /\ c.op \in OverlayOps => w[1].file = "overlay"
         /\ c.op = "tun" => w[1].file = "config"
<1>1. CASE c.op = "switch"
  <2>1. w = <<Write("active", id)>> /\ id \in Alive(d["subs"]) /\ d[id] # NoFile
    BY <1>1 DEF Writes, Targets, AddOps, OverlayOps
  <2> QED  BY <1>1, <2>1, FileNames DEF IsPlan, Write, OverlayOps
<1>2. CASE c.op = "agent"
  <2>1. w = <<Write("subs", d["subs"])>>
    BY <1>2 DEF Writes, AddOps, OverlayOps
  <2> QED  BY <1>2, <2>1, FileNames DEF IsPlan, Write, OverlayOps
<1>3. CASE c.op \in OverlayOps
  <2>1. w = <<Write("overlay", c.data)>>
    BY <1>3 DEF Writes, AddOps, OverlayOps
  <2> QED  BY <1>3, <2>1, FileNames DEF IsPlan, Write, OverlayOps
<1>4. CASE c.op = "tun"
  <2>1. \E v : w = <<Write("config", v)>>
    BY <1>4 DEF Writes, AddOps, OverlayOps
  <2> QED  BY <1>4, <2>1, FileNames DEF IsPlan, Write, OverlayOps
<1> QED  BY <1>1, <1>2, <1>3, <1>4

LEMMA RemovePlanned ==
  ASSUME NEW c, NEW d, NEW id, NEW w, c.op = "remove",
         SubsOK(d["subs"]), id \in Targets(c, d), w = Writes(c, id, d)
  PROVE  /\ IsPlan(w) /\ Len(w) = 2 /\ id \in Ids /\ id # d["active"] /\ id \in DOMAIN d["subs"]
         /\ w[1] = Write("subs", RetiredAfter(d["subs"], id)) /\ w[2] = Write(id, NoFile)
<1>1. id \in Alive(d["subs"]) /\ id # d["active"]
  BY DEF Targets, Removable, AddOps
<1>2. id \in Ids /\ id \in DOMAIN d["subs"]
  BY <1>1 DEF SubsOK, Alive
<1>3. SubsOK(RetiredAfter(d["subs"], id))
  BY <1>2, RetiredAfterSubs
<1>4. w = <<Write("subs", RetiredAfter(d["subs"], id)), Write(id, NoFile)>>
  BY DEF Writes, RemovePlan, AddOps, OverlayOps
<1> QED  BY <1>1, <1>2, <1>3, <1>4, FileNames DEF IsPlan, Write

\* The members of a finite set, one after the other.
LEMMA Listed ==
  ASSUME NEW S, IsFiniteSet(S), NEW s, s = SetToSeq(S)
  PROVE  /\ Len(s) \in Nat /\ s = [k \in 1 .. Len(s) |-> s[k]]
         /\ \A k \in 1 .. Len(s) : s[k] \in S
         /\ \A i \in S : \E k \in 1 .. Len(s) : s[k] = i
         /\ \A j, k \in 1 .. Len(s) : s[j] = s[k] => j = k
<1> DEFINE n == Cardinality(S)
<1>1. n \in Nat /\ ExistsBijection(1 .. n, S)
  BY FS_CardinalityType
<1>2. PICK f \in Bijection(1 .. n, S) : TRUE
  BY <1>1 DEF ExistsBijection
<1>3. f \in [1 .. n -> S] /\ IsInjective(f)
  BY <1>2 DEF Bijection, Injection, IsInjective
<1>4. s \in [1 .. n -> S] /\ IsInjective(s)
  BY <1>3 DEF SetToSeq
<1> HIDE DEF n
<1>5. s \in Seq(S) /\ Len(s) = n /\ DOMAIN s = 1 .. n
  BY <1>1, <1>4
<1>6. s \in Injection(1 .. n, S)
  BY <1>4 DEF Injection, IsInjective
<1>7. IsFiniteSet(1 .. n) /\ Cardinality(1 .. n) = n
  BY <1>1, FS_Interval
<1>8. s \in Surjection(1 .. n, S)
  BY <1>6, <1>7, FS_Injection DEF n
<1>9. \A i \in S : \E k \in 1 .. n : s[k] = i
  BY <1>8 DEF Surjection
<1>10. \A j, k \in 1 .. n : s[j] = s[k] => j = k
  BY <1>4, <1>5 DEF IsInjective
<1>11. s = [k \in 1 .. n |-> s[k]] /\ \A k \in 1 .. n : s[k] \in S
  BY <1>4
<1> QED  BY <1>1, <1>5, <1>9, <1>10, <1>11

IsSeq(s) == Len(s) \in Nat /\ s = [k \in 1 .. Len(s) |-> s[k]]

LEMMA SeqShaped ==
  ASSUME NEW X, NEW v \in Seq(X)
  PROVE  IsSeq(v)
BY DEF IsSeq

LEMMA SeqTyped ==
  ASSUME NEW X, NEW s, IsSeq(s), \A k \in 1 .. Len(s) : s[k] \in X
  PROVE  s \in Seq(X)
<1>1. s \in [1 .. Len(s) -> X]
  BY DEF IsSeq
<1> QED  BY <1>1 DEF IsSeq

Cat(s, t) == s \o t

IsJoin(v, s, t) ==
  /\ IsSeq(v) /\ Len(v) = Len(s) + Len(t)
  /\ \A k \in 1 .. Len(s) : v[k] = s[k]
  /\ \A k \in 1 .. Len(t) : v[Len(s) + k] = t[k]

LEMMA Joined ==
  ASSUME NEW s, NEW t, IsSeq(s), IsSeq(t)
  PROVE  IsJoin(Cat(s, t), s, t)
<1>1. PICK X : X = {s[k] : k \in 1 .. Len(s)} \cup {t[k] : k \in 1 .. Len(t)}
  OBVIOUS
<1>2. s \in Seq(X) /\ t \in Seq(X)
  BY <1>1, SeqTyped
<1>3. /\ s \o t \in Seq(X) /\ Len(s \o t) = Len(s) + Len(t)
      /\ \A k \in 1 .. Len(s) : (s \o t)[k] = s[k]
      /\ \A k \in 1 .. Len(t) : (s \o t)[Len(s) + k] = t[k]
  BY <1>2
<1>4. Cat(s, t) \in Seq(X)
  BY <1>3 DEF Cat
<1>5. IsSeq(Cat(s, t))
  BY <1>4, SeqShaped
<1> QED  BY <1>3, <1>5 DEF Cat, IsJoin

LEMMA RefreshPlanned ==
  ASSUME NEW c, NEW d, NEW id, NEW w, c.op = "refresh", SubsOK(d["subs"]), w = Writes(c, id, d)
  PROVE  /\ IsPlan(w)
         /\ \A k \in 1 .. Len(w) - 1 : w[k].file \in Ids /\ w[k].val = c.data
         /\ \A j, k \in 1 .. Len(w) - 1 : w[j].file = w[k].file => j = k
         /\ Len(w) > 0 => w[Len(w)] = Write("subs", d["subs"])
<1>1. PICK S : S = c.ids \cap Alive(d["subs"])
  OBVIOUS
<1>2. S \subseteq Ids /\ IsFiniteSet(S)
  BY <1>1, IdsAssumption, FS_Subset DEF SubsOK, Alive
<1>3. PICK live : live = SetToSeq(S)
  OBVIOUS
<1>4. /\ IsSeq(live) /\ \A k \in 1 .. Len(live) : live[k] \in Ids
      /\ \A j, k \in 1 .. Len(live) : live[j] = live[k] => j = k
  BY <1>2, <1>3, Listed DEF IsSeq
<1>5. PICK t : t = [k \in DOMAIN live |-> Write(live[k], c.data)]
  OBVIOUS
<1>6. IsSeq(t) /\ Len(t) = Len(live) /\ \A k \in 1 .. Len(t) : t[k] = Write(live[k], c.data)
  <2>1. DOMAIN live = 1 .. Len(live) /\ Len(live) \in Nat
    BY <1>4 DEF IsSeq
  <2>2. Len(t) = Len(live)
    BY <1>5, <2>1
  <2> QED  BY <1>5, <2>1, <2>2 DEF IsSeq
<1>7. PICK last1 : last1 = Write("subs", d["subs"])
  OBVIOUS
<1>8. w = t \o (IF live = <<>> THEN <<>> ELSE <<last1>>)
  BY <1>1, <1>3, <1>5, <1>7 DEF Writes, RefreshPlan, AddOps, OverlayOps
<1>9. CASE live = <<>>
  <2>1. Len(t) = 0 /\ IsSeq(<<>>) /\ Len(<<>>) = 0
    BY <1>6, <1>9 DEF IsSeq
  <2>2. w = Cat(t, <<>>)
    BY <1>8, <1>9 DEF Cat
  <2>3. IsSeq(w) /\ Len(w) = 0
    BY <1>6, <2>1, <2>2, Joined DEF IsJoin
  <2> QED  BY <2>3 DEF IsSeq, IsPlan
<1>10. CASE live # <<>>
  <2>1. PICK u : u = <<last1>>
    OBVIOUS
  <2>2. IsSeq(u) /\ Len(u) = 1 /\ u[1] = last1
    BY <2>1 DEF IsSeq
  <2>3. w = Cat(t, u)
    BY <1>8, <1>10, <2>1 DEF Cat
  <2>4. /\ IsSeq(w) /\ Len(w) = Len(t) + 1
        /\ \A k \in 1 .. Len(t) : w[k] = t[k]
        /\ w[Len(t) + 1] = last1
    <3>1. IsJoin(w, t, u)
      BY <1>6, <2>2, <2>3, Joined
    <3> QED  BY <2>2, <3>1 DEF IsJoin
  <2>5. Len(t) \in Nat /\ Len(w) \in Nat /\ DOMAIN w = 1 .. Len(w)
    <3>1. Len(t) \in Nat /\ Len(w) \in Nat
      BY <1>6, <2>4 DEF IsSeq
    <3>2. w = [k \in 1 .. Len(w) |-> w[k]]
      BY <2>4 DEF IsSeq
    <3> QED  BY <3>1, <3>2
  <2>6. ASSUME NEW k \in 1 .. Len(t)
        PROVE  w[k].file \in Ids /\ w[k].val = c.data
    <3>1. w[k] = Write(live[k], c.data) /\ live[k] \in Ids
      BY <1>4, <1>6, <2>4
    <3> QED  BY <3>1 DEF Write
  <2>10. ASSUME NEW j \in 1 .. Len(t), NEW k \in 1 .. Len(t), w[j].file = w[k].file
         PROVE  j = k
    <3>1. w[k] = Write(live[k], c.data) /\ w[j] = Write(live[j], c.data)
      BY <1>4, <1>6, <2>4
    <3>2. live[j] = live[k]
      BY <2>10, <3>1 DEF Write
    <3> QED  BY <1>4, <1>6, <3>2
  <2>7. \A k \in 1 .. Len(w) : k \in 1 .. Len(t) \/ k = Len(w)
    BY <2>4, <2>5
  <2>8. w[Len(w)].file = "subs" /\ w[Len(w)].val = d["subs"]
    BY <1>7, <2>4 DEF Write
  <2>9. IsPlan(w)
    BY <2>5, <2>6, <2>7, <2>8, FileNames DEF IsPlan
  <2> QED  BY <1>7, <2>4, <2>5, <2>6, <2>9, <2>10
<1> QED  BY <1>9, <1>10

LEMMA StartDiskHolds ==
  /\ StartDisk["subs"] = Registered /\ StartDisk["active"] = Chosen
  /\ Chosen # None => StartDisk[Chosen] # NoFile
  /\ IsDisk(StartDisk)
<1>1. Alive(Registered) \subseteq Ids
  BY RegisteredSubs DEF SubsOK, Alive
<1>2. StartDisk["subs"] = Registered /\ StartDisk["active"] = Chosen
  BY <1>1, FileNames DEF StartDisk
<1>3. IsDisk(StartDisk)
  BY DEF IsDisk, StartDisk
<1>4. ASSUME Chosen # None
      PROVE  StartDisk[Chosen] # NoFile
  <2>1. Chosen \in Alive(Registered) /\ Chosen \in Files /\ Chosen \notin {"subs", "active", "overlay", "config"}
    BY <1>4, RegisteredSubs, FileNames
  <2>2. StartDisk[Chosen] = Usual
    BY <2>1 DEF StartDisk
  <2> QED  BY <2>2, ContentAssumption
<1> QED  BY <1>2, <1>3, <1>4

\* A restored backup ends with every file as it was, whatever was written before.
LEMMA RestorePlanned ==
  ASSUME NEW c, NEW d, NEW id, NEW w, c.op = "restore", w = Writes(c, id, d)
  PROVE  /\ IsPlan(w) /\ Len(w) > 4
         /\ w[Len(w) - 1] = Write("active", Chosen) /\ w[Len(w)].file = "config"
         /\ w[3] = Write("subs", Registered) /\ \A k \in 4 .. Len(w) : w[k].file # "subs"
         /\ \A i \in Ids : \E k \in 1 .. Len(w) :
              w[k] = Write(i, StartDisk[i]) /\ \A j \in k + 1 .. Len(w) : w[j].file # i
<1>1. PICK ids : ids = SetToSeq(Ids)
  OBVIOUS
<1>2. /\ IsSeq(ids) /\ \A k \in 1 .. Len(ids) : ids[k] \in Ids
      /\ \A i \in Ids : \E k \in 1 .. Len(ids) : ids[k] = i
      /\ \A j, k \in 1 .. Len(ids) : ids[j] = ids[k] => j = k
  BY <1>1, IdsAssumption, Listed DEF IsSeq
<1>3. PICK h : h = <<Write("config", StartDisk["config"]), Write("overlay", StartDisk["overlay"]),
                     Write("subs", StartDisk["subs"]), Write("active", None)>>
  OBVIOUS
<1>4. PICK A : A = [k \in DOMAIN ids |-> Write(ids[k], NoFile)]
  OBVIOUS
<1>5. PICK B : B = [k \in DOMAIN ids |-> Write(ids[k], StartDisk[ids[k]])]
  OBVIOUS
<1>6. PICK t : t = <<Write("active", StartDisk["active"]),
                     Write("config", [StartDisk["config"] EXCEPT !.controller = TRUE])>>
  OBVIOUS
<1>7. w = Cat(Cat(Cat(h, A), B), t)
  <2>1. w = RestorePlan
    BY DEF Writes, AddOps, OverlayOps
  <2> QED  BY <2>1, <1>1, <1>3, <1>4, <1>5, <1>6 DEF RestorePlan, Cat
<1>8. PICK n : n = Len(ids)
  OBVIOUS
<1>9. n \in Nat /\ DOMAIN ids = 1 .. n
  BY <1>2, <1>8 DEF IsSeq
<1>10. IsSeq(h) /\ Len(h) = 4
  BY <1>3 DEF IsSeq
<1>11. /\ h[1].file = "config" /\ h[2].file = "overlay" /\ h[4].file = "active"
       /\ h[3] = Write("subs", Registered)
  BY <1>3, StartDiskHolds DEF Write
<1>12. IsSeq(A) /\ Len(A) = n /\ \A k \in 1 .. n : A[k] = Write(ids[k], NoFile)
  <2>1. Len(A) = n
    BY <1>4, <1>9
  <2> QED  BY <1>4, <1>9, <2>1 DEF IsSeq
<1>13. IsSeq(B) /\ Len(B) = n /\ \A k \in 1 .. n : B[k] = Write(ids[k], StartDisk[ids[k]])
  <2>1. Len(B) = n
    BY <1>5, <1>9
  <2> QED  BY <1>5, <1>9, <2>1 DEF IsSeq
<1>14. IsSeq(t) /\ Len(t) = 2 /\ t[1] = Write("active", Chosen) /\ t[2].file = "config"
  <2>1. PICK x, y : x = Write("active", StartDisk["active"])
                    /\ y = Write("config", [StartDisk["config"] EXCEPT !.controller = TRUE])
    OBVIOUS
  <2>2. IsSeq(t) /\ Len(t) = 2 /\ t[1] = x /\ t[2] = y
    BY <1>6, <2>1 DEF IsSeq
  <2>3. y.file = "config"
    BY <2>1 DEF Write
  <2> QED  BY <2>1, <2>2, <2>3, StartDiskHolds
<1>15. PICK u : u = Cat(h, A)
  OBVIOUS
<1>16. /\ IsSeq(u) /\ Len(u) = 4 + n
       /\ \A k \in 1 .. 4 : u[k] = h[k]
       /\ \A k \in 1 .. n : u[4 + k] = A[k]
  <2>1. IsJoin(u, h, A)
    BY <1>10, <1>12, <1>15, Joined
  <2> QED  BY <1>10, <1>12, <2>1 DEF IsJoin
<1>17. PICK v : v = Cat(u, B)
  OBVIOUS
<1>18. /\ IsSeq(v) /\ Len(v) = 4 + n + n
       /\ \A k \in 1 .. 4 + n : v[k] = u[k]
       /\ \A k \in 1 .. n : v[4 + n + k] = B[k]
  <2>1. IsJoin(v, u, B)
    BY <1>13, <1>16, <1>17, Joined
  <2> QED  BY <1>9, <1>13, <1>16, <2>1 DEF IsJoin
<1>19. /\ IsSeq(w) /\ Len(w) = 4 + n + n + 2
       /\ \A k \in 1 .. 4 + n + n : w[k] = v[k]
       /\ \A k \in 1 .. 2 : w[4 + n + n + k] = t[k]
  <2>1. w = Cat(v, t)
    BY <1>7, <1>15, <1>17
  <2>2. IsJoin(w, v, t)
    BY <1>14, <1>18, <2>1, Joined
  <2> QED  BY <1>14, <1>18, <2>2 DEF IsJoin
\* Where each of the writes is.
<1>20. /\ w[1].file = "config" /\ w[2].file = "overlay" /\ w[4].file = "active"
       /\ w[3] = Write("subs", Registered)
  BY <1>9, <1>11, <1>16, <1>18, <1>19
<1>21. ASSUME NEW k \in 1 .. n
       PROVE  w[4 + k] = Write(ids[k], NoFile) /\ w[4 + n + k] = Write(ids[k], StartDisk[ids[k]])
  <2>1. 4 + k \in 1 .. 4 + n /\ 4 + k \in 1 .. 4 + n + n /\ 4 + n + k \in 1 .. 4 + n + n
    BY <1>9
  <2>2. w[4 + k] = A[k]
    BY <1>16, <1>18, <1>19, <2>1
  <2>3. w[4 + n + k] = B[k]
    BY <1>18, <1>19, <2>1
  <2> QED  BY <1>12, <1>13, <2>2, <2>3
<1>22. w[4 + n + n + 1] = Write("active", Chosen) /\ w[4 + n + n + 2].file = "config"
  BY <1>14, <1>19
<1>23. \A k \in 1 .. Len(w) : \/ k \in 1 .. 4 \/ k \in {4 + n + n + 1, 4 + n + n + 2}
                              \/ \E j \in 1 .. n : k = 4 + j
                              \/ \E j \in 1 .. n : k = 4 + n + j
  <2> TAKE k \in 1 .. Len(w)
  <2>1. CASE k \in 5 .. 4 + n
    <3>1. k - 4 \in 1 .. n /\ k = 4 + (k - 4)
      BY <1>9, <2>1
    <3> QED  BY <3>1
  <2>2. CASE k \in 4 + n + 1 .. 4 + n + n
    <3>1. k - (4 + n) \in 1 .. n /\ k = 4 + n + (k - (4 + n))
      BY <1>9, <2>2
    <3> QED  BY <3>1
  <2>3. k \in 1 .. 4 \/ k \in 5 .. 4 + n \/ k \in 4 + n + 1 .. 4 + n + n \/ k \in {4 + n + n + 1, 4 + n + n + 2}
    BY <1>9, <1>19
  <2> QED  BY <2>1, <2>2, <2>3
<1>24. ASSUME NEW k \in 1 .. Len(w)
       PROVE  w[k].file \in Files /\ (w[k].file = "subs" => k = 3)
  <2>1. CASE k \in 1 .. 4
    <3>1. k = 1 \/ k = 2 \/ k = 3 \/ k = 4
      BY <2>1
    <3> QED  BY <3>1, <1>20, FileNames DEF Write
  <2>2. CASE k \in {4 + n + n + 1, 4 + n + n + 2}
    BY <2>2, <1>22, FileNames DEF Write
  <2>3. ASSUME NEW j \in 1 .. n, k = 4 + j
        PROVE  w[k].file \in Ids
    <3>1. w[k] = Write(ids[j], NoFile) /\ ids[j] \in Ids
      BY <1>2, <1>8, <1>21, <2>3
    <3> QED  BY <3>1 DEF Write
  <2>4. ASSUME NEW j \in 1 .. n, k = 4 + n + j
        PROVE  w[k].file \in Ids
    <3>1. w[k] = Write(ids[j], StartDisk[ids[j]]) /\ ids[j] \in Ids
      BY <1>2, <1>8, <1>21, <2>4
    <3> QED  BY <3>1 DEF Write
  <2> QED  BY <1>23, <2>1, <2>2, <2>3, <2>4, FileNames
<1>25. IsPlan(w)
  <2>1. Len(w) \in Nat /\ DOMAIN w = 1 .. Len(w)
    <3>1. Len(w) \in Nat /\ w = [k \in 1 .. Len(w) |-> w[k]]
      BY <1>19 DEF IsSeq
    <3> QED  BY <3>1
  <2>2. SubsOK(w[3].val)
    BY <1>20, RegisteredSubs DEF Write
  <2> QED  BY <1>24, <2>1, <2>2 DEF IsPlan
<1>26. ASSUME NEW i \in Ids
       PROVE  \E k \in 1 .. Len(w) : w[k] = Write(i, StartDisk[i]) /\ \A j \in k + 1 .. Len(w) : w[j].file # i
  <2>1. PICK m \in 1 .. n : ids[m] = i
    BY <1>2, <1>8
  <2>2. 4 + n + m \in 1 .. Len(w) /\ w[4 + n + m] = Write(i, StartDisk[i])
    BY <1>9, <1>19, <1>21, <2>1
  <2>3. ASSUME NEW j \in 4 + n + m + 1 .. Len(w)
        PROVE  w[j].file # i
    <3>1. j \in 1 .. Len(w) /\ j \notin 1 .. 4 /\ ~(\E l \in 1 .. n : j = 4 + l)
      BY <1>9, <1>19
    <3>2. CASE j \in {4 + n + n + 1, 4 + n + n + 2}
      BY <1>22, <3>2, FileNames DEF Write
    <3>3. ASSUME NEW l \in 1 .. n, j = 4 + n + l
          PROVE  w[j].file # i
      <4>1. l # m
        BY <1>9, <3>3
      <4>2. ids[l] # i
        BY <1>2, <1>8, <2>1, <4>1
      <4>3. w[j] = Write(ids[l], StartDisk[ids[l]])
        BY <1>21, <3>3
      <4> QED  BY <4>2, <4>3 DEF Write
    <3> QED  BY <1>23, <3>1, <3>2, <3>3
  <2> QED  BY <2>2, <2>3
<1>27. Len(w) > 4 /\ w[Len(w) - 1] = Write("active", Chosen) /\ w[Len(w)].file = "config"
  <2>1. Len(w) - 1 = 4 + n + n + 1 /\ Len(w) = 4 + n + n + 2 /\ Len(w) > 4
    BY <1>9, <1>19
  <2> QED  BY <1>22, <2>1
<1> QED  BY <1>20, <1>24, <1>25, <1>26, <1>27

LEMMA PlanShaped ==
  ASSUME NEW c, NEW d, NEW id, NEW w, c.op \in PlanOps, CmdOK(c), SubsOK(d["subs"]),
         id \in Targets(c, d), w = Writes(c, id, d)
  PROVE  IsPlan(w)
BY AddPlanned, OnePlanned, RemovePlanned, RefreshPlanned, RestorePlanned DEF PlanOps

-----------------------------------------------------------------------------
(* What the first writes of a plan make of the files: b is d after n of    *)
(* the writes of w, as far as the files of F are concerned.                *)

Applied(F, w, n, d, b) ==
  /\ n \in 0 .. Len(w)
  /\ \A f \in F : (\A k \in 1 .. n : w[k].file # f) => b[f] = d[f]
  /\ \A k \in 1 .. n :
       w[k].file \in F /\ (\A j \in k + 1 .. n : w[j].file # w[k].file) => b[w[k].file] = w[k].val

\* All files, or all that only a holder of the lock writes.
IsView(F) == F \in {Files, Files \ {"config"}}

LEMMA AppliedNone ==
  ASSUME NEW F, NEW w, IsPlan(w), NEW d
  PROVE  Applied(F, w, 0, d, d)
BY DEF Applied, IsPlan

LEMMA AppliedNext ==
  ASSUME NEW F, IsView(F), NEW w, IsPlan(w), NEW n, NEW d, NEW b, IsDisk(b), Applied(F, w, n, d, b), n < Len(w),
         NEW e, e = Put(b, w[n + 1].file, w[n + 1].val)
  PROVE  Applied(F, w, n + 1, d, e)
<1> DEFINE g == w[n + 1].file
<1>1. n \in Nat /\ Len(w) \in Nat /\ n + 1 \in 0 .. Len(w) /\ n + 1 \in 1 .. Len(w)
  BY DEF Applied, IsPlan
<1>2. g \in Files
  BY <1>1 DEF IsPlan
<1>3. e[g] = w[n + 1].val /\ \A f \in Files \ {g} : e[f] = b[f]
  BY <1>2 DEF IsDisk, Put
<1>4. ASSUME NEW f \in F, \A k \in 1 .. n + 1 : w[k].file # f
      PROVE  e[f] = d[f]
  <2>1. f # g /\ f \in Files
    BY <1>1, <1>4 DEF IsView
  <2>2. \A k \in 1 .. n : w[k].file # f
    BY <1>1, <1>4
  <2> QED  BY <1>3, <2>1, <2>2 DEF Applied
<1>5. ASSUME NEW k \in 1 .. n + 1, w[k].file \in F, \A j \in k + 1 .. n + 1 : w[j].file # w[k].file
      PROVE  e[w[k].file] = w[k].val
  <2>1. CASE k = n + 1
    BY <1>3, <2>1
  <2>2. CASE k # n + 1
    <3>1. k \in 1 .. n /\ n + 1 \in k + 1 .. n + 1
      BY <1>1, <2>2
    <3>2. w[k].file # g /\ w[k].file \in Files
      BY <1>5, <3>1 DEF IsView
    <3>3. \A j \in k + 1 .. n : w[j].file # w[k].file
      BY <1>1, <1>5, <3>1
    <3> QED  BY <1>3, <1>5, <3>1, <3>2, <3>3 DEF Applied
  <2> QED  BY <2>1, <2>2
<1> QED  BY <1>1, <1>4, <1>5 DEF Applied

\* A view of fewer files, in which nothing else has changed.
LEMMA AppliedStays ==
  ASSUME NEW F, NEW G, G \subseteq F, NEW w, NEW n, NEW d, NEW b, NEW e, Applied(F, w, n, d, b),
         \A f \in G : e[f] = b[f]
  PROVE  Applied(G, w, n, d, e)
BY DEF Applied

LEMMA UsableViews ==
  ASSUME NEW d, NEW e, SubsOK(d["subs"]), Usable(d), \A f \in Files \ {"config"} : e[f] = d[f]
  PROVE  Usable(e)
<1>1. e["subs"] = d["subs"] /\ e["active"] = d["active"] /\ \A i \in Ids : e[i] = d[i]
  BY FileNames
<1> QED  BY <1>1 DEF Usable, Alive, SubsOK

LEMMA AddUsable ==
  ASSUME NEW F, IsView(F), NEW c, NEW d, NEW id, NEW w, NEW n, NEW b, c.op \in AddOps, CmdOK(c), SubsOK(d["subs"]),
         id \in Targets(c, d), w = Writes(c, id, d), Applied(F, w, n, d, b), Usable(d)
  PROVE  /\ Usable(b)
         /\ n > 1 => id \in Alive(b["subs"]) /\ b[id] # NoFile
<1>1. /\ IsPlan(w) /\ id \in Ids /\ Len(w) \in {2, 3}
      /\ w[1].file = id /\ w[1].val = c.data
      /\ w[2].file = "subs" /\ w[2].val = Entered(d["subs"], id, c.url)
      /\ Len(w) = 3 => w[3].file = "active" /\ w[3].val = id
  <2>1. /\ IsPlan(w) /\ id \in Ids /\ Len(w) \in {2, 3}
        /\ w[1] = Write(id, c.data) /\ w[2] = Write("subs", Entered(d["subs"], id, c.url))
        /\ Len(w) = 3 => w[3] = Write("active", id)
    BY AddPlanned
  <2> QED  BY <2>1, WriteFields
<1>2. Alive(Entered(d["subs"], id, c.url)) = Alive(d["subs"]) \cup {id} /\ c.data # NoFile
  BY <1>1, EnteredSubs, ContentAssumption DEF CmdOK
<1>3. /\ id \notin {"subs", "active"} /\ {"subs", "active", id} \subseteq F /\ Ids \subseteq F
      /\ "subs" \notin Ids /\ "active" \notin Ids
  BY <1>1, FileNames DEF IsView
<1>4. n \in 0 .. Len(w)
  BY DEF Applied
<1>5. \A i \in Ids \ {id} : b[i] = d[i]
  BY <1>1, <1>3, <1>4 DEF Applied
<1>6. d["active"] # None => d["active"] \in Ids /\ d["active"] \in Alive(d["subs"]) /\ d[d["active"]] # NoFile
  <2>1. Alive(d["subs"]) \subseteq Ids
    BY LivingKnown
  <2> QED  BY <2>1 DEF Usable
<1>7. n = 0 \/ n = 1 \/ n = 2 \/ n = 3
  <2>1. n \in 0 .. 3
    <3>1. PICK l : l = Len(w)
      OBVIOUS
    <3>2. l \in {2, 3} /\ n \in 0 .. l
      BY <1>1, <1>4, <3>1
    <3> QED  BY <3>2
  <2> QED  BY <2>1
<1>8. n > 0 => b[id] = c.data
  BY <1>1, <1>3, <1>4, <1>7 DEF Applied
<1>9. n = 0 => b[id] = d[id]
  BY <1>1, <1>3 DEF Applied
<1>10. b["subs"] = IF n > 1 THEN Entered(d["subs"], id, c.url) ELSE d["subs"]
  BY <1>1, <1>3, <1>7 DEF Applied
<1>11. b["active"] = IF n > 2 THEN id ELSE d["active"]
  BY <1>1, <1>3, <1>7 DEF Applied
<1> QED  BY <1>2, <1>5, <1>6, <1>7, <1>8, <1>9, <1>10, <1>11 DEF Usable

LEMMA RemoveUsable ==
  ASSUME NEW F, IsView(F), NEW c, NEW d, NEW id, NEW w, NEW n, NEW b, c.op = "remove", SubsOK(d["subs"]),
         id \in Targets(c, d), w = Writes(c, id, d), Applied(F, w, n, d, b), Usable(d)
  PROVE  Usable(b)
<1>1. /\ IsPlan(w) /\ Len(w) = 2 /\ id \in Ids /\ id # d["active"] /\ id \in DOMAIN d["subs"]
      /\ w[1].file = "subs" /\ w[1].val = RetiredAfter(d["subs"], id) /\ w[2].file = id
  <2>1. /\ IsPlan(w) /\ Len(w) = 2 /\ id \in Ids /\ id # d["active"] /\ id \in DOMAIN d["subs"]
        /\ w[1] = Write("subs", RetiredAfter(d["subs"], id)) /\ w[2] = Write(id, NoFile)
    BY RemovePlanned
  <2> QED  BY <2>1, WriteFields
<1>2. Alive(RetiredAfter(d["subs"], id)) = Alive(d["subs"]) \ {id}
  BY <1>1, RetiredAfterSubs
<1>3. {"subs", "active"} \subseteq F /\ Ids \subseteq F /\ "subs" \notin Ids /\ "active" \notin Ids
  BY FileNames DEF IsView
<1>4. n = 0 \/ n = 1 \/ n = 2
  BY <1>1 DEF Applied
<1>5. \A i \in Ids \ {id} : b[i] = d[i]
  BY <1>1, <1>3, <1>4 DEF Applied
<1>6. b["active"] = d["active"]
  BY <1>1, <1>3, <1>4 DEF Applied
<1>7. b["subs"] \in {d["subs"], RetiredAfter(d["subs"], id)}
  BY <1>1, <1>3, <1>4 DEF Applied
<1>8. d["active"] # None => d["active"] \in Ids \ {id} /\ d["active"] \in Alive(d["subs"]) /\ d[d["active"]] # NoFile
  BY <1>1 DEF Usable, Alive, SubsOK
<1> QED  BY <1>2, <1>5, <1>6, <1>7, <1>8 DEF Usable

LEMMA RefreshUsable ==
  ASSUME NEW F, IsView(F), NEW c, NEW d, NEW id, NEW w, NEW n, NEW b, c.op = "refresh", CmdOK(c), SubsOK(d["subs"]),
         w = Writes(c, id, d), Applied(F, w, n, d, b), Usable(d)
  PROVE  Usable(b)
<1>1. /\ IsPlan(w) /\ Len(w) \in Nat
      /\ \A k \in 1 .. Len(w) - 1 : w[k].file \in Ids /\ w[k].val = c.data
      /\ \A j, k \in 1 .. Len(w) - 1 : w[j].file = w[k].file => j = k
      /\ Len(w) > 0 => w[Len(w)].file = "subs" /\ w[Len(w)].val = d["subs"]
  <2>1. /\ IsPlan(w)
        /\ \A k \in 1 .. Len(w) - 1 : w[k].file \in Ids /\ w[k].val = c.data
        /\ \A j, k \in 1 .. Len(w) - 1 : w[j].file = w[k].file => j = k
        /\ Len(w) > 0 => w[Len(w)] = Write("subs", d["subs"])
    BY RefreshPlanned
  <2> QED  BY <2>1, WriteFields DEF IsPlan
<1>2. {"subs", "active"} \subseteq F /\ Ids \subseteq F /\ "subs" \notin Ids /\ "active" \notin Ids
  BY FileNames DEF IsView
<1>3. n \in 0 .. Len(w) /\ c.data # NoFile
  BY ContentAssumption DEF Applied, CmdOK
<1>4. \A k \in 1 .. n : w[k].file # "active"
  BY <1>1, <1>2, <1>3
<1>5. b["active"] = d["active"]
  BY <1>2, <1>4 DEF Applied
<1>6. b["subs"] = d["subs"]
  <2>1. CASE n < Len(w) \/ Len(w) = 0
    <3>1. \A k \in 1 .. n : w[k].file # "subs"
      BY <1>1, <1>2, <1>3, <2>1
    <3> QED  BY <1>2, <3>1 DEF Applied
  <2>2. CASE n = Len(w) /\ Len(w) > 0
    <3>1. n \in 1 .. n /\ (\A j \in n + 1 .. n : w[j].file # w[n].file) /\ w[n].file \in F
      BY <1>1, <1>2, <1>3, <2>2
    <3>2. b[w[n].file] = w[n].val
      BY <3>1 DEF Applied
    <3> QED  BY <1>1, <2>2, <3>2
  <2> QED  BY <1>1, <1>3, <2>1, <2>2
<1>7. ASSUME NEW i \in Ids, d[i] # NoFile
      PROVE  b[i] # NoFile
  <2>1. CASE \A k \in 1 .. n : w[k].file # i
    BY <1>2, <1>7, <2>1 DEF Applied
  <2>2. CASE \E k \in 1 .. n : w[k].file = i
    <3>1. PICK k \in 1 .. n : w[k].file = i
      BY <2>2
    <3>2. k \in 1 .. Len(w) - 1
      BY <1>1, <1>2, <1>3, <3>1
    <3>3. \A j \in k + 1 .. n : w[j].file # w[k].file
      BY <1>1, <1>2, <1>3, <3>1, <3>2
    <3>4. b[i] = w[k].val
      BY <1>2, <3>1, <3>3 DEF Applied
    <3> QED  BY <1>1, <1>3, <3>2, <3>4
  <2> QED  BY <2>1, <2>2
<1>8. d["active"] # None => d["active"] \in Ids /\ d["active"] \in Alive(d["subs"]) /\ d[d["active"]] # NoFile
  BY DEF Usable, Alive, SubsOK
<1> QED  BY <1>5, <1>6, <1>7, <1>8 DEF Usable

LEMMA RestoreUsable ==
  ASSUME NEW F, IsView(F), NEW c, NEW d, NEW id, NEW w, NEW b, c.op = "restore",
         w = Writes(c, id, d), Applied(F, w, Len(w), d, b)
  PROVE  Usable(b)
<1>1. /\ IsPlan(w) /\ Len(w) \in Nat /\ Len(w) > 4
      /\ w[Len(w) - 1].file = "active" /\ w[Len(w) - 1].val = Chosen /\ w[Len(w)].file = "config"
      /\ w[3].file = "subs" /\ w[3].val = Registered /\ \A k \in 4 .. Len(w) : w[k].file # "subs"
      /\ \A i \in Ids : \E k \in 1 .. Len(w) :
           w[k].file = i /\ w[k].val = StartDisk[i] /\ \A j \in k + 1 .. Len(w) : w[j].file # i
  <2>1. /\ IsPlan(w) /\ Len(w) > 4
        /\ w[Len(w) - 1] = Write("active", Chosen) /\ w[Len(w)].file = "config"
        /\ w[3] = Write("subs", Registered) /\ \A k \in 4 .. Len(w) : w[k].file # "subs"
        /\ \A i \in Ids : \E k \in 1 .. Len(w) :
             w[k] = Write(i, StartDisk[i]) /\ \A j \in k + 1 .. Len(w) : w[j].file # i
    BY RestorePlanned
  <2> QED  BY <2>1, WriteFields DEF IsPlan
<1>2. {"subs", "active"} \subseteq F /\ Ids \subseteq F
  BY FileNames DEF IsView
<1>3. b["subs"] = Registered
  <2>1. 3 \in 1 .. Len(w) /\ \A j \in 3 + 1 .. Len(w) : w[j].file # w[3].file
    BY <1>1
  <2>2. w[3].file \in F
    BY <1>1, <1>2
  <2>3. b[w[3].file] = w[3].val
    BY <2>1, <2>2 DEF Applied
  <2> QED  BY <1>1, <2>3
<1>4. b["active"] = Chosen
  <2>1. PICK k : k = Len(w) - 1
    OBVIOUS
  <2>2. k \in 1 .. Len(w) /\ \A j \in k + 1 .. Len(w) : j = Len(w)
    BY <1>1, <2>1
  <2>3. w[k].file = "active" /\ w[k].val = Chosen /\ w[k].file \in F
    BY <1>1, <1>2, <2>1
  <2>4. \A j \in k + 1 .. Len(w) : w[j].file # w[k].file
    BY <1>1, <2>2, <2>3
  <2>5. b[w[k].file] = w[k].val
    BY <2>2, <2>3, <2>4 DEF Applied
  <2> QED  BY <2>3, <2>5
<1>5. ASSUME NEW i \in Ids
      PROVE  b[i] = StartDisk[i]
  <2>1. PICK k \in 1 .. Len(w) :
          w[k].file = i /\ w[k].val = StartDisk[i] /\ \A j \in k + 1 .. Len(w) : w[j].file # i
    BY <1>1
  <2> QED  BY <1>2, <2>1 DEF Applied
<1> QED  BY <1>3, <1>4, <1>5, RegisteredSubs, StartDiskHolds DEF Usable

\* A plan keeps the pointer usable at every write, a restored backup at the last one.
LEMMA PlanUsable ==
  ASSUME NEW F, IsView(F), NEW c, NEW d, NEW id, NEW w, NEW n, NEW b, c.op \in PlanOps, CmdOK(c), SubsOK(d["subs"]),
         id \in Targets(c, d), w = Writes(c, id, d), Applied(F, w, n, d, b), Usable(d),
         c.op = "restore" => n = Len(w)
  PROVE  Usable(b)
<1>1. CASE c.op \in {"switch", "agent", "tun"} \cup OverlayOps
  <2>1. /\ Len(w) = 1
        /\ c.op = "switch" => w[1].file = "active" /\ w[1].val = id /\ id \in Alive(d["subs"]) /\ d[id] # NoFile
        /\ c.op = "agent" => w[1].file = "subs" /\ w[1].val = d["subs"]
        /\ c.op \in OverlayOps => w[1].file = "overlay"
        /\ c.op = "tun" => w[1].file = "config"
    <3>1. /\ Len(w) = 1
          /\ c.op = "switch" => w[1] = Write("active", id) /\ id \in Alive(d["subs"]) /\ d[id] # NoFile
          /\ c.op = "agent" => w[1] = Write("subs", d["subs"])
          /\ c.op \in OverlayOps => w[1].file = "overlay"
          /\ c.op = "tun" => w[1].file = "config"
      BY <1>1, OnePlanned
    <3> QED  BY <3>1, WriteFields
  <2>2. {"subs", "active"} \subseteq F /\ Ids \subseteq F /\ "subs" \notin Ids /\ "active" \notin Ids
        /\ "overlay" \notin Ids /\ "config" \notin Ids
    BY FileNames DEF IsView
  <2>3. n = 0 \/ n = 1
    BY <2>1 DEF Applied
  <2>4. w[1].file \notin Ids
    BY <1>1, <2>1, <2>2
  <2>5. \A i \in Ids : b[i] = d[i]
    BY <2>2, <2>3, <2>4 DEF Applied
  <2>6. b["subs"] = d["subs"]
    BY <1>1, <2>1, <2>2, <2>3 DEF Applied, OverlayOps
  <2>7. \/ b["active"] = d["active"]
        \/ b["active"] = id /\ id \in Alive(d["subs"]) /\ d[id] # NoFile
    BY <1>1, <2>1, <2>2, <2>3 DEF Applied, OverlayOps
  <2>8. Alive(d["subs"]) \subseteq Ids
    BY DEF Alive, SubsOK
  <2> QED  BY <2>5, <2>6, <2>7, <2>8 DEF Usable
<1> QED  BY <1>1, AddUsable, RemoveUsable, RefreshUsable, RestoreUsable DEF PlanOps

-----------------------------------------------------------------------------
(* What a hold carries.                                                    *)

\* The pre-images are the files of the last hold.
Based(p) == IsDisk(ps[p].snap) /\ SubsOK(ps[p].snap["subs"]) /\ Same(ps[p].snap, {})

Writing(p) == \E k \in DOMAIN ps[p].plan : ps[p].plan[k].file = "active"

Planned(p) ==
  LET s == ps[p]
  IN /\ Based(p)
     /\ "undo" \notin torn => Usable(s.snap)
     /\ s.cmd.op \in PlanOps /\ CmdOK(s.cmd)
     /\ s.id \in Targets(s.cmd, s.snap) /\ s.plan = Writes(s.cmd, s.id, s.snap)
     /\ Writing(p) => s.activated
     /\ s.activated => Writing(p) \/ Op(p) = "add"

Touched(p) ==
  {ps[p].plan[k].file : k \in DOMAIN ps[p].plan} \cup (IF ps[p].activated THEN {"active"} ELSE {})

\* All of the plan has been written, and what of S.
Done(p, S) ==
  /\ Planned(p) /\ ps[p].at = Len(ps[p].plan) /\ Merges(ps[p].cmd)
  /\ Same(disk, Touched(p) \cup S)

Listing(u) == {u[i] : i \in DOMAIN u}

LEMMA CatFiles ==
  ASSUME NEW u \in Seq(Files), NEW v \in Seq(Files)
  PROVE  u \o v \in Seq(Files) /\ Listing(u) \cup Listing(v) \subseteq Listing(u \o v)
<1>1. IsSeq(u) /\ IsSeq(v)
  BY SeqShaped
<1>2. IsJoin(Cat(u, v), u, v)
  BY <1>1, Joined
<1>3. DOMAIN u = 1 .. Len(u) /\ DOMAIN v = 1 .. Len(v) /\ Len(u) \in Nat /\ Len(v) \in Nat
  OBVIOUS
<1>4. DOMAIN Cat(u, v) = 1 .. Len(u) + Len(v)
  BY <1>2 DEF IsJoin, IsSeq
<1>5. ASSUME NEW i \in 1 .. Len(u)
      PROVE  u[i] \in Listing(Cat(u, v))
  <2>1. i \in DOMAIN Cat(u, v) /\ Cat(u, v)[i] = u[i]
    BY <1>2, <1>3, <1>4 DEF IsJoin
  <2> QED  BY <2>1 DEF Listing
<1>6. ASSUME NEW i \in 1 .. Len(v)
      PROVE  v[i] \in Listing(Cat(u, v))
  <2>1. Len(u) + i \in DOMAIN Cat(u, v) /\ Cat(u, v)[Len(u) + i] = v[i]
    BY <1>2, <1>3, <1>4 DEF IsJoin
  <2> QED  BY <2>1 DEF Listing
<1>7. Listing(u) \cup Listing(v) \subseteq Listing(Cat(u, v))
  BY <1>3, <1>5, <1>6 DEF Listing
<1>8. u \o v \in Seq(Files)
  OBVIOUS
<1> QED  BY <1>7, <1>8 DEF Cat

LEMMA ShortFiles ==
  /\ <<>> \in Seq(Files)
  /\ \A f \in Files : <<f>> \in Seq(Files) /\ f \in Listing(<<f>>)
  /\ \A f, g \in Files : <<f, g>> \in Seq(Files) /\ f \in Listing(<<f, g>>) /\ g \in Listing(<<f, g>>)
<1>1. ASSUME NEW f \in Files
      PROVE  <<f>> \in Seq(Files) /\ f \in Listing(<<f>>)
  <2>1. DOMAIN <<f>> = 1 .. 1 /\ <<f>>[1] = f /\ <<f>> \in Seq(Files)
    OBVIOUS
  <2> QED  BY <2>1 DEF Listing
<1>2. ASSUME NEW f \in Files, NEW g \in Files
      PROVE  <<f, g>> \in Seq(Files) /\ f \in Listing(<<f, g>>) /\ g \in Listing(<<f, g>>)
  <2>1. PICK u : u = <<f, g>>
    OBVIOUS
  <2>2. DOMAIN u = 1 .. 2 /\ u[1] = f /\ u[2] = g /\ u \in Seq(Files)
    BY <2>1
  <2>3. f \in Listing(u) /\ g \in Listing(u)
    BY <2>2 DEF Listing
  <2> QED  BY <2>1, <2>2, <2>3
<1> QED  BY <1>1, <1>2

LEMMA TripleFiles ==
  ASSUME NEW f \in Files, NEW g \in Files, NEW h \in Files
  PROVE  /\ <<f, g, h>> \in Seq(Files)
         /\ f \in Listing(<<f, g, h>>) /\ g \in Listing(<<f, g, h>>) /\ h \in Listing(<<f, g, h>>)
<1>1. PICK u : u = <<f, g, h>>
  OBVIOUS
<1>2. DOMAIN u = 1 .. 3 /\ u[1] = f /\ u[2] = g /\ u[3] = h /\ u \in Seq(Files)
  BY <1>1
<1>3. f \in Listing(u) /\ g \in Listing(u) /\ h \in Listing(u)
  BY <1>2 DEF Listing
<1> QED  BY <1>1, <1>2, <1>3

LEMMA FilesOf ==
  ASSUME NEW w, IsPlan(w), NEW n \in Nat, n <= Len(w), NEW u, u = [k \in 1 .. n |-> w[k].file]
  PROVE  u \in Seq(Files) /\ \A k \in 1 .. n : w[k].file \in Listing(u)
<1>1. \A k \in 1 .. n : w[k].file \in Files
  BY DEF IsPlan
<1>2. u \in [1 .. n -> Files]
  BY <1>1
<1>3. u \in Seq(Files)
  BY <1>2
<1>4. \A k \in 1 .. n : u[k] \in Listing(u) /\ u[k] = w[k].file
  BY DEF Listing
<1> QED  BY <1>3, <1>4

LEMMA PlannedShape ==
  ASSUME NEW p \in Procs, Planned(p)
  PROVE  IsPlan(ps[p].plan)
BY PlanShaped DEF Planned, Based

\* What a failed write leaves behind is undone.
LEMMA WriteUndoCovers ==
  ASSUME NEW p \in Procs, Planned(p), ps[p].at \in 0 .. Len(ps[p].plan), ps[p].at < Len(ps[p].plan)
  PROVE  /\ WriteUndo(p) \in Seq(Files)
         /\ Op(p) # "restore" \/ ps[p].at = 0 =>
              \A k \in 1 .. ps[p].at : ps[p].plan[k].file \in Listing(WriteUndo(p))
<1> DEFINE w == ps[p].plan
           n == ps[p].at
           id == ps[p].id
<1>1. IsPlan(w) /\ Len(w) \in Nat /\ n \in Nat /\ n < Len(w)
  BY PlannedShape DEF IsPlan
<1> DEFINE c == ps[p].cmd
           d == ps[p].snap
<1>2. /\ c.op \in PlanOps /\ CmdOK(c) /\ id \in Targets(c, d)
      /\ w = Writes(c, id, d) /\ SubsOK(d["subs"]) /\ Op(p) = c.op
  BY DEF Planned, Based, Op
<1> HIDE DEF w, n, id, c, d
<1>3. CASE Op(p) \in AddOps
  <2>1. IsPlan(w) /\ id \in Ids /\ Len(w) \in {2, 3} /\ w[1].file = id /\ w[2].file = "subs"
    BY <1>2, <1>3, AddPlanned, WriteFields
  <2>2. CASE n > 0
    <3>1. WriteUndo(p) = <<id, "subs", "active">>
      BY <1>3, <2>2 DEF WriteUndo, AddOps, n, id
    <3>2. n = 1 \/ n = 2
      <4>1. PICK l : l = Len(w)
        OBVIOUS
      <4>2. l \in {2, 3} /\ n < l
        BY <1>1, <2>1, <4>1
      <4> QED  BY <1>1, <2>2, <4>2
    <3>3. id \in Listing(WriteUndo(p)) /\ "subs" \in Listing(WriteUndo(p)) /\ WriteUndo(p) \in Seq(Files)
      BY <2>1, <3>1, TripleFiles, FileNames
    <3> QED  BY <2>1, <3>2, <3>3 DEF n, w
  <2>3. CASE n = 0
    <3>1. WriteUndo(p) = <<>>
      BY <1>3, <2>3 DEF WriteUndo, AddOps, n
    <3> QED  BY <2>3, <3>1, ShortFiles DEF n
  <2> QED  BY <1>1, <2>2, <2>3
<1>4. CASE Op(p) = "remove"
  <2>1. Len(w) = 2 /\ id \in Ids /\ w[1].file = "subs"
    <3>1. Len(w) = 2 /\ id \in Ids /\ w[1] = Write("subs", RetiredAfter(d["subs"], id))
      BY <1>2, <1>4, RemovePlanned
    <3> QED  BY <3>1, WriteFields
  <2>2. WriteUndo(p) = <<id, "subs">>
    BY <1>4 DEF WriteUndo, RemoveUndo, AddOps, id
  <2>3. "subs" \in Listing(WriteUndo(p)) /\ WriteUndo(p) \in Seq(Files)
    BY <2>1, <2>2, ShortFiles, FileNames
  <2>4. n = 0 \/ n = 1
    BY <1>1, <2>1 DEF n, w
  <2> QED  BY <2>1, <2>3, <2>4 DEF n, w
<1>5. CASE Op(p) = "refresh"
  <2>1. PICK u : u = CachesWritten(p)
    OBVIOUS
  <2>2. u = [k \in 1 .. n |-> w[k].file]
    <3>1. CachesWritten(p) = [k \in 1 .. (IF n < Len(w) THEN n ELSE n - 1) |-> w[k].file]
      BY DEF CachesWritten, n, w
    <3>2. (IF n < Len(w) THEN n ELSE n - 1) = n
      BY <1>1
    <3> QED  BY <2>1, <3>1, <3>2
  <2>3. u \in Seq(Files) /\ \A k \in 1 .. n : w[k].file \in Listing(u)
    <3>1. n <= Len(w)
      BY <1>1
    <3> QED  BY <1>1, <2>2, <3>1, FilesOf
  <2>4. PICK v : v = IF w[n + 1].file = "subs" THEN <<"subs">> ELSE <<>>
    OBVIOUS
  <2>5. v \in Seq(Files)
    BY <2>4, ShortFiles, FileNames
  <2>6. WriteUndo(p) = u \o v
    BY <1>5, <2>1, <2>4 DEF WriteUndo, AddOps, n, w
  <2> QED  BY <2>3, <2>5, <2>6, CatFiles DEF n, w
<1>6. CASE Op(p) \notin AddOps \cup {"remove", "refresh"}
  <2>1. WriteUndo(p) = <<>>
    BY <1>6 DEF WriteUndo
  <2>2. Op(p) # "restore" => Len(w) = 1
    <3>1. Op(p) # "restore" => Op(p) \in {"switch", "agent", "tun"} \cup OverlayOps
      BY <1>2, <1>6 DEF PlanOps
    <3>2. c.op # "restore" => c.op \in {"switch", "agent", "tun"} \cup OverlayOps
      BY <1>2, <3>1
    <3>3. c.op # "restore" => Len(w) = 1
      BY <1>2, <3>2, OnePlanned
    <3> QED  BY <1>2, <3>3
  <2>3. ASSUME Op(p) # "restore"
        PROVE  n = 0
    <3>1. PICK l : l = Len(w)
      OBVIOUS
    <3>2. l = 1 /\ n \in Nat /\ n < l
      BY <1>1, <2>2, <2>3, <3>1
    <3> QED  BY <3>2
  <2>4. (Op(p) # "restore" \/ ps[p].at = 0) => ps[p].at = 0
    BY <2>3 DEF n
  <2>5. \A k \in 1 .. 0 : FALSE
    OBVIOUS
  <2> QED  BY <2>1, <2>4, <2>5, ShortFiles
<1> QED  BY <1>3, <1>4, <1>5, <1>6

\* What a command has changed before it merges is undone when the merge fails.
LEMMA MergeUndoCovers ==
  ASSUME NEW p \in Procs, Planned(p), ps[p].at = Len(ps[p].plan), Merges(ps[p].cmd)
  PROVE  /\ MergeUndo(p) \in Seq(Files)
         /\ Touched(p) \subseteq Listing(MergeUndo(p)) /\ "config" \notin Touched(p)
<1> DEFINE w == ps[p].plan
           id == ps[p].id
<1>1. IsPlan(w) /\ Len(w) \in Nat /\ DOMAIN w = 1 .. Len(w)
  BY PlannedShape DEF IsPlan
<1> DEFINE c == ps[p].cmd
           d == ps[p].snap
<1>2. /\ c.op \in PlanOps /\ CmdOK(c) /\ id \in Targets(c, d)
      /\ w = Writes(c, id, d) /\ SubsOK(d["subs"]) /\ Op(p) = c.op
      /\ (\E k \in DOMAIN w : w[k].file = "active") => ps[p].activated
      /\ ps[p].activated => (\E k \in DOMAIN w : w[k].file = "active") \/ Op(p) = "add"
  BY DEF Planned, Based, Op, Writing
<1>3. Touched(p) = {w[k].file : k \in DOMAIN w} \cup (IF ps[p].activated THEN {"active"} ELSE {})
  BY DEF Touched
<1>4. Op(p) \in {"add", "import", "refresh", "switch"} \cup OverlayOps
  BY DEF Merges, Op
<1> HIDE DEF w, id, c, d
<1>5. CASE Op(p) \in {"add", "import"}
  <2>1. Op(p) \in AddOps
    BY <1>5 DEF AddOps
  <2>2. /\ id \in Ids /\ Len(w) \in {2, 3} /\ w[1].file = id /\ w[2].file = "subs"
        /\ Len(w) = 3 => w[3].file = "active"
    BY <1>2, <2>1, AddPlanned, WriteFields
  <2>3. PICK v : v = IF ps[p].activated THEN <<"active">> ELSE <<>>
    OBVIOUS
  <2>4. PICK u : u = <<id, "subs">>
    OBVIOUS
  <2>5. MergeUndo(p) = u \o v
    BY <1>5, <2>3, <2>4 DEF MergeUndo, OverlayOps, id
  <2>6. u \in Seq(Files) /\ v \in Seq(Files) /\ id \in Listing(u) /\ "subs" \in Listing(u)
    BY <2>2, <2>3, <2>4, ShortFiles, FileNames
  <2>7. ps[p].activated => "active" \in Listing(v)
    BY <2>3, ShortFiles, FileNames
  <2>8. \A k \in DOMAIN w : w[k].file \in {id, "subs"} \/ (w[k].file = "active" /\ ps[p].activated)
    <3>1. \A k \in DOMAIN w : k = 1 \/ k = 2 \/ (k = 3 /\ Len(w) = 3)
      BY <1>1, <2>2
    <3> QED  BY <1>2, <2>2, <3>1
  <2>9. Touched(p) \subseteq {id, "subs"} \cup (IF ps[p].activated THEN {"active"} ELSE {})
    BY <1>3, <2>8
  <2> QED  BY <2>2, <2>5, <2>6, <2>7, <2>9, CatFiles, FileNames
<1>6. CASE Op(p) = "refresh"
  <2>1. /\ \A k \in 1 .. Len(w) - 1 : w[k].file \in Ids
        /\ Len(w) > 0 => w[Len(w)].file = "subs"
    <3>1. /\ \A k \in 1 .. Len(w) - 1 : w[k].file \in Ids /\ w[k].val = c.data
          /\ Len(w) > 0 => w[Len(w)] = Write("subs", d["subs"])
      <4>1. c.op = "refresh"
        BY <1>2, <1>6
      <4> QED  BY <1>2, <4>1, RefreshPlanned
    <3> QED  BY <3>1, WriteFields
  <2>2. \A k \in DOMAIN w : k \in 1 .. Len(w) - 1 \/ (k = Len(w) /\ Len(w) > 0)
    BY <1>1
  <2>3. \A k \in DOMAIN w : w[k].file \in Ids \cup {"subs"}
    BY <2>1, <2>2
  <2>4. ~ps[p].activated
    BY <1>2, <1>6, <2>3, FileNames
  <2>5. Touched(p) = {w[k].file : k \in DOMAIN w}
    BY <1>3, <2>4
  <2>6. PICK n \in Nat : n <= Len(w) /\ 1 .. n = 1 .. Len(w) - 1
    <3>1. CASE Len(w) = 0
      <4>1. 0 \in Nat /\ 0 <= Len(w) /\ 1 .. 0 = 1 .. 0 - 1
        BY <3>1
      <4> QED  BY <3>1, <4>1
    <3>2. CASE Len(w) # 0
      <4>1. Len(w) - 1 \in Nat /\ Len(w) - 1 <= Len(w)
        BY <1>1, <3>2
      <4> QED  BY <4>1
    <3> QED  BY <3>1, <3>2
  <2>8. PICK u : u = [k \in 1 .. n |-> w[k].file]
    OBVIOUS
  <2>9. u = CachesWritten(p)
    <3>2. CachesWritten(p) = [k \in 1 .. Len(w) - 1 |-> w[k].file]
      BY <1>1 DEF CachesWritten, w
    <3> QED  BY <2>6, <2>8, <3>2
  <2>10. u \in Seq(Files) /\ \A k \in 1 .. n : w[k].file \in Listing(u)
    BY <1>1, <2>6, <2>8, FilesOf
  <2>11. MergeUndo(p) = u \o <<"subs">>
    BY <1>6, <2>9 DEF MergeUndo, OverlayOps
  <2>12. <<"subs">> \in Seq(Files) /\ "subs" \in Listing(<<"subs">>)
    BY ShortFiles, FileNames
  <2>13. MergeUndo(p) \in Seq(Files) /\ Listing(u) \subseteq Listing(MergeUndo(p)) /\ "subs" \in Listing(MergeUndo(p))
    BY <2>10, <2>11, <2>12, CatFiles
  <2>14. \A k \in DOMAIN w : k \in 1 .. n \/ w[k].file = "subs"
    BY <1>1, <2>1, <2>2, <2>6
  <2>15. Touched(p) \subseteq Listing(MergeUndo(p))
    BY <2>5, <2>10, <2>13, <2>14
  <2>16. "config" \notin Touched(p)
    BY <2>3, <2>5, FileNames
  <2> QED  BY <2>13, <2>15, <2>16
<1>7. CASE Op(p) = "switch"
  <2>1. Len(w) = 1 /\ w[1].file = "active"
    <3>1. Len(w) = 1 /\ w[1] = Write("active", id)
      <4>1. c.op = "switch" /\ c.op \in {"switch", "agent", "tun"} \cup OverlayOps
        BY <1>2, <1>7
      <4> QED  BY <1>2, <4>1, OnePlanned
    <3> QED  BY <3>1, WriteFields
  <2>2. Touched(p) = {"active"}
    BY <1>1, <1>3, <2>1
  <2>3. MergeUndo(p) = <<"active">>
    BY <1>7 DEF MergeUndo, OverlayOps
  <2> QED  BY <2>2, <2>3, ShortFiles, FileNames
<1>8. CASE Op(p) \in OverlayOps
  <2>1. Len(w) = 1 /\ w[1].file = "overlay"
    BY <1>2, <1>8, OnePlanned
  <2>2. ~ps[p].activated
    BY <1>1, <1>2, <1>8, <2>1 DEF OverlayOps
  <2>3. Touched(p) = {"overlay"}
    BY <1>1, <1>3, <2>1, <2>2
  <2>4. MergeUndo(p) = <<"overlay", "config">> \/ MergeUndo(p) = <<"overlay">>
    BY <1>8 DEF MergeUndo, OverlayOps
  <2> QED  BY <2>3, <2>4, ShortFiles, FileNames
<1> QED  BY <1>4, <1>5, <1>6, <1>7, <1>8

-----------------------------------------------------------------------------
(* The invariant.                                                          *)

\* What still has to be restored.
Pending(p) == Listing(ps[p].undo)

\* What a process that holds the lock has made of the files.
Held(p) ==
  LET s == ps[p]
  IN /\ s.pc = "plan" => Same(disk, {})
     /\ s.pc = "write" => Planned(p) /\ Applied(Stable, s.plan, s.at, s.snap, disk)
     /\ s.pc = "prompt" => /\ Done(p, {}) /\ Op(p) = "add"
                           /\ "undo" \notin torn => s.id \in Alive(disk["subs"]) /\ disk[s.id] # NoFile
     /\ s.pc = "want" => Done(p, {})
     /\ s.pc = "merge" /\ Op(p) # "menu-add" => Done(p, {})
     /\ s.pc = "validate" /\ Op(p) # "menu-add" =>
          Done(p, {"config"}) /\ (count.fixes = 0 => s.prev = last["config"])
     /\ s.pc = "undo" => /\ Based(p) /\ s.undo \in Seq(Files)
                         /\ "undo" \notin torn => Same(disk, Pending(p))
     /\ s.pc = "failed" => (torn = {} => Same(disk, {}))

Holds(p) == depth[p] > 0 => Held(p)

\* A hold that writes in place keeps the pointer usable at every step.
Safe(p) ==
  "undo" \notin torn /\ depth[p] > 0 /\ ps[p].pc # "undo" /\ ~(ps[p].pc = "write" /\ Op(p) = "restore")
    => Usable(disk)

\* Commands as they are issued.
AskedBy(p) ==
  /\ CmdOK(ps[p].cmd)
  /\ ps[p].pc = "want" /\ ps[p].then = "plan" => Op(p) \in PlanOps /\ ps[p].at = 0
  /\ ps[p].pc = "plan" => Op(p) \in PlanOps /\ ps[p].at = 0
  /\ ps[p].pc = "write" => Op(p) \in PlanOps
  /\ ps[p].pc = "fixed" => count.fixes # 0

Asked == \A p \in Procs : AskedBy(p)

Kept == IsDisk(disk) /\ IsDisk(last) /\ SubsOK(disk["subs"]) /\ SubsOK(last["subs"])

\* Between two holds the files are as the last hold left them.
Free == lock = None => Same(disk, {})

Pointer == "undo" \notin torn => Usable(last)

Inv == Shaped /\ Locking /\ Asked /\ Kept /\ Free /\ Pointer /\ \A p \in Procs : Safe(p) /\ Holds(p)

-----------------------------------------------------------------------------
(* Commands.                                                               *)

IsRecord(c) ==
  c = [op |-> c.op, url |-> c.url, ids |-> c.ids, data |-> c.data, activate |-> c.activate,
       base |-> c.base, menu |-> c.menu]

\* What a command takes along of the files it read before it had the lock.
CmdReads(c, d) ==
  /\ c.op \in OverlayOps => c.data \in Contents
  /\ c.op \in {"tun", "fix"} => c.base = d["config"]

LEMMA CommandsOK ==
  ASSUME NEW d, NEW c \in Commands(d)
  PROVE  CmdOK(c) /\ CmdReads(c, d) /\ c.op \in PlanOps \cup {"fix"}
<1>1. /\ Plain.op = "none" /\ Plain.url = None /\ Plain.data = NoFile /\ Plain.activate = "no"
      /\ IsRecord(Plain)
  BY DEF Plain, IsRecord
<1>2. CASE c \in AddCommands \cup UrlCommands \cup ImportCommands \cup MenuAdds
  <2>1. ASSUME NEW o, NEW A, NEW e \in Adding(o, A)
        PROVE  e.op = o /\ e.url \in Urls /\ e.data \in Contents /\ e.activate \in A
    <3>1. PICK u \in Urls, x \in Fetched, a \in A : e = Addition(o, u, x, a)
      BY <2>1 DEF Adding
    <3>2. x \in Contents
      BY DEF Fetched
    <3>3. e.op = o /\ e.url = u /\ e.data = x /\ e.activate = a
      BY <1>1, <3>1 DEF IsRecord, Addition
    <3> QED  BY <3>2, <3>3
  <2>2. /\ c.op \in AddOps /\ c.url \in Urls /\ c.data \in Contents
        /\ c.activate = "auto" => c.op \in {"add", "menu-add"}
    BY <1>2, <2>1 DEF AddCommands, UrlCommands, ImportCommands, MenuAdds, AddOps
  <2> QED  BY <2>2 DEF CmdOK, CmdReads, PlanOps, AddOps, OverlayOps
<1>3. ASSUME NEW o, NEW S, NEW e \in About(o, S)
      PROVE  e.op = o /\ e.activate = "no" /\ IsRecord(e)
  <2>1. PICK i \in S : e = [Plain EXCEPT !.op = o, !.ids = {i}]
    BY <1>3 DEF About
  <2> QED  BY <1>1, <2>1 DEF IsRecord
<1>4. ASSUME NEW e \in RefreshCommands(d)
      PROVE  e.op = "refresh" /\ e.activate = "no" /\ e.data \in Contents /\ IsRecord(e)
  <2>1. PICK S \in {{d["active"]}, Alive(d["subs"])} \ {{}, {None}}, x \in Fetched : e = Refresh(S, x)
    BY <1>4 DEF RefreshCommands
  <2> QED  BY <1>1, <2>1 DEF IsRecord, Refresh, Fetched
<1>5. CASE c \in SwitchCommands(d) \cup RemoveCommands(d) \cup AgentCommands(d)
  <2>1. c.op \in {"switch", "remove", "agent"} /\ c.activate = "no"
    BY <1>3, <1>5 DEF SwitchCommands, RemoveCommands, AgentCommands
  <2> QED  BY <2>1 DEF CmdOK, CmdReads, PlanOps, AddOps, OverlayOps
<1>6. CASE c \in RefreshCommands(d)
  BY <1>4, <1>6 DEF CmdOK, CmdReads, PlanOps, AddOps, OverlayOps
<1>7. CASE c \in MenuCommands(d) /\ c \notin RemoveCommands(d)
  <2>1. PICK e \in RefreshCommands(d) \cup SwitchCommands(d) : c = [e EXCEPT !.menu = TRUE]
    BY <1>7 DEF MenuCommands
  <2>2. IsRecord(e) /\ e.activate = "no" /\ (e.op = "switch" \/ (e.op = "refresh" /\ e.data \in Contents))
    BY <1>3, <1>4, <2>1 DEF SwitchCommands
  <2>3. c.op = e.op /\ c.activate = e.activate /\ c.data = e.data
    BY <2>1, <2>2 DEF IsRecord
  <2> QED  BY <2>2, <2>3 DEF CmdOK, CmdReads, PlanOps, AddOps, OverlayOps
<1>8. CASE c \in RuleEdits \cup PolicyEdits \cup TemplateEdits \cup FakeIpEdits \cup GroupEdits \cup OverrideEdits
  <2>1. PICK o \in OverlayOps, x \in Contents : c = [Plain EXCEPT !.op = o, !.data = x]
    BY <1>8 DEF RuleEdits, PolicyEdits, TemplateEdits, FakeIpEdits, GroupEdits, OverrideEdits, OverlayEdits, OverlayOps
  <2>2. c.op = o /\ c.activate = "no" /\ c.data = x
    BY <1>1, <2>1 DEF IsRecord
  <2> QED  BY <2>1, <2>2 DEF CmdOK, CmdReads, PlanOps, AddOps, OverlayOps
<1>9. CASE c \in SwitchTun(d) \cup FixConfig(d) \cup Restore
  <2>1. /\ c.op \in {"tun", "fix", "restore"} /\ c.activate = "no"
        /\ c.op \in {"tun", "fix"} => c.base = d["config"]
    BY <1>1, <1>9 DEF SwitchTun, FixConfig, Restore, IsRecord
  <2> QED  BY <2>1 DEF CmdOK, CmdReads, PlanOps, AddOps, OverlayOps
<1> QED  BY <1>2, <1>5, <1>6, <1>7, <1>8, <1>9 DEF Commands

LEMMA IdleAsked ==
  ASSUME NEW p \in Procs, ps'[p] = Idle
  PROVE  AskedBy(p)'
<1>1. CmdOK(Plain)
  BY IdleShaped DEF CmdOK, AddOps, PlanOps
<1> QED  BY <1>1, IdleShaped DEF AskedBy

LEMMA StepAsked ==
  ASSUME Shaped, Locking, Asked, NEW p \in Procs, Step(p)
  PROVE  Asked'
<1>1. /\ \A q \in Procs \ {p} : ps'[q] = ps[q]
      /\ count.fixes # 0 => count'.fixes # 0
  BY StepMoves, StepCounts DEF Moves
<1>2. \A q \in Procs \ {p} : AskedBy(q)'
  BY <1>1 DEF Asked, AskedBy, Op
<1> SUFFICES AskedBy(p)'
  BY <1>2 DEF Asked
<1>3. AskedBy(p)
  BY DEF Asked
<1>4. ASSUME ps'[p].cmd = ps[p].cmd, ps'[p].pc \notin {"plan", "write", "fixed"},
             ps'[p].pc = "want" => ps'[p].then \in {"merge", "reconcile"}
      PROVE  AskedBy(p)'
  BY <1>3, <1>4 DEF AskedBy
<1>5. ASSUME NEW x, x \notin {"plan", "write", "fixed", "want"}, ps' = [ps EXCEPT ![p].pc = x]
      PROVE  AskedBy(p)'
  BY <1>4, <1>5, GotoEffect DEF Keeps
<1>6. ASSUME NEW u, ps' = [ps EXCEPT ![p] = Undoing(p, u)]
      PROVE  AskedBy(p)'
  BY <1>4, <1>6, UndoingEffect DEF Keeps
<1>7. CASE ps' = [ps EXCEPT ![p] = Idle]
  BY <1>7, IdleEffect, IdleAsked
<1>8. CASE Begin(p)
  <2>1. PICK c \in Commands(disk) : /\ ps'[p].cmd = c /\ ps'[p].then = "plan" /\ ps'[p].at = 0
                                    /\ ps'[p].pc = IF c.op = "fix" THEN "fix" ELSE "want"
    BY <1>8, BeginEffect
  <2>2. CmdOK(c) /\ c.op \in PlanOps \cup {"fix"}
    BY CommandsOK
  <2>3. ps'[p].pc \in {"fix", "want"} /\ (ps'[p].pc = "want" => c.op \in PlanOps)
    BY <2>1, <2>2
  <2> QED  BY <2>1, <2>2, <2>3 DEF AskedBy, Op
<1>9. CASE Acquire(p)
  <2>1. ps' = [ps EXCEPT ![p].pc = ps[p].then] /\ ps[p].pc = "want"
    BY <1>9 DEF Acquire, At
  <2>2. ps'[p].pc = ps[p].then /\ ps'[p].cmd = ps[p].cmd /\ ps'[p].at = ps[p].at
    BY <2>1, GotoEffect DEF Keeps
  <2>3. ps[p].then \in {"plan", "merge", "reconcile"}
    BY <2>1 DEF Locking, Locked, Depths
  <2> QED  BY <1>3, <2>1, <2>2, <2>3 DEF AskedBy, Op
<1>10. CASE Plan(p)
  <2>1. Op(p) \in PlanOps
    BY <1>3, <1>10 DEF Plan, At, AskedBy
  <2>2. CASE ps' = [ps EXCEPT ![p].pc = "failed"]
    <3>1. ps'[p].pc = "failed" /\ ps'[p].cmd = ps[p].cmd
      BY <2>2, GotoEffect DEF Keeps
    <3> QED  BY <1>4, <3>1
  <2>3. CASE ps'[p].pc = "write" /\ ps'[p].cmd = ps[p].cmd
    BY <1>3, <2>1, <2>3 DEF AskedBy, Op
  <2> QED  BY <1>10, <2>2, <2>3, PlanEffect
<1>11. CASE WriteNext(p)
  <2>1. ps'[p].cmd = ps[p].cmd /\ ps'[p].pc = ps[p].pc /\ ps[p].pc = "write"
    BY <1>11, WriteNextEffect DEF Keeps, WriteNext, At
  <2> QED  BY <1>3, <2>1 DEF AskedBy, Op
<1>12. CASE Written(p)
  <2>1. CASE Merges(ps[p].cmd)
    <3>1. ps'[p].cmd = ps[p].cmd /\ ps'[p].pc \in {"prompt", "want"} /\ ps'[p].then = "merge"
      BY <1>12, <2>1, WrittenEffect DEF Keeps
    <3> QED  BY <1>4, <3>1
  <2>2. CASE ~Merges(ps[p].cmd)
    <3>1. ps'[p].cmd = ps[p].cmd /\ ps'[p].pc = "leave"
      BY <1>12, <2>2, WrittenEffect DEF Keeps
    <3> QED  BY <1>4, <3>1
  <2> QED  BY <2>1, <2>2
<1>13. CASE Prompt(p)
  <2>1. ps'[p].cmd = ps[p].cmd /\ ps'[p].pc = "want" /\ ps'[p].then = ps[p].then
    BY <1>13, PromptEffect DEF Keeps
  <2>2. ps[p].then = "merge"
    BY <1>13 DEF Prompt, At, Locking, Locked, Depths
  <2> QED  BY <1>4, <2>1, <2>2
<1>14. CASE MergeWrite(p)
  <2>1. ps'[p].cmd = ps[p].cmd /\ ps'[p].pc \in {"validate", "undo"}
    BY <1>14, MergeWriteEffect DEF Keeps
  <2> QED  BY <1>4, <2>1
<1>15. CASE UndoNext(p) \/ UndoFails(p)
  <2>1. ps'[p].cmd = ps[p].cmd /\ ps'[p].pc = ps[p].pc /\ ps[p].pc = "undo"
    BY <1>15, UndoEffect DEF Keeps, UndoNext, UndoFails, At
  <2> QED  BY <1>4, <2>1
<1>16. CASE Leave(p)
  <2>1. \/ ps'[p].cmd = ps[p].cmd /\ ps'[p].pc \in {"send", "apply"}
        \/ ps'[p].cmd = ps[p].cmd /\ ps'[p].pc = "want" /\ ps'[p].then = "merge"
        \/ ps'[p] = Idle
    BY <1>16, LeaveEffect
  <2> QED  BY <1>4, <2>1, IdleAsked
<1>17. CASE ReadBase(p)
  <2>1. ps'[p].pc = "want" /\ ps'[p].then = "reconcile" /\ ps'[p].cmd = ps[p].cmd
    BY <1>17, ReadBaseEffect
  <2> QED  BY <1>4, <2>1
<1>18. CASE Reconcile(p)
  <2>1. \/ ps'[p].pc = "reconciled" /\ ps'[p].cmd = ps[p].cmd
        \/ ps'[p].pc = "leave" /\ ps'[p].cmd = Plain
    BY <1>18, ReconcileEffect
  <2>2. CmdOK(Plain)
    BY IdleShaped DEF CmdOK, AddOps, PlanOps
  <2> QED  BY <1>4, <2>1, <2>2 DEF AskedBy
<1>19. CASE Fix(p)
  <2>1. ps' = [ps EXCEPT ![p].pc = "fixed"] /\ count' = [count EXCEPT !.fixes = 1]
    BY <1>19 DEF Fix
  <2>2. ps'[p].pc = "fixed" /\ ps'[p].cmd = ps[p].cmd
    BY <2>1, GotoEffect DEF Keeps
  <2>3. count'.fixes = 1
    BY <2>1 DEF Shaped, IsCount
  <2> QED  BY <1>3, <2>2, <2>3 DEF AskedBy
<1>20. CASE ResolveFails(p) \/ Undone(p)
  BY <1>5, <1>20 DEF ResolveFails, Undone
<1>21. CASE Validate(p)
  BY <1>5, <1>6, <1>21 DEF Validate
<1>22. CASE WriteFails(p) \/ MergeFails(p)
  BY <1>6, <1>22 DEF WriteFails, MergeFails
<1>23. CASE AcquireTimesOut(p) \/ Send(p) \/ FixChecked(p) \/ Crash(p)
  BY <1>7, <1>23 DEF AcquireTimesOut, Send, FixChecked, Crash
<1> QED  BY <1>8, <1>9, <1>10, <1>11, <1>12, <1>13, <1>14, <1>15, <1>16, <1>17, <1>18, <1>19,
            <1>20, <1>21, <1>22, <1>23 DEF Step

-----------------------------------------------------------------------------
(* Outside the lock.                                                       *)

\* All a step that is outside the lock changes is config.yaml, and it says so.
Quiet ==
  /\ UNCHANGED <<lock, last, torn>> /\ IsDisk(disk')
  /\ \A f \in Files \ {"config"} : disk'[f] = disk[f]
  /\ Stable' \subseteq Stable /\ (count'.fixes = 0 => count.fixes = 0)
  /\ \A f \in Stable' : disk'[f] = disk[f]

LEMMA StableKnown == Stable \subseteq Files /\ IsView(Stable)
BY DEF Stable, IsView

LEMMA Aside ==
  ASSUME Inv, NEW p \in Procs, Step(p), depth[p] = 0, ~Acquire(p)
  PROVE  Quiet /\ depth'[p] = 0
<1>1. Shaped /\ Locked(p) /\ AskedBy(p) /\ Kept /\ p # None
  BY IdsAssumption DEF Inv, Locking, Asked
<1>2. lock # p /\ Depths(p)
  BY <1>1 DEF Locked
<1>3. count'.fixes = count.fixes \/ (Fix(p) /\ count'.fixes = 1)
  BY <1>1, StepCounts
<1>4. ASSUME UNCHANGED <<disk, lock, depth, last, torn>>
      PROVE  Quiet /\ depth'[p] = 0
  BY <1>1, <1>3, <1>4 DEF Quiet, Kept, Stable
<1>5. CASE Begin(p) \/ ReadBase(p) \/ Send(p) \/ Undone(p)
  BY <1>4, <1>5 DEF Begin, ReadBase, Send, Undone
<1>6. CASE AcquireTimesOut(p)
  <2>1. UNCHANGED <<disk, lock, last, torn>> /\ depth' = [depth EXCEPT ![p] = depth[p]]
    BY <1>6 DEF AcquireTimesOut, DepthAfterTimeout
  <2>2. depth' = depth
    BY <1>1, <2>1 DEF Shaped
  <2> QED  BY <1>4, <2>1, <2>2
<1>7. CASE Leave(p)
  BY <1>4, <1>7 DEF Leave
<1>8. CASE Crash(p)
  <2>1. UNCHANGED <<disk, lock, last, torn>> /\ depth' = [depth EXCEPT ![p] = 0]
    BY <1>2, <1>8 DEF Crash
  <2>2. depth' = depth
    BY <1>1, <2>1 DEF Shaped
  <2> QED  BY <1>4, <2>1, <2>2
<1>9. ASSUME NEW v, disk' = disk \/ disk' = [disk EXCEPT !["config"] = v], UNCHANGED <<lock, depth, last, torn>>,
             count'.fixes # 0
      PROVE  Quiet /\ depth'[p] = 0
  <2>1. IsDisk(disk') /\ \A f \in Files \ {"config"} : disk'[f] = disk[f]
    BY <1>1, <1>9, FileNames DEF Kept, IsDisk
  <2>2. Stable' = Files \ {"config"}
    BY <1>9 DEF Stable
  <2> QED  BY <1>9, <2>1, <2>2 DEF Quiet, Stable
<1>10. CASE Fix(p)
  <2>1. count'.fixes # 0
    <3>1. count' = [count EXCEPT !.fixes = 1]
      BY <1>10 DEF Fix
    <3> QED  BY <1>1, <3>1 DEF Shaped, IsCount
  <2> QED  BY <1>9, <1>10, <2>1 DEF Fix
<1>11. CASE FixChecked(p)
  <2>1. count'.fixes # 0
    BY <1>1, <1>11 DEF FixChecked, At, AskedBy
  <2> QED  BY <1>9, <1>11, <2>1 DEF FixChecked
<1>12. CASE Plan(p) \/ WriteNext(p) \/ Written(p) \/ WriteFails(p) \/ Prompt(p) \/ MergeWrite(p) \/ MergeFails(p)
            \/ Validate(p) \/ ResolveFails(p) \/ UndoNext(p) \/ UndoFails(p) \/ Reconcile(p)
  <2>1. ps[p].pc \notin {"plan", "write", "prompt", "merge", "validate", "reconcile"}
    BY <1>2 DEF Depths
  <2>2. ~ResolveFails(p)
    BY <1>2 DEF ResolveFails, Unresolved, At, Depths
  <2>3. ~UndoNext(p) /\ ~UndoFails(p)
    BY <1>2 DEF UndoNext, UndoFails, At, Depths
  <2> QED  BY <1>12, <2>1, <2>2, <2>3 DEF Plan, WriteNext, Written, WriteFails, Prompt, MergeWrite, MergeFails,
             Validate, Reconcile, At
<1> QED  BY <1>5, <1>6, <1>7, <1>8, <1>10, <1>11, <1>12 DEF Step

\* It disturbs no hold.
LEMMA QuietHold ==
  ASSUME Kept, Quiet, NEW q \in Procs, ps'[q] = ps[q], depth'[q] = depth[q], Safe(q), Holds(q)
  PROVE  Safe(q)' /\ Holds(q)'
<1>1. Safe(q)'
  <2>1. Usable(disk) => Usable(disk')
    BY UsableViews DEF Kept, Quiet
  <2> QED  BY <2>1 DEF Safe, Quiet, Op
<1>2. ASSUME NEW d, NEW S, Same(d, S)
      PROVE  Same(d, S)'
  BY <1>2 DEF Same, Quiet
<1>3. ASSUME NEW S, Same(disk, S)
      PROVE  Same(disk, S)'
  BY <1>3 DEF Same, Quiet
<1>4. Based(q) => Based(q)'
  BY <1>2 DEF Based
<1>5. Planned(q) => Planned(q)'
  BY <1>4 DEF Planned, Quiet, Writing, Op
<1>6. ASSUME NEW S, Done(q, S)
      PROVE  Done(q, S)'
  BY <1>3, <1>5, <1>6 DEF Done, Touched
<1>7. ASSUME NEW w, NEW n, NEW d, Applied(Stable, w, n, d, disk)
      PROVE  Applied(Stable, w, n, d, disk)'
  BY <1>7, AppliedStays DEF Quiet
<1>8. ASSUME Held(q)
      PROVE  Held(q)'
  <2>1. Op(q)' = Op(q) /\ last' = last /\ torn' = torn /\ (count'.fixes = 0 => count.fixes = 0)
    BY DEF Op, Quiet
  <2>2. /\ ps[q].pc = "plan" => Same(disk, {})
        /\ ps[q].pc = "write" => Planned(q) /\ Applied(Stable, ps[q].plan, ps[q].at, ps[q].snap, disk)
        /\ ps[q].pc = "want" => Done(q, {})
        /\ ps[q].pc = "merge" /\ Op(q) # "menu-add" => Done(q, {})
        /\ ps[q].pc = "validate" /\ Op(q) # "menu-add" =>
             Done(q, {"config"}) /\ (count.fixes = 0 => ps[q].prev = last["config"])
        /\ ps[q].pc = "undo" => /\ Based(q) /\ ps[q].undo \in Seq(Files)
                                /\ "undo" \notin torn => Same(disk, Pending(q))
        /\ ps[q].pc = "failed" => (torn = {} => Same(disk, {}))
    BY <1>8 DEF Held
  <2>3. (ps[q].pc = "plan" => Same(disk, {}))'
    BY <1>3, <2>2
  <2>4. (ps[q].pc = "write" => Planned(q) /\ Applied(Stable, ps[q].plan, ps[q].at, ps[q].snap, disk))'
    BY <1>5, <1>7, <2>2
  <2>5. (ps[q].pc = "want" => Done(q, {}))'
    BY <1>6, <2>2
  <2>6. (ps[q].pc = "merge" /\ Op(q) # "menu-add" => Done(q, {}))'
    BY <1>6, <2>1, <2>2
  <2>7. (ps[q].pc = "validate" /\ Op(q) # "menu-add" =>
           Done(q, {"config"}) /\ (count.fixes = 0 => ps[q].prev = last["config"]))'
    BY <1>6, <2>1, <2>2
  <2>8. (ps[q].pc = "undo" => /\ Based(q) /\ ps[q].undo \in Seq(Files)
                              /\ "undo" \notin torn => Same(disk, Pending(q)))'
    <3>1. SUFFICES ASSUME ps[q].pc = "undo"
                   PROVE  /\ Based(q)' /\ ps[q].undo \in Seq(Files)
                          /\ "undo" \notin torn => Same(disk, Pending(q))'
      BY <2>1
    <3>2. Based(q)' /\ ps[q].undo \in Seq(Files)
      BY <1>4, <2>2, <3>1
    <3>3. ASSUME "undo" \notin torn
          PROVE  Same(disk, Pending(q))'
      <4>1. Same(disk, Pending(q))
        BY <2>2, <3>1, <3>3
      <4> QED  BY <4>1 DEF Same, Pending, Quiet
    <3> QED  BY <3>2, <3>3
  <2>9. (ps[q].pc = "failed" => (torn = {} => Same(disk, {})))'
    BY <1>3, <2>1, <2>2
  <2>10. (ps[q].pc = "prompt" =>
            /\ Done(q, {}) /\ Op(q) = "add"
            /\ "undo" \notin torn => ps[q].id \in Alive(disk["subs"]) /\ disk[ps[q].id] # NoFile)'
    <3>1. SUFFICES ASSUME ps[q].pc = "prompt"
                   PROVE  /\ Done(q, {})' /\ Op(q) = "add"
                          /\ "undo" \notin torn => ps[q].id \in Alive(disk'["subs"]) /\ disk'[ps[q].id] # NoFile
      BY <2>1
    <3>2. /\ Done(q, {}) /\ Op(q) = "add"
          /\ "undo" \notin torn => ps[q].id \in Alive(disk["subs"]) /\ disk[ps[q].id] # NoFile
      BY <1>8, <3>1 DEF Held
    <3>3. disk'["subs"] = disk["subs"]
      BY FileNames DEF Quiet
    <3>4. ASSUME "undo" \notin torn
          PROVE  ps[q].id \in Alive(disk'["subs"]) /\ disk'[ps[q].id] # NoFile
      <4>1. ps[q].id \in Ids
        BY <3>2, <3>4, LivingKnown DEF Kept
      <4>2. disk'[ps[q].id] = disk[ps[q].id]
        BY <4>1, FileNames DEF Quiet
      <4> QED  BY <3>2, <3>3, <3>4, <4>2
    <3> QED  BY <1>6, <3>2, <3>4
  <2> HIDE <2>2
  <2> QED  BY <2>3, <2>4, <2>5, <2>6, <2>7, <2>8, <2>9, <2>10 DEF Held
<1> QED  BY <1>1, <1>8 DEF Holds

-----------------------------------------------------------------------------
(* Inside the lock.                                                        *)

\* What a step of p has to establish.
Goal(p) == Kept /\ Free /\ Pointer /\ Safe(p) /\ Holds(p)

LEMMA Ground ==
  ASSUME Inv, NEW p \in Procs
  PROVE  /\ Shaped /\ Locked(p) /\ Depths(p) /\ AskedBy(p) /\ Goal(p) /\ p # None
         /\ depth[p] \in 0 .. 2 /\ (lock = p <=> depth[p] > 0)
BY IdsAssumption DEF Inv, Locking, Locked, Asked, Goal

LEMMA SameUsable ==
  ASSUME Kept, Same(disk, {}), Usable(last)
  PROVE  Usable(disk)
<1>1. \A f \in Files \ {"config"} : disk[f] = last[f]
  BY DEF Same, Stable
<1> QED  BY <1>1, UsableViews DEF Kept

\* A plan stays what it is.
LEMMA PlannedStays ==
  ASSUME NEW p \in Procs, Planned(p), Keeps(p), last' = last, torn \subseteq torn', Stable' \subseteq Stable,
         \/ ps'[p].activated = ps[p].activated
         \/ ps'[p].activated = TRUE /\ Op(p) = "add"
  PROVE  Planned(p)'
<1>1. Based(p)'
  BY DEF Planned, Based, Same, Keeps
<1> QED  BY <1>1 DEF Planned, Keeps, Writing, Op

\* The outermost hold ends.
LEMMA Ends ==
  ASSUME Inv, NEW p \in Procs, depth[p] = 1, Drop(p), IsDisk(disk'), SubsOK(disk'["subs"]),
         "undo" \notin torn' => Usable(disk')
  PROVE  Goal(p)'
<1>1. Shaped /\ Locked(p)
  BY Ground
<1>2. depth'[p] = 0
  BY <1>1, DropLocks
<1>3. last' = disk'
  BY DEF Drop, Outermost
<1> QED  BY <1>2, <1>3 DEF Goal, Kept, Free, Pointer, Safe, Holds, Same

\* A hold goes on.
LEMMA GoesOn ==
  ASSUME Inv, NEW p \in Procs, lock' = p, last' = last, torn \subseteq torn', IsDisk(disk'), SubsOK(disk'["subs"]),
         Safe(p)', Held(p)'
  PROVE  Goal(p)'
BY Ground DEF Goal, Kept, Free, Pointer, Holds

LEMMA AcquireGoes ==
  ASSUME Inv, NEW p \in Procs, Acquire(p)
  PROVE  Goal(p)'
<1>1. /\ Shaped /\ Locked(p) /\ Depths(p) /\ Goal(p) /\ p # None
      /\ depth[p] \in 0 .. 2 /\ (lock = p <=> depth[p] > 0)
  BY Ground
<1>2. UNCHANGED <<disk, last, torn, count>> /\ ps[p].pc = "want" /\ ps' = [ps EXCEPT ![p].pc = ps[p].then]
  BY DEF Acquire, At
<1>3. /\ ps'[p].pc = ps[p].then /\ Keeps(p) /\ ps'[p].at = ps[p].at /\ ps'[p].activated = ps[p].activated
      /\ Op(p)' = Op(p)
  BY <1>1, <1>2, GotoEffect DEF Keeps, Op
<1>4. ps[p].then \in {"plan", "merge", "reconcile"} /\ lock' = p
  BY <1>1, <1>2 DEF Acquire, Depths
<1>5. Stable' = Stable
  BY <1>2 DEF Stable
<1>6. CASE depth[p] = 0
  <2>1. Same(disk, {}) /\ ~(ps[p].then = "merge" /\ Op(p) # "menu-add")
    BY <1>1, <1>2, <1>6 DEF Acquire, Acquirable, Goal, Free, Depths
  <2>2. Held(p)'
    <3>1. Same(disk, {})'
      BY <1>2, <1>5, <2>1 DEF Same
    <3> QED  BY <1>3, <1>4, <2>1, <3>1 DEF Held
  <2>3. "undo" \notin torn => Usable(disk)
    BY <1>1, <2>1, SameUsable DEF Goal, Pointer
  <2>4. Safe(p)'
    BY <1>2, <2>3 DEF Safe
  <2> QED  BY <1>1, <1>2, <1>4, <2>2, <2>4, GoesOn DEF Goal, Kept
<1>7. CASE depth[p] > 0
  <2>1. ps[p].then = "merge" /\ Op(p) # "menu-add"
    BY <1>1, <1>2, <1>7 DEF Depths
  <2>2. Done(p, {}) /\ ("undo" \notin torn => Usable(disk))
    BY <1>1, <1>2, <1>7 DEF Goal, Holds, Held, Safe
  <2>3. Done(p, {})'
    <3>1. Planned(p)'
      BY <1>2, <1>3, <1>5, <2>2, PlannedStays DEF Done
    <3> QED  BY <1>2, <1>3, <1>5, <2>2, <3>1 DEF Done, Same, Touched, Keeps
  <2>4. Held(p)'
    BY <1>3, <2>1, <2>3 DEF Held
  <2>5. Safe(p)'
    BY <1>2, <2>2 DEF Safe
  <2> QED  BY <1>1, <1>2, <1>4, <2>4, <2>5, GoesOn DEF Goal, Kept
<1> QED  BY <1>1, <1>6, <1>7

LEMMA PlanGoes ==
  ASSUME Inv, NEW p \in Procs, depth[p] > 0, Plan(p)
  PROVE  Goal(p)'
<1>1. Shaped /\ Depths(p) /\ AskedBy(p) /\ Goal(p) /\ p # None /\ lock = p
  BY Ground
<1>2. UNCHANGED <<disk, lock, depth, last, torn, count>> /\ ps[p].pc = "plan"
  BY DEF Plan, At
<1>3. Stable' = Stable
  BY <1>2 DEF Stable
<1>4. Same(disk, {}) /\ ("undo" \notin torn => Usable(disk))
  BY <1>1, <1>2 DEF Goal, Holds, Held, Safe
<1>5. Same(disk, {})'
  BY <1>2, <1>3, <1>4 DEF Same
<1>6. Safe(p)'
  BY <1>2, <1>4 DEF Safe
<1>7. Held(p)'
  <2>1. CASE ps' = [ps EXCEPT ![p].pc = "failed"]
    <3>1. ps'[p].pc = "failed"
      BY <1>1, <2>1, GotoEffect
    <3> QED  BY <1>5, <3>1 DEF Held
  <2>2. CASE ~(ps' = [ps EXCEPT ![p].pc = "failed"])
    <3> DEFINE w == ps'[p].plan
    <3>1. /\ ps'[p].id \in Targets(ps[p].cmd, disk) /\ w = Writes(ps[p].cmd, ps'[p].id, disk)
          /\ ps'[p].pc = "write" /\ ps'[p].snap = disk /\ ps'[p].cmd = ps[p].cmd /\ ps'[p].at = ps[p].at
          /\ ps'[p].activated = \E k \in DOMAIN w : w[k].file = "active"
      BY <1>1, <2>2, PlanEffect
    <3>2. ps[p].cmd.op \in PlanOps /\ CmdOK(ps[p].cmd) /\ ps[p].at = 0
      BY <1>1, <1>2 DEF AskedBy, Op
    <3>3. IsDisk(disk) /\ SubsOK(disk["subs"])
      BY <1>1 DEF Goal, Kept
    <3>4. Based(p)'
      BY <1>2, <1>5, <3>1, <3>3 DEF Based, Same
    <3>5. Planned(p)'
      BY <1>2, <1>4, <3>1, <3>2, <3>4 DEF Planned, Writing
    <3>6. IsPlan(w)
      BY <3>1, <3>2, <3>3, PlanShaped
    <3>7. Applied(Stable, w, 0, disk, disk)
      BY <3>6, AppliedNone
    <3>8. Applied(Stable', w, ps'[p].at, ps'[p].snap, disk')
      BY <1>2, <1>3, <3>1, <3>2, <3>7
    <3> QED  BY <3>1, <3>5, <3>8 DEF Held
  <2> QED  BY <2>1, <2>2
<1> QED  BY <1>1, <1>2, <1>6, <1>7, GoesOn DEF Goal, Kept

\* What has not been written is as it was.
LEMMA Unwritten ==
  ASSUME NEW p \in Procs, Planned(p), Applied(Stable, ps[p].plan, ps[p].at, ps[p].snap, disk), NEW T,
         \A k \in 1 .. ps[p].at : ps[p].plan[k].file \in T
  PROVE  Same(disk, T)
<1>1. ASSUME NEW f \in Stable \ T
      PROVE  disk[f] = last[f]
  <2>1. \A k \in 1 .. ps[p].at : ps[p].plan[k].file # f
    OBVIOUS
  <2>2. disk[f] = ps[p].snap[f]
    BY <2>1 DEF Applied
  <2> QED  BY <2>2 DEF Planned, Based, Same
<1> QED  BY <1>1 DEF Same

LEMMA WriteNextGoes ==
  ASSUME Inv, NEW p \in Procs, depth[p] > 0, WriteNext(p)
  PROVE  Goal(p)'
<1> DEFINE w == ps[p].plan
           n == ps[p].at
           g == w[n + 1].file
           v == w[n + 1].val
<1>1. Shaped /\ Goal(p) /\ p # None /\ lock = p
  BY Ground
<1>2. /\ UNCHANGED <<lock, depth, last, torn, count>> /\ ps[p].pc = "write"
      /\ n < Len(w) /\ disk' = Put(disk, g, v)
  BY DEF WriteNext, At
<1>3. Stable' = Stable /\ IsView(Stable)
  BY <1>2, StableKnown DEF Stable
<1>4. Planned(p) /\ Applied(Stable, w, n, ps[p].snap, disk) /\ Kept
  BY <1>1, <1>2 DEF Goal, Holds, Held
<1>5. IsPlan(w) /\ n \in Nat /\ n + 1 \in 1 .. Len(w) /\ IsDisk(disk)
  BY <1>2, <1>4, PlannedShape DEF IsPlan, Applied, Kept
<1>6. g \in Files /\ (g = "subs" => SubsOK(v))
  BY <1>5 DEF IsPlan
<1>7. IsDisk(disk') /\ SubsOK(disk'["subs"])
  BY <1>2, <1>4, <1>6, FileNames DEF Put, IsDisk, Kept
<1>8. Keeps(p) /\ ps'[p].pc = "write" /\ ps'[p].at = n + 1 /\ ps'[p].activated = ps[p].activated
  BY <1>1, <1>2, WriteNextEffect
<1>9. Planned(p)'
  BY <1>2, <1>3, <1>4, <1>8, PlannedStays
<1>10. Applied(Stable, w, n + 1, ps[p].snap, disk')
  BY <1>2, <1>3, <1>4, <1>5, AppliedNext
<1>11. Applied(Stable', ps'[p].plan, ps'[p].at, ps'[p].snap, disk')
  BY <1>3, <1>8, <1>10 DEF Keeps
<1>12. Held(p)'
  BY <1>8, <1>9, <1>11 DEF Held
<1>13. ASSUME "undo" \notin torn, Op(p) # "restore"
       PROVE  Usable(disk')
  <2>1. /\ ps[p].cmd.op \in PlanOps /\ CmdOK(ps[p].cmd) /\ SubsOK(ps[p].snap["subs"]) /\ ps[p].cmd.op # "restore"
        /\ ps[p].id \in Targets(ps[p].cmd, ps[p].snap) /\ w = Writes(ps[p].cmd, ps[p].id, ps[p].snap)
        /\ Usable(ps[p].snap)
    BY <1>4, <1>13 DEF Planned, Based, Op
  <2> QED  BY <1>3, <1>10, <2>1, PlanUsable
<1>14. Safe(p)'
  BY <1>2, <1>8, <1>13 DEF Safe, Keeps, Op
<1> QED  BY <1>1, <1>2, <1>7, <1>12, <1>14, GoesOn

LEMMA WrittenGoes ==
  ASSUME Inv, NEW p \in Procs, depth[p] > 0, Written(p)
  PROVE  Goal(p)'
<1>1. Shaped /\ Goal(p) /\ p # None /\ lock = p
  BY Ground
<1>2. /\ UNCHANGED <<disk, lock, depth, last, torn, count>> /\ ps[p].pc = "write"
      /\ ps[p].at = Len(ps[p].plan)
  BY DEF Written, At
<1>3. Stable' = Stable /\ IsView(Stable)
  BY <1>2, StableKnown DEF Stable
<1>4. Planned(p) /\ Applied(Stable, ps[p].plan, ps[p].at, ps[p].snap, disk) /\ Kept
  BY <1>1, <1>2 DEF Goal, Holds, Held
<1>5. /\ Keeps(p) /\ ps'[p].at = ps[p].at /\ ps'[p].activated = ps[p].activated
      /\ ps'[p].pc = IF ~Merges(ps[p].cmd) THEN "leave"
                     ELSE IF ps[p].cmd.activate = "auto" THEN "prompt" ELSE "want"
  BY <1>1, WrittenEffect
<1>6. Planned(p)'
  BY <1>2, <1>3, <1>4, <1>5, PlannedStays
<1> DEFINE c == ps[p].cmd
           d == ps[p].snap
           w == ps[p].plan
           id == ps[p].id
           n == ps[p].at
<1>7. /\ c.op \in PlanOps /\ CmdOK(c) /\ SubsOK(d["subs"]) /\ id \in Targets(c, d) /\ w = Writes(c, id, d)
      /\ Applied(Stable, w, n, d, disk) /\ n = Len(w) /\ Op(p) = c.op
      /\ "undo" \notin torn => Usable(d)
  BY <1>2, <1>4 DEF Planned, Based, Op
<1> HIDE DEF c, d, w, id, n
<1>8. "undo" \notin torn => Usable(disk)
  BY <1>3, <1>7, PlanUsable
<1>9. Safe(p)'
  BY <1>2, <1>8 DEF Safe
<1>10. CASE ~Merges(ps[p].cmd)
  <2>1. ps'[p].pc = "leave"
    BY <1>5, <1>10
  <2>2. Held(p)'
    BY <2>1 DEF Held
  <2> QED  BY <1>1, <1>2, <1>4, <1>9, <2>2, GoesOn DEF Kept
<1>11. CASE Merges(ps[p].cmd)
  <2>1. ps'[p].pc = IF ps[p].cmd.activate = "auto" THEN "prompt" ELSE "want"
    BY <1>5, <1>11
  <2>2. \A k \in 1 .. ps[p].at : ps[p].plan[k].file \in Touched(p)
    BY <1>2, <1>4, PlannedShape DEF Touched, IsPlan
  <2>3. Same(disk, Touched(p))
    BY <1>4, <2>2, Unwritten
  <2>4. Done(p, {})'
    <3>1. Touched(p)' = Touched(p)
      BY <1>5 DEF Touched, Keeps
    <3>2. Same(disk, Touched(p) \cup {})'
      BY <1>2, <1>3, <2>3, <3>1 DEF Same
    <3> QED  BY <1>2, <1>5, <1>6, <1>11, <3>2 DEF Done, Keeps
  <2>5. CASE ps[p].cmd.activate = "auto"
    <3>1. ps'[p].pc = "prompt"
      BY <2>1, <2>5
    <3>2. Op(p) = "add"
      BY <1>7, <1>11, <2>5 DEF CmdOK, Merges, OverlayOps, c
    <3>3. "undo" \notin torn => ps[p].id \in Alive(disk["subs"]) /\ disk[ps[p].id] # NoFile
      <4>1. c.op \in AddOps
        BY <1>7, <3>2 DEF AddOps
      <4>2. Len(w) \in {2, 3}
        BY <1>7, <4>1, AddPlanned
      <4>3. PICK l : l = Len(w)
        OBVIOUS
      <4>4. n > 1
        BY <1>7, <4>2, <4>3
      <4>5. "undo" \notin torn => id \in Alive(disk["subs"]) /\ disk[id] # NoFile
        BY <1>3, <1>7, <4>1, <4>4, AddUsable
      <4> QED  BY <4>5 DEF id
    <3>4. Op(p)' = "add" /\ ps'[p].id = ps[p].id
      BY <1>5, <3>2 DEF Keeps, Op
    <3>5. Held(p)'
      BY <1>2, <2>4, <3>1, <3>3, <3>4 DEF Held
    <3> QED  BY <1>1, <1>2, <1>4, <1>9, <3>5, GoesOn DEF Kept
  <2>6. CASE ps[p].cmd.activate # "auto"
    <3>1. ps'[p].pc = "want"
      BY <2>1, <2>6
    <3>2. Held(p)'
      BY <2>4, <3>1 DEF Held
    <3> QED  BY <1>1, <1>2, <1>4, <1>9, <3>2, GoesOn DEF Kept
  <2> QED  BY <2>5, <2>6
<1> QED  BY <1>10, <1>11

LEMMA WriteFailsGoes ==
  ASSUME Inv, NEW p \in Procs, depth[p] > 0, WriteFails(p)
  PROVE  Goal(p)'
<1>1. Shaped /\ Goal(p) /\ p # None /\ lock = p
  BY Ground
<1>2. /\ UNCHANGED <<disk, lock, depth, last>> /\ ps[p].pc = "write" /\ Fault
      /\ ps[p].at < Len(ps[p].plan) /\ ps' = [ps EXCEPT ![p] = Undoing(p, WriteUndo(p))]
      /\ torn \subseteq torn' /\ ("undo" \notin torn' => Op(p) # "restore" \/ ~(ps[p].at > 0))
  BY DEF WriteFails, At
<1>3. Stable' = Stable
  BY <1>1, <1>2, FaultCounts DEF Stable
<1>4. Planned(p) /\ Applied(Stable, ps[p].plan, ps[p].at, ps[p].snap, disk) /\ Kept
  BY <1>1, <1>2 DEF Goal, Holds, Held
<1>5. ps'[p].pc = "undo" /\ ps'[p].undo = WriteUndo(p) /\ Keeps(p)
  BY <1>1, <1>2, UndoingEffect
<1>6. ps[p].at \in 0 .. Len(ps[p].plan) /\ ps[p].at \in Nat
  BY <1>4, PlannedShape DEF Applied, IsPlan
<1>7. /\ WriteUndo(p) \in Seq(Files)
      /\ Op(p) # "restore" \/ ps[p].at = 0 =>
           \A k \in 1 .. ps[p].at : ps[p].plan[k].file \in Listing(WriteUndo(p))
  BY <1>2, <1>4, <1>6, WriteUndoCovers
<1>8. "undo" \notin torn' => Same(disk, Listing(WriteUndo(p)))
  <2>1. SUFFICES ASSUME Op(p) # "restore" \/ ps[p].at = 0
                 PROVE  Same(disk, Listing(WriteUndo(p)))
    BY <1>2, <1>6
  <2> QED  BY <1>4, <1>7, <2>1, Unwritten
<1>9. Based(p)'
  BY <1>2, <1>3, <1>4, <1>5 DEF Planned, Based, Same, Keeps
<1>10. Held(p)'
  <2>1. Pending(p)' = Listing(WriteUndo(p))
    BY <1>5 DEF Pending
  <2>2. ("undo" \notin torn => Same(disk, Pending(p)))'
    BY <1>2, <1>3, <1>8, <2>1 DEF Same
  <2> QED  BY <1>5, <1>7, <1>9, <2>2 DEF Held
<1>11. Safe(p)'
  BY <1>5 DEF Safe
<1> QED  BY <1>1, <1>2, <1>4, <1>10, <1>11, GoesOn DEF Kept

LEMMA PromptGoes ==
  ASSUME Inv, NEW p \in Procs, depth[p] > 0, Prompt(p)
  PROVE  Goal(p)'
<1>1. Shaped /\ Goal(p) /\ p # None /\ lock = p
  BY Ground
<1>2. UNCHANGED <<lock, depth, last, torn, count>> /\ ps[p].pc = "prompt"
  BY DEF Prompt, At
<1>3. Stable' = Stable
  BY <1>2 DEF Stable
<1>4. /\ Done(p, {}) /\ Op(p) = "add" /\ Kept
      /\ "undo" \notin torn => ps[p].id \in Alive(disk["subs"]) /\ disk[ps[p].id] # NoFile /\ Usable(disk)
  BY <1>1, <1>2 DEF Goal, Holds, Held, Safe
<1>5. /\ Keeps(p) /\ ps'[p].at = ps[p].at /\ ps'[p].pc = "want"
      /\ \/ ps'[p].activated = TRUE /\ disk' = [disk EXCEPT !["active"] = ps[p].id]
         \/ ps'[p].activated = ps[p].activated /\ UNCHANGED disk
  BY <1>1, PromptEffect
<1>6. Planned(p)'
  BY <1>2, <1>3, <1>4, <1>5, PlannedStays DEF Done
<1>7. /\ IsDisk(disk') /\ disk'["subs"] = disk["subs"] /\ \A f \in Files \ {"active"} : disk'[f] = disk[f]
      /\ disk' = disk \/ (disk'["active"] = ps[p].id /\ ps'[p].activated = TRUE)
  BY <1>4, <1>5, FileNames DEF Kept, IsDisk
<1>8. Same(disk, Touched(p) \cup {})'
  <2>1. Touched(p) \subseteq Touched(p)'
    BY <1>5 DEF Touched, Keeps
  <2>2. disk' = disk \/ "active" \in Touched(p)'
    BY <1>7 DEF Touched
  <2> QED  BY <1>2, <1>3, <1>4, <1>7, <2>1, <2>2, StableKnown DEF Done, Same
<1>9. Held(p)'
  <2>1. Done(p, {})'
    BY <1>4, <1>5, <1>6, <1>8 DEF Done, Keeps
  <2> QED  BY <1>5, <2>1 DEF Held
<1>10. "undo" \notin torn => Usable(disk')
  <2>1. SUFFICES ASSUME "undo" \notin torn, disk' # disk
                 PROVE  Usable(disk')
    BY <1>4
  <2>2. ps[p].id \in Alive(disk["subs"]) /\ disk[ps[p].id] # NoFile /\ disk'["active"] = ps[p].id
    BY <1>4, <1>7, <2>1
  <2>3. ps[p].id \in Ids
    BY <1>4, <2>2, LivingKnown DEF Kept
  <2>4. disk'[ps[p].id] = disk[ps[p].id]
    BY <1>7, <2>3, FileNames
  <2> QED  BY <1>7, <2>2, <2>4 DEF Usable
<1>11. Safe(p)'
  BY <1>2, <1>10 DEF Safe
<1> QED  BY <1>1, <1>2, <1>4, <1>7, <1>9, <1>11, GoesOn DEF Kept

\* The nested hold of a merge ends with what the command changed to be undone.
LEMMA UndoesMerge ==
  ASSUME Inv, NEW p \in Procs, depth[p] = 2, Drop(p), ps' = [ps EXCEPT ![p] = Undoing(p, MergeUndo(p))],
         torn \subseteq torn', Stable' = Stable, IsDisk(disk'), SubsOK(disk'["subs"]),
         Planned(p), ps[p].at = Len(ps[p].plan), Merges(ps[p].cmd),
         "undo" \notin torn' => \A f \in Stable \ Touched(p) : disk'[f] = last[f]
  PROVE  Goal(p)'
<1>1. Shaped /\ p # None /\ lock = p
  BY Ground
<1>2. last' = last /\ lock' = p
  BY <1>1 DEF Drop, Outermost
<1>3. ps'[p].pc = "undo" /\ ps'[p].undo = MergeUndo(p) /\ Keeps(p)
  BY <1>1, UndoingEffect
<1>4. MergeUndo(p) \in Seq(Files) /\ Touched(p) \subseteq Listing(MergeUndo(p))
  BY MergeUndoCovers
<1>5. Based(p)'
  BY <1>2, <1>3 DEF Planned, Based, Same, Keeps
<1>6. Held(p)'
  <2>1. Pending(p)' = Listing(MergeUndo(p))
    BY <1>3 DEF Pending
  <2>2. ("undo" \notin torn => Same(disk, Pending(p)))'
    BY <1>2, <1>4, <2>1 DEF Same
  <2> QED  BY <1>3, <1>4, <1>5, <2>2 DEF Held
<1>7. Safe(p)'
  BY <1>3 DEF Safe
<1> QED  BY <1>2, <1>6, <1>7, GoesOn

\* Where a merge is, its hold is nested but for the menu's.
LEMMA Merging ==
  ASSUME Inv, NEW p \in Procs, depth[p] > 0, ps[p].pc \in {"merge", "validate"}
  PROVE  IF Op(p) = "menu-add" THEN depth[p] = 1
         ELSE /\ depth[p] = 2 /\ Planned(p) /\ ps[p].at = Len(ps[p].plan) /\ Merges(ps[p].cmd)
              /\ "config" \notin Touched(p)
              /\ ps[p].pc = "merge" => Same(disk, Touched(p))
              /\ ps[p].pc = "validate" =>
                   Same(disk, Touched(p) \cup {"config"}) /\ (count.fixes = 0 => ps[p].prev = last["config"])
<1>1. Depths(p) /\ Goal(p)
  BY Ground
<1>2. CASE Op(p) = "menu-add"
  BY <1>1, <1>2 DEF Depths
<1>3. CASE Op(p) # "menu-add"
  <2>1. depth[p] = 2
    BY <1>1, <1>3 DEF Depths
  <2>2. /\ ps[p].pc = "merge" => Done(p, {})
        /\ ps[p].pc = "validate" => Done(p, {"config"}) /\ (count.fixes = 0 => ps[p].prev = last["config"])
    BY <1>1, <1>3 DEF Goal, Holds, Held
  <2>3. Planned(p) /\ ps[p].at = Len(ps[p].plan) /\ Merges(ps[p].cmd)
    BY <2>2 DEF Done
  <2>4. "config" \notin Touched(p)
    BY <2>3, MergeUndoCovers
  <2>5. /\ ps[p].pc = "merge" => Same(disk, Touched(p) \cup {})
        /\ ps[p].pc = "validate" => Same(disk, Touched(p) \cup {"config"})
    BY <2>2 DEF Done
  <2>6. Touched(p) \cup {} = Touched(p)
    OBVIOUS
  <2> QED  BY <1>3, <2>1, <2>2, <2>3, <2>4, <2>5, <2>6
<1> QED  BY <1>2, <1>3

\* Only config.yaml changes.
LEMMA ConfigPut ==
  ASSUME Kept, NEW v, disk' = [disk EXCEPT !["config"] = v]
  PROVE  /\ IsDisk(disk') /\ SubsOK(disk'["subs"]) /\ (Usable(disk) => Usable(disk'))
         /\ disk'["config"] = v /\ \A f \in Files \ {"config"} : disk'[f] = disk[f]
<1>1. /\ IsDisk(disk') /\ disk'["config"] = v /\ \A f \in Files \ {"config"} : disk'[f] = disk[f]
  BY FileNames DEF Kept, IsDisk
<1>2. disk'["subs"] = disk["subs"]
  BY <1>1, FileNames
<1>3. Usable(disk) => Usable(disk')
  BY <1>1, UsableViews DEF Kept
<1> QED  BY <1>1, <1>2, <1>3 DEF Kept

LEMMA MergeEnds ==
  ASSUME Inv, NEW p \in Procs, depth[p] > 0, ps[p].pc = "merge", UNCHANGED <<disk, torn>>, Stable' = Stable,
         Drop(p), ps' = [ps EXCEPT ![p] = Undoing(p, MergeUndo(p))]
  PROVE  Goal(p)'
<1>1. Kept /\ ("undo" \notin torn => Usable(disk))
  BY Ground DEF Goal, Safe
<1>2. CASE Op(p) = "menu-add"
  <2>1. depth[p] = 1
    BY <1>2, Merging
  <2> QED  BY <1>1, <2>1, Ends DEF Kept
<1>3. CASE Op(p) # "menu-add"
  <2>1. /\ depth[p] = 2 /\ Planned(p) /\ ps[p].at = Len(ps[p].plan) /\ Merges(ps[p].cmd)
        /\ Same(disk, Touched(p))
    BY <1>3, Merging
  <2>2. \A f \in Stable \ Touched(p) : disk'[f] = last[f]
    BY <2>1 DEF Same
  <2> QED  BY <1>1, <2>1, <2>2, UndoesMerge DEF Kept
<1> QED  BY <1>2, <1>3

LEMMA MergeWriteGoes ==
  ASSUME Inv, NEW p \in Procs, depth[p] > 0, MergeWrite(p)
  PROVE  Goal(p)'
<1>1. Shaped /\ Kept /\ p # None /\ lock = p /\ Goal(p)
  BY Ground DEF Goal
<1>2. UNCHANGED <<torn, count>> /\ ps[p].pc = "merge"
  BY DEF MergeWrite, At
<1>3. Stable' = Stable
  BY <1>2 DEF Stable
<1>4. CASE Mergeable(disk)
  <2>1. disk' = [disk EXCEPT !["config"] = Merged(disk)] /\ UNCHANGED <<lock, depth, last>>
    BY <1>4 DEF MergeWrite
  <2>2. /\ ps'[p].pc = "validate" /\ ps'[p].prev = disk["config"] /\ Keeps(p)
        /\ ps'[p].at = ps[p].at /\ ps'[p].activated = ps[p].activated
    <3>1. ps'[p] = [ps[p] EXCEPT !.pc = "validate", !.prev = disk["config"]]
      BY <1>1, <1>4 DEF Shaped, MergeWrite
    <3>2. IsJob(ps[p])
      BY <1>1 DEF Shaped
    <3> QED  BY <3>1, <3>2 DEF IsJob, Keeps
  <2>3. /\ IsDisk(disk') /\ SubsOK(disk'["subs"]) /\ (Usable(disk) => Usable(disk'))
        /\ \A f \in Files \ {"config"} : disk'[f] = disk[f]
    BY <1>1, <2>1, ConfigPut
  <2>4. Safe(p)'
    BY <1>1, <1>2, <2>3 DEF Goal, Safe
  <2>5. ASSUME Op(p) # "menu-add"
        PROVE  Done(p, {"config"})' /\ (count'.fixes = 0 => ps'[p].prev = last'["config"])
    <3>1. /\ Planned(p) /\ ps[p].at = Len(ps[p].plan) /\ Merges(ps[p].cmd)
          /\ "config" \notin Touched(p) /\ Same(disk, Touched(p))
      BY <1>2, <2>5, Merging
    <3>2. Planned(p)'
      BY <1>2, <1>3, <2>1, <2>2, <3>1, PlannedStays
    <3>3. Touched(p)' = Touched(p)
      BY <2>2 DEF Touched, Keeps
    <3>4. \A f \in Stable \ (Touched(p) \cup {"config"}) : disk'[f] = last[f]
      BY <2>3, <3>1, StableKnown DEF Same
    <3>5. Same(disk, Touched(p) \cup {"config"})'
      BY <1>3, <2>1, <3>3, <3>4 DEF Same
    <3>6. count.fixes = 0 => disk["config"] = last["config"]
      BY <3>1, FileNames DEF Same, Stable
    <3> QED  BY <1>2, <2>1, <2>2, <3>1, <3>2, <3>5, <3>6 DEF Done, Keeps
  <2>6. Held(p)'
    <3>1. Op(p)' = Op(p)
      BY <2>2 DEF Keeps, Op
    <3> QED  BY <2>2, <2>5, <3>1 DEF Held
  <2> QED  BY <1>1, <1>2, <2>1, <2>3, <2>4, <2>6, GoesOn
<1>5. CASE ~Mergeable(disk)
  <2>1. UNCHANGED disk /\ Drop(p) /\ ps' = [ps EXCEPT ![p] = Undoing(p, MergeUndo(p))]
    BY <1>5 DEF MergeWrite
  <2> QED  BY <1>2, <1>3, <2>1, MergeEnds
<1> QED  BY <1>4, <1>5

LEMMA MergeFailsGoes ==
  ASSUME Inv, NEW p \in Procs, depth[p] > 0, MergeFails(p)
  PROVE  Goal(p)'
<1>1. Shaped
  BY DEF Inv
<1>2. UNCHANGED <<disk, torn>> /\ ps[p].pc = "merge" /\ Fault /\ Drop(p)
      /\ ps' = [ps EXCEPT ![p] = Undoing(p, MergeUndo(p))]
  BY DEF MergeFails, At
<1>3. Stable' = Stable
  BY <1>1, <1>2, FaultCounts DEF Stable
<1> QED  BY <1>2, <1>3, MergeEnds

LEMMA ValidateGoes ==
  ASSUME Inv, NEW p \in Procs, depth[p] > 0, Validate(p)
  PROVE  Goal(p)'
<1>1. Shaped /\ Kept /\ p # None /\ lock = p /\ Goal(p)
  BY Ground DEF Goal
<1>2. /\ ps[p].pc = "validate" /\ Drop(p) /\ torn \subseteq torn'
      /\ count' = count \/ Fault
  BY DEF Validate, At
<1>3. Stable' = Stable
  BY <1>1, <1>2, FaultCounts DEF Stable
<1>4. "undo" \notin torn' => Usable(disk)
  BY <1>1, <1>2 DEF Goal, Safe
<1>5. IsDisk(disk') /\ SubsOK(disk'["subs"]) /\ (Usable(disk) => Usable(disk'))
  <2>1. disk' = disk \/ disk' = [disk EXCEPT !["config"] = ps[p].prev]
    BY DEF Validate
  <2> QED  BY <1>1, <2>1, ConfigPut DEF Kept
<1>6. CASE Op(p) = "menu-add"
  <2>1. depth[p] = 1
    BY <1>2, <1>6, Merging
  <2> QED  BY <1>2, <1>4, <1>5, <2>1, Ends
<1>7. CASE Op(p) # "menu-add"
  <2>1. /\ depth[p] = 2 /\ Planned(p) /\ ps[p].at = Len(ps[p].plan) /\ Merges(ps[p].cmd)
        /\ "config" \notin Touched(p) /\ Same(disk, Touched(p) \cup {"config"})
        /\ count.fixes = 0 => ps[p].prev = last["config"]
    BY <1>2, <1>7, Merging
  <2>2. CASE ConfigValid(disk["config"])
    <3>1. UNCHANGED disk /\ ps' = [ps EXCEPT ![p].pc = "leave"]
      BY <2>2 DEF Validate
    <3>2. ps'[p].pc = "leave"
      BY <1>1, <3>1, GotoEffect
    <3>3. last' = last /\ lock' = p
      BY <1>1, <1>2, <2>1 DEF Drop, Outermost
    <3>4. Safe(p)' /\ Held(p)'
      BY <1>2, <1>4, <3>1, <3>2 DEF Safe, Held
    <3> QED  BY <1>2, <1>5, <3>3, <3>4, GoesOn
  <2>3. CASE ~ConfigValid(disk["config"])
    <3>1. /\ ps' = [ps EXCEPT ![p] = Undoing(p, MergeUndo(p))]
          /\ "undo" \notin torn' => disk' = [disk EXCEPT !["config"] = ps[p].prev]
      BY <2>3 DEF Validate
    <3>2. "undo" \notin torn' =>
             disk'["config"] = ps[p].prev /\ \A f \in Files \ {"config"} : disk'[f] = disk[f]
      BY <1>1, <3>1, ConfigPut
    <3>3. ASSUME "undo" \notin torn', NEW f \in Stable \ Touched(p)
          PROVE  disk'[f] = last[f]
      <4>1. CASE f = "config"
        <5>1. count.fixes = 0
          BY <4>1 DEF Stable
        <5> QED  BY <2>1, <3>2, <3>3, <4>1, <5>1
      <4>2. CASE f # "config"
        BY <2>1, <3>2, <3>3, <4>2, StableKnown DEF Same
      <4> QED  BY <4>1, <4>2
    <3> QED  BY <1>2, <1>3, <1>5, <2>1, <3>1, <3>3, UndoesMerge
  <2> QED  BY <2>2, <2>3
<1> QED  BY <1>6, <1>7

LEMMA ResolveFailsGoes ==
  ASSUME Inv, NEW p \in Procs, depth[p] > 0, ResolveFails(p)
  PROVE  Goal(p)'
<1>1. Shaped /\ Kept /\ p # None /\ lock = p /\ Goal(p)
  BY Ground DEF Goal
<1>2. UNCHANGED <<disk, lock, last>> /\ ps[p].pc = "want" /\ torn' = torn \cup {"change"}
      /\ ps' = [ps EXCEPT ![p].pc = "failed"]
  BY DEF ResolveFails, At
<1>3. ps'[p].pc = "failed"
  BY <1>1, <1>2, GotoEffect
<1>4. Safe(p)' /\ Held(p)'
  BY <1>1, <1>2, <1>3 DEF Goal, Safe, Held
<1> QED  BY <1>1, <1>2, <1>4, GoesOn DEF Kept

LEMMA TailFiles ==
  ASSUME NEW u \in Seq(Files), u # <<>>
  PROVE  /\ Head(u) \in Files /\ Tail(u) \in Seq(Files)
         /\ Listing(u) = {Head(u)} \cup Listing(Tail(u))
<1> DEFINE t == Tail(u)
<1>1. /\ Len(u) \in Nat \ {0} /\ Head(u) = u[1] /\ u[1] \in Files /\ t \in Seq(Files)
      /\ Len(t) = Len(u) - 1 /\ \A i \in 1 .. Len(u) - 1 : t[i] = u[i + 1]
      /\ DOMAIN u = 1 .. Len(u) /\ DOMAIN t = 1 .. Len(t)
  OBVIOUS
<1> HIDE DEF t
<1>2. ASSUME NEW i \in DOMAIN u
      PROVE  u[i] \in {u[1]} \cup Listing(t)
  <2>1. CASE i = 1
    BY <2>1
  <2>2. CASE i # 1
    <3>1. i - 1 \in 1 .. Len(u) - 1 /\ (i - 1) + 1 = i
      BY <1>1, <2>2
    <3>2. i - 1 \in DOMAIN t /\ t[i - 1] = u[i]
      BY <1>1, <3>1
    <3> QED  BY <3>2 DEF Listing
  <2> QED  BY <2>1, <2>2
<1>3. ASSUME NEW i \in DOMAIN t
      PROVE  t[i] \in Listing(u)
  <2>1. i + 1 \in DOMAIN u /\ t[i] = u[i + 1]
    BY <1>1
  <2> QED  BY <2>1 DEF Listing
<1>4. u[1] \in Listing(u)
  BY <1>1 DEF Listing
<1>5. Listing(u) = {u[1]} \cup Listing(t)
  BY <1>2, <1>3, <1>4 DEF Listing
<1> QED  BY <1>1, <1>5 DEF t

LEMMA UndoNextGoes ==
  ASSUME Inv, NEW p \in Procs, depth[p] > 0, UndoNext(p)
  PROVE  Goal(p)'
<1> DEFINE f == Head(ps[p].undo)
           v == ps[p].snap[f]
<1>1. Shaped /\ Kept /\ p # None /\ lock = p /\ Goal(p)
  BY Ground DEF Goal
<1>2. /\ UNCHANGED <<lock, depth, last, torn, count>> /\ ps[p].pc = "undo" /\ ps[p].undo # <<>>
      /\ disk' = Put(disk, f, v)
  BY DEF UndoNext, At
<1>3. Stable' = Stable
  BY <1>2 DEF Stable
<1>4. /\ Based(p) /\ ps[p].undo \in Seq(Files)
      /\ "undo" \notin torn => Same(disk, Pending(p))
  BY <1>1, <1>2 DEF Goal, Holds, Held
<1>5. ps'[p].pc = "undo" /\ ps'[p].undo = Tail(ps[p].undo) /\ Keeps(p)
  BY <1>1, <1>2, UndoEffect
<1>6. /\ f \in Files /\ Tail(ps[p].undo) \in Seq(Files)
      /\ Pending(p) = {f} \cup Listing(Tail(ps[p].undo))
  BY <1>2, <1>4, TailFiles DEF Pending
<1> HIDE DEF f
<1>7. IsDisk(disk') /\ disk'[f] = v /\ \A g \in Files \ {f} : disk'[g] = disk[g]
  BY <1>1, <1>2, <1>6 DEF Kept, IsDisk, Put
<1>8. SubsOK(disk'["subs"])
  BY <1>1, <1>4, <1>7, FileNames DEF Kept, Based
<1>9. Based(p)'
  BY <1>2, <1>3, <1>4, <1>5 DEF Based, Same, Keeps
<1>10. ASSUME "undo" \notin torn
       PROVE  Same(disk, Pending(p))'
  <2>1. Pending(p)' = Listing(Tail(ps[p].undo))
    BY <1>5 DEF Pending
  <2>2. ASSUME NEW g \in Stable \ Listing(Tail(ps[p].undo))
        PROVE  disk'[g] = last[g]
    <3>1. CASE g = f
      BY <1>4, <1>7, <3>1 DEF Based, Same
    <3>2. CASE g # f
      BY <1>4, <1>6, <1>7, <1>10, <3>2, StableKnown DEF Same
    <3> QED  BY <3>1, <3>2
  <2> QED  BY <1>2, <1>3, <2>1, <2>2 DEF Same
<1>11. Held(p)'
  BY <1>2, <1>5, <1>6, <1>9, <1>10 DEF Held
<1>12. Safe(p)'
  BY <1>5 DEF Safe
<1> QED  BY <1>1, <1>2, <1>7, <1>8, <1>11, <1>12, GoesOn

LEMMA UndoFailsGoes ==
  ASSUME Inv, NEW p \in Procs, depth[p] > 0, UndoFails(p)
  PROVE  Goal(p)'
<1>1. Shaped /\ Kept /\ p # None /\ lock = p /\ Goal(p)
  BY Ground DEF Goal
<1>2. /\ UNCHANGED <<disk, lock, depth, last>> /\ ps[p].pc = "undo" /\ ps[p].undo # <<>>
      /\ torn' = torn \cup {"undo"} /\ Fault
  BY DEF UndoFails, At
<1>3. Stable' = Stable
  BY <1>1, <1>2, FaultCounts DEF Stable
<1>4. Based(p) /\ ps[p].undo \in Seq(Files)
  BY <1>1, <1>2 DEF Goal, Holds, Held
<1>5. ps'[p].pc = "undo" /\ ps'[p].undo = Tail(ps[p].undo) /\ Keeps(p)
  BY <1>1, <1>2, UndoEffect
<1>6. Tail(ps[p].undo) \in Seq(Files)
  BY <1>2, <1>4, TailFiles
<1>7. Based(p)'
  BY <1>2, <1>3, <1>4, <1>5 DEF Based, Same, Keeps
<1>8. Held(p)'
  BY <1>2, <1>5, <1>6, <1>7 DEF Held
<1>9. Safe(p)'
  BY <1>5 DEF Safe
<1> QED  BY <1>1, <1>2, <1>8, <1>9, GoesOn DEF Kept

LEMMA UndoneGoes ==
  ASSUME Inv, NEW p \in Procs, depth[p] > 0, Undone(p)
  PROVE  Goal(p)'
<1>1. Shaped /\ Kept /\ p # None /\ lock = p /\ Goal(p)
  BY Ground DEF Goal
<1>2. /\ UNCHANGED <<disk, lock, depth, last, torn, count>> /\ ps[p].pc = "undo" /\ ps[p].undo = <<>>
      /\ ps' = [ps EXCEPT ![p].pc = "failed"]
  BY DEF Undone, At
<1>3. Stable' = Stable
  BY <1>2 DEF Stable
<1>4. ps'[p].pc = "failed"
  BY <1>1, <1>2, GotoEffect
<1>5. Pending(p) = {}
  BY <1>2 DEF Pending, Listing
<1>6. "undo" \notin torn => Same(disk, {})
  BY <1>1, <1>2, <1>5 DEF Goal, Holds, Held
<1>7. "undo" \notin torn => Usable(disk)
  BY <1>1, <1>6, SameUsable DEF Goal, Pointer
<1>8. Safe(p)'
  BY <1>2, <1>7 DEF Safe
<1>9. Held(p)'
  <2>1. torn = {} => Same(disk, {})'
    BY <1>2, <1>3, <1>6 DEF Same
  <2> QED  BY <1>2, <1>4, <2>1 DEF Held
<1> QED  BY <1>1, <1>2, <1>8, <1>9, GoesOn DEF Kept

LEMMA LeaveGoes ==
  ASSUME Inv, NEW p \in Procs, depth[p] > 0, Leave(p)
  PROVE  Goal(p)'
<1>1. Depths(p) /\ Kept /\ Goal(p)
  BY Ground DEF Goal
<1>2. UNCHANGED <<disk, torn>> /\ ps[p].pc \in {"leave", "failed", "reconciled"} /\ Drop(p)
  BY DEF Leave
<1>3. depth[p] = 1
  BY <1>1, <1>2 DEF Depths
<1>4. "undo" \notin torn => Usable(disk)
  BY <1>1, <1>2 DEF Goal, Safe
<1> QED  BY <1>1, <1>2, <1>3, <1>4, Ends DEF Kept

LEMMA ReconcileGoes ==
  ASSUME Inv, NEW p \in Procs, depth[p] > 0, Reconcile(p)
  PROVE  Goal(p)'
<1>1. Shaped /\ Kept /\ p # None /\ lock = p /\ Goal(p)
  BY Ground DEF Goal
<1>2. /\ UNCHANGED <<lock, depth, last, torn>> /\ ps[p].pc = "reconcile"
      /\ disk' = disk \/ \E v : disk' = [disk EXCEPT !["config"] = v]
  BY DEF Reconcile, At
<1>3. IsDisk(disk') /\ SubsOK(disk'["subs"]) /\ (Usable(disk) => Usable(disk'))
  BY <1>1, <1>2, ConfigPut DEF Kept
<1>4. ps'[p].pc \in {"reconciled", "leave"}
  BY <1>1, ReconcileEffect
<1>5. Safe(p)' /\ Held(p)'
  BY <1>1, <1>2, <1>3, <1>4 DEF Goal, Safe, Held
<1> QED  BY <1>1, <1>2, <1>3, <1>5, GoesOn

LEMMA CrashGoes ==
  ASSUME Inv, NEW p \in Procs, depth[p] > 0, Crash(p)
  PROVE  Goal(p)'
<1>1. Shaped /\ Kept /\ p # None /\ lock = p /\ Goal(p)
  BY Ground DEF Goal
<1>2. UNCHANGED disk /\ lock' = None /\ last' = disk /\ depth' = [depth EXCEPT ![p] = 0]
      /\ torn' = torn \cup (IF disk = last THEN {}
                            ELSE IF At(p, "undo") \/ Op(p) = "restore" THEN {"undo"} ELSE {"change"})
  BY <1>1 DEF Crash
<1>3. depth'[p] = 0
  BY <1>1, <1>2, DepthMoves
<1>4. ASSUME "undo" \notin torn'
      PROVE  Usable(disk)
  <2>1. CASE disk = last
    BY <1>1, <1>2, <1>4, <2>1 DEF Goal, Pointer
  <2>2. CASE disk # last
    BY <1>1, <1>2, <1>4, <2>2 DEF Goal, Safe, At
  <2> QED  BY <2>1, <2>2
<1> QED  BY <1>1, <1>2, <1>3, <1>4 DEF Goal, Kept, Free, Pointer, Safe, Holds, Same

-----------------------------------------------------------------------------
(* The invariant holds.                                                    *)

LEMMA StepGoes ==
  ASSUME Inv, NEW p \in Procs, Step(p)
  PROVE  Goal(p)'
<1>1. CASE depth[p] > 0
  <2>1. Shaped /\ Depths(p) /\ lock = p /\ p # None
    BY <1>1, Ground
  <2>2. ps[p].pc \notin {"idle", "apply", "send", "fix", "fixed"}
    BY <1>1, <2>1 DEF Depths
  <2>3. ~AcquireTimesOut(p)
    BY <1>1 DEF AcquireTimesOut, Acquirable
  <2>4. ~(Begin(p) \/ ReadBase(p) \/ Send(p) \/ Fix(p) \/ FixChecked(p))
    BY <2>2 DEF Begin, ReadBase, Send, Fix, FixChecked, At
  <2> QED  BY <1>1, <2>3, <2>4, AcquireGoes, PlanGoes, WriteNextGoes, WrittenGoes, WriteFailsGoes, PromptGoes,
              MergeWriteGoes, MergeFailsGoes, ValidateGoes, ResolveFailsGoes, UndoNextGoes, UndoFailsGoes,
              UndoneGoes, LeaveGoes, ReconcileGoes, CrashGoes DEF Step
<1>2. CASE ~(depth[p] > 0) /\ Acquire(p)
  BY <1>2, AcquireGoes
<1>3. CASE ~(depth[p] > 0) /\ ~Acquire(p)
  <2>1. Goal(p) /\ depth[p] = 0
    BY <1>3, Ground
  <2>2. Quiet /\ depth'[p] = 0
    BY <1>3, <2>1, Aside
  <2>3. Kept'
    BY <2>1, <2>2, FileNames DEF Goal, Kept, Quiet
  <2>4. Free'
    BY <2>1, <2>2 DEF Goal, Free, Same, Quiet
  <2> QED  BY <2>1, <2>2, <2>3, <2>4 DEF Goal, Pointer, Safe, Holds, Quiet
<1> QED  BY <1>1, <1>2, <1>3

LEMMA StepOthers ==
  ASSUME Inv, NEW p \in Procs, Step(p), NEW q \in Procs \ {p}
  PROVE  Safe(q)' /\ Holds(q)'
<1>1. ps'[q] = ps[q] /\ depth'[q] = depth[q]
  BY StepMoves DEF Moves, Inv
<1>2. CASE ~(depth[q] > 0)
  BY <1>1, <1>2 DEF Safe, Holds
<1>3. CASE depth[q] > 0
  <2>1. lock = q /\ Safe(q) /\ Holds(q) /\ Kept /\ q # None
    BY <1>3, Ground DEF Goal
  <2>2. depth[p] = 0 /\ (lock = p <=> depth[p] > 0)
    BY <2>1, Ground
  <2>3. ~Acquire(p)
    BY <2>1, <2>2 DEF Acquire, Acquirable
  <2>4. Quiet
    BY <2>2, <2>3, Aside
  <2> QED  BY <1>1, <2>1, <2>4, QuietHold
<1> QED  BY <1>2, <1>3

LEMMA InitInv ==
  ASSUME Init
  PROVE  Inv
<1>1. Shaped /\ Locking
  BY InitLocked
<1>2. \A p \in Procs : ps[p] = Idle /\ depth[p] = 0
  BY DEF Init
<1>3. CmdOK(Plain)
  BY IdleShaped DEF CmdOK, AddOps, PlanOps
<1>4. Asked
  BY <1>2, <1>3, IdleShaped DEF Asked, AskedBy
<1>5. disk = StartDisk /\ last = StartDisk
  BY DEF Init
<1>6. Kept
  <2>1. IsDisk(StartDisk) /\ StartDisk["subs"] = Registered
    BY StartDiskHolds, FileNames DEF IsDisk, StartDisk
  <2> QED  BY <1>5, <2>1, RegisteredSubs DEF Kept
<1>7. Free
  BY <1>5 DEF Free, Same
<1>8. Pointer
  <2>1. Usable(StartDisk)
    BY StartDiskHolds, RegisteredSubs DEF Usable
  <2> QED  BY <1>5, <2>1 DEF Pointer
<1>9. \A p \in Procs : Safe(p) /\ Holds(p)
  BY <1>2 DEF Safe, Holds
<1> QED  BY <1>1, <1>4, <1>6, <1>7, <1>8, <1>9 DEF Inv

LEMMA StepInv ==
  ASSUME Inv, [Next]_vars
  PROVE  Inv'
<1>1. CASE Next
  <2>1. PICK p \in Procs : Step(p)
    BY <1>1 DEF Next
  <2>2. Shaped' /\ Locking'
    BY <2>1, StepLocked DEF Inv
  <2>3. Asked'
    BY <2>1, StepAsked DEF Inv
  <2>4. Goal(p)'
    BY <2>1, StepGoes
  <2>5. \A q \in Procs : Safe(q)' /\ Holds(q)'
    BY <2>1, <2>4, StepOthers DEF Goal
  <2> QED  BY <2>2, <2>3, <2>4, <2>5 DEF Inv, Goal
<1>2. CASE UNCHANGED vars
  BY <1>2 DEF vars, Inv, Shaped, IsJob, IsCount, Locking, Locked, Depths, Asked, AskedBy, Kept, Free, Pointer,
              Safe, Holds, Held, Done, Planned, Based, Writing, Touched, Pending, Applied, Same, Stable, Op
<1> QED  BY <1>1, <1>2

LEMMA AlwaysInv == Spec => []Inv
BY InitInv, StepInv, PTL DEF Spec

\* Only an addition makes an entry alive, and it is one of its own URL.
LEMMA SubsWritten ==
  ASSUME NEW p \in Procs, Planned(p), Applied(Stable, ps[p].plan, ps[p].at, ps[p].snap, disk),
         ps[p].at < Len(ps[p].plan), ps[p].plan[ps[p].at + 1].file = "subs", Op(p) # "restore",
         NEW i, i \in Alive(ps[p].plan[ps[p].at + 1].val) \ Alive(disk["subs"])
  PROVE  Op(p) \in AddOps /\ ps[p].plan[ps[p].at + 1].val[i].url = ps[p].cmd.url
<1> DEFINE c == ps[p].cmd
           d == ps[p].snap
           w == ps[p].plan
           id == ps[p].id
           n == ps[p].at
           subs == w[n + 1].val
<1>1. /\ c.op \in PlanOps /\ CmdOK(c) /\ SubsOK(d["subs"]) /\ id \in Targets(c, d) /\ w = Writes(c, id, d)
      /\ Op(p) = c.op
  BY DEF Planned, Based, Op
<1>2. IsPlan(w) /\ Len(w) \in Nat /\ n \in Nat /\ n < Len(w) /\ n + 1 \in 1 .. Len(w)
  BY PlannedShape DEF IsPlan, Applied
<1>3. ASSUME \A k \in 1 .. n : w[k].file # "subs"
      PROVE  disk["subs"] = d["subs"]
  BY <1>3, FileNames DEF Applied, Stable
<1> HIDE DEF c, d, w, id, n
<1>4. w[n + 1].file = "subs" /\ i \in Alive(subs) /\ i \notin Alive(disk["subs"])
  BY DEF w, n
<1> HIDE DEF subs
<1>5. CASE c.op \in AddOps
  <2>1. /\ id \in Ids /\ Len(w) \in {2, 3}
        /\ w[1] = Write(id, c.data) /\ w[2] = Write("subs", Entered(d["subs"], id, c.url))
        /\ Len(w) = 3 => w[3] = Write("active", id)
    BY <1>1, <1>5, AddPlanned
  <2>2. /\ w[1].file = id /\ w[2].file = "subs" /\ w[2].val = Entered(d["subs"], id, c.url)
        /\ Len(w) = 3 => w[3].file = "active"
    BY <2>1, WriteFields
  <2>3. n + 1 = 2 /\ n = 1
    <3>1. PICK l : l = Len(w)
      OBVIOUS
    <3>2. n = 0 \/ n = 1 \/ (n = 2 /\ l = 3)
      BY <1>2, <2>1, <3>1
    <3> QED  BY <1>4, <2>1, <2>2, <3>1, <3>2, FileNames
  <2>4. disk["subs"] = d["subs"]
    BY <1>3, <2>1, <2>2, <2>3, FileNames
  <2>5. subs = Entered(d["subs"], id, c.url)
    BY <2>2, <2>3 DEF subs
  <2>6. Alive(subs) = Alive(d["subs"]) \cup {id} /\ subs[id].url = c.url
    BY <1>1, <1>5, <2>1, <2>5, EnteredSubs DEF CmdOK
  <2> QED  BY <1>1, <1>4, <1>5, <2>4, <2>6 DEF subs, w, n, c
<1>6. CASE c.op = "remove"
  <2>1. /\ Len(w) = 2 /\ id \in Ids /\ id \in DOMAIN d["subs"]
        /\ w[1] = Write("subs", RetiredAfter(d["subs"], id)) /\ w[2] = Write(id, NoFile)
    BY <1>1, <1>6, RemovePlanned
  <2>2. w[1].val = RetiredAfter(d["subs"], id) /\ w[2].file = id
    BY <2>1, WriteFields
  <2>3. n = 0
    BY <1>2, <1>4, <2>1, <2>2, FileNames
  <2>4. disk["subs"] = d["subs"]
    BY <1>3, <2>3
  <2>5. subs = RetiredAfter(d["subs"], id)
    BY <2>2, <2>3 DEF subs
  <2>6. Alive(subs) = Alive(d["subs"]) \ {id}
    BY <1>1, <2>1, <2>5, RetiredAfterSubs
  <2> QED  BY <1>4, <2>4, <2>6
<1>7. CASE c.op = "refresh"
  <2>1. /\ \A k \in 1 .. Len(w) - 1 : w[k].file \in Ids /\ w[k].val = c.data
        /\ Len(w) > 0 => w[Len(w)] = Write("subs", d["subs"])
    BY <1>1, <1>7, RefreshPlanned
  <2>2. n + 1 = Len(w)
    <3>1. n + 1 \notin 1 .. Len(w) - 1
      BY <1>4, <2>1, FileNames
    <3> QED  BY <1>2, <3>1
  <2>3. \A k \in 1 .. n : w[k].file # "subs"
    BY <1>2, <2>1, <2>2, FileNames
  <2>4. subs = d["subs"]
    BY <1>2, <2>1, <2>2, WriteFields DEF subs
  <2> QED  BY <1>3, <1>4, <2>3, <2>4
<1>8. CASE c.op \in {"switch", "agent", "tun"} \cup OverlayOps
  <2>1. /\ Len(w) = 1
        /\ c.op = "switch" => w[1] = Write("active", id)
        /\ c.op = "agent" => w[1] = Write("subs", d["subs"])
        /\ c.op \in OverlayOps => w[1].file = "overlay"
        /\ c.op = "tun" => w[1].file = "config"
    BY <1>1, <1>8, OnePlanned
  <2>2. n = 0
    BY <1>2, <2>1
  <2>3. c.op = "agent"
    BY <1>4, <1>8, <2>1, <2>2, WriteFields
  <2>4. subs = d["subs"]
    BY <2>1, <2>2, <2>3, WriteFields DEF subs
  <2> QED  BY <1>3, <1>4, <2>2, <2>4
<1> QED  BY <1>1, <1>5, <1>6, <1>7, <1>8 DEF PlanOps

\* What NoResurrection says of a step.
RevivesNone ==
  \A i \in Alive(disk'["subs"]) \ Alive(disk["subs"]) :
    \E p \in Procs : \/ Op(p) \in AddOps /\ disk'["subs"][i].url = ps[p].cmd.url
                    \/ Op(p) = "restore" \/ At(p, "undo")

LEMMA StepRevivesNone ==
  ASSUME Inv, NEW p \in Procs, Step(p)
  PROVE  RevivesNone
<1>1. Shaped /\ Kept /\ Goal(p) /\ Locked(p) /\ Depths(p)
  BY Ground DEF Goal
<1>2. ASSUME disk' = disk \/ \E f \in Files \ {"subs"} : \E v : disk' = [disk EXCEPT ![f] = v]
      PROVE  RevivesNone
  <2>1. disk'["subs"] = disk["subs"]
    BY <1>1, <1>2, FileNames DEF Kept, IsDisk
  <2> QED  BY <2>1 DEF RevivesNone
<1>3. CASE UndoNext(p)
  BY <1>3 DEF RevivesNone, UndoNext
<1>4. CASE WriteNext(p) /\ Op(p) = "restore"
  BY <1>4 DEF RevivesNone
<1>5. CASE WriteNext(p) /\ Op(p) # "restore"
  <2> DEFINE g == ps[p].plan[ps[p].at + 1].file
             v == ps[p].plan[ps[p].at + 1].val
  <2>1. /\ ps[p].pc = "write" /\ ps[p].at < Len(ps[p].plan) /\ disk' = [disk EXCEPT ![g] = v]
    BY <1>5 DEF WriteNext, At, Put
  <2>2. depth[p] > 0
    BY <1>1, <2>1 DEF Depths
  <2>3. Planned(p) /\ Applied(Stable, ps[p].plan, ps[p].at, ps[p].snap, disk)
    BY <1>1, <2>1, <2>2 DEF Goal, Holds, Held
  <2>4. g \in Files
    BY <2>1, <2>3, PlannedShape DEF IsPlan, Applied
  <2>5. CASE g # "subs"
    BY <1>2, <2>1, <2>4, <2>5
  <2>6. CASE g = "subs"
    <3>1. disk'["subs"] = v
      BY <1>1, <2>1, <2>4, <2>6 DEF Kept, IsDisk
    <3>2. \A i \in Alive(v) \ Alive(disk["subs"]) : Op(p) \in AddOps /\ v[i].url = ps[p].cmd.url
      BY <1>5, <2>1, <2>3, <2>6, SubsWritten
    <3> QED  BY <3>1, <3>2 DEF RevivesNone
  <2> QED  BY <2>5, <2>6
<1>6. CASE Prompt(p)
  <2>1. "active" \in Files \ {"subs"}
    BY FileNames
  <2> QED  BY <1>2, <1>6, <2>1 DEF Prompt
<1>7. CASE MergeWrite(p) \/ Validate(p) \/ Reconcile(p) \/ Fix(p) \/ FixChecked(p)
  <2>1. "config" \in Files \ {"subs"}
    BY FileNames
  <2> QED  BY <1>2, <1>7, <2>1 DEF MergeWrite, Validate, Reconcile, Fix, FixChecked
<1> QED  BY <1>2, <1>3, <1>4, <1>5, <1>6, <1>7 DEF Step, Begin, Acquire, AcquireTimesOut, Plan, Written, WriteFails,
       MergeFails, ResolveFails, UndoFails, Undone, Leave, ReadBase, Send, Crash

-----------------------------------------------------------------------------
(* The properties.                                                         *)

\* LOCK_DEPTH and the lock file agree: a thread that counts a hold owns the
\* file, however its guards nest and whichever acquisition timed out.
THEOREM LockIsHonest == Spec => []LockHonest
<1>1. Inv => LockHonest
  BY DEF Inv, Locking, Locked, LockHonest
<1> QED  BY AlwaysInv, <1>1, PTL

\* Whenever the lock is free, the active pointer names a living subscription
\* with a cache, for every mix of commands, failures and deaths, unless an
\* undoing or a restored backup was itself cut short.
THEOREM PointerStaysUsable == Spec => []ActiveUsable
<1>1. ASSUME Inv
      PROVE  ActiveUsable
  <2>1. Kept /\ Free /\ Pointer
    BY <1>1 DEF Inv
  <2> QED  BY <2>1, SameUsable DEF ActiveUsable, Free, Pointer, Usable
<1> QED  BY AlwaysInv, <1>1, PTL

\* A command that failed has put back every file it wrote.
THEOREM FailureRestores == Spec => []RestoredOnFailure
<1>1. ASSUME Inv
      PROVE  RestoredOnFailure
  <2>1. SUFFICES ASSUME NEW p \in Procs, At(p, "failed"), depth[p] > 0, torn = {}, count.fixes = 0
                 PROVE  disk = last
    BY DEF RestoredOnFailure
  <2>2. Same(disk, {}) /\ Kept
    BY <1>1, <2>1, Ground DEF Goal, Holds, Held, At
  <2>3. \A f \in Files : disk[f] = last[f]
    BY <2>1, <2>2 DEF Same, Stable
  <2> QED  BY <2>2, <2>3 DEF Kept, IsDisk
<1> QED  BY AlwaysInv, <1>1, PTL

\* What was removed stays removed until its URL is added again, a backup is
\* restored or a failed command puts back what it found.
THEOREM RemovedStaysRemoved == Spec => NoResurrection
<1>1. ASSUME Inv, [Next]_vars
      PROVE  [RevivesNone]_vars
  <2>1. CASE Next
    <3>1. PICK p \in Procs : Step(p)
      BY <2>1 DEF Next
    <3> QED  BY <1>1, <3>1, StepRevivesNone
  <2> QED  BY <1>1, <2>1
<1> QED  BY AlwaysInv, <1>1, PTL DEF Spec, NoResurrection, RevivesNone

-----------------------------------------------------------------------------
(* Types.  A file holds what belongs in it, whoever wrote it last.         *)

\* No two tombstones are of the same time, and there are no more than are kept.
Ranked(subs) ==
  /\ \A i, j \in Retired(subs) : subs[i].retired = subs[j].retired => i = j
  /\ Cardinality(Retired(subs)) <= RetiredLimit

FileOK(f, v) ==
  /\ f = "subs" => SubsOK(v) /\ Ranked(v)
  /\ f = "active" => v \in Ids \cup {None}
  /\ f = "overlay" => v \in Contents
  /\ f = "config" => v \in Configs
  /\ f \in Ids => v \in Contents \cup {NoFile}

DiskOK(d) == \A f \in Files : FileOK(f, d[f])

LEMMA EnteredRanked ==
  ASSUME NEW subs, SubsOK(subs), Ranked(subs), NEW id, NEW url
  PROVE  Ranked(Entered(subs, id, url))
<1> DEFINE E == Entered(subs, id, url)
<1>1. Retired(E) = Retired(subs) \ {id} /\ \A i \in Retired(E) : E[i] = subs[i]
  BY DEF Entered, Retired, Alive
<1>2. IsFiniteSet(Retired(subs)) /\ Cardinality(Retired(subs)) \in Nat
  BY RetiredFinite
<1>3. Cardinality(Retired(E)) <= Cardinality(Retired(subs)) /\ Cardinality(Retired(E)) \in Nat
  BY <1>1, <1>2, FS_Subset, FS_CardinalityType
<1> HIDE DEF E
<1>4. \A i, j \in Retired(E) : E[i].retired = E[j].retired => i = j
  BY <1>1 DEF Ranked
<1> QED  BY <1>2, <1>3, <1>4, BoundsAssumption DEF Ranked, E

\* The tombstones that are no newer than that of i.
Older(subs, i) == {j \in Retired(subs) : subs[j].retired <= subs[i].retired}

LEMMA OlderFewer ==
  ASSUME NEW subs, SubsOK(subs), Ranked(subs), NEW i \in Retired(subs)
  PROVE  /\ Cardinality(Older(subs, i)) \in 1 .. Cardinality(Retired(subs))
         /\ \A j \in Retired(subs) :
              Cardinality(Older(subs, i)) = Cardinality(Older(subs, j)) => i = j
<1>1. \A k \in Retired(subs) : subs[k].retired \in Nat
  BY DEF SubsOK, Retired, Entries
<1>2. \A k \in Retired(subs) : k \in Older(subs, k) /\ Older(subs, k) \subseteq Retired(subs)
  BY <1>1 DEF Older
<1>3. \A k \in Retired(subs) : /\ IsFiniteSet(Older(subs, k))
                               /\ Cardinality(Older(subs, k)) \in Nat /\ Cardinality(Older(subs, k)) > 0
  BY <1>2, RetiredFinite
<1>4. Cardinality(Older(subs, i)) <= Cardinality(Retired(subs)) /\ Cardinality(Retired(subs)) \in Nat
  BY <1>2, RetiredFinite, FS_Subset
<1>5. ASSUME NEW a \in Retired(subs), NEW b \in Retired(subs), subs[a].retired < subs[b].retired
      PROVE  Cardinality(Older(subs, a)) # Cardinality(Older(subs, b))
  <2>1. Older(subs, a) \subseteq Older(subs, b)
    BY <1>1, <1>5 DEF Older
  <2>2. b \in Older(subs, b) /\ b \notin Older(subs, a)
    BY <1>1, <1>5 DEF Older
  <2> QED  BY <1>3, <2>1, <2>2, FS_Subset
<1>6. ASSUME NEW j \in Retired(subs), i # j
      PROVE  Cardinality(Older(subs, i)) # Cardinality(Older(subs, j))
  <2>1. subs[i].retired # subs[j].retired
    BY <1>6 DEF Ranked
  <2>2. subs[i].retired < subs[j].retired \/ subs[j].retired < subs[i].retired
    BY <1>1, <2>1
  <2> QED  BY <1>5, <2>2
<1> QED  BY <1>3, <1>4, <1>6

\* Whatever is retired, no more tombstones than the limit are kept.
LEMMA RetiredAfterRanked ==
  ASSUME NEW subs, SubsOK(subs), Ranked(subs), NEW id \in Alive(subs)
  PROVE  Ranked(RetiredAfter(subs, id))
<1> DEFINE n == Cardinality(Retired(subs))
           now == 1 + n
           marked == [i \in DOMAIN subs |->
                        IF i = id THEN [subs[i] EXCEPT !.retired = now]
                        ELSE IF i \in Retired(subs) THEN [subs[i] EXCEPT !.retired = Cardinality(Older(subs, i))]
                        ELSE subs[i]]
           kept == {i \in Retired(marked) : marked[i].retired > now - RetiredLimit}
           R == [i \in Alive(marked) \cup kept |-> marked[i]]
<1>1. n \in Nat /\ now \in Nat /\ now = n + 1
  BY RetiredFinite
<1>2. /\ DOMAIN marked = DOMAIN subs /\ id \in DOMAIN subs /\ id \notin Retired(subs)
      /\ marked[id].retired = now
      /\ \A i \in Retired(subs) : marked[i].retired = Cardinality(Older(subs, i))
      /\ \A i \in DOMAIN subs : i # id /\ i \notin Retired(subs) => marked[i] = subs[i]
  BY DEF Retired, Alive, SubsOK, Entries
<1>3. RetiredAfter(subs, id) = R
  BY DEF RetiredAfter, Older
<1> HIDE DEF n, now, marked
<1>4. Retired(marked) \subseteq Retired(subs) \cup {id}
  BY <1>2 DEF Retired, Alive
<1>5. \A i \in Retired(marked) : marked[i].retired \in 1 .. now
  BY <1>1, <1>2, <1>4, OlderFewer DEF n
<1>6. \A i, j \in Retired(marked) : marked[i].retired = marked[j].retired => i = j
  BY <1>1, <1>2, <1>4, OlderFewer DEF n
<1>7. Retired(R) = kept /\ \A i \in kept : R[i] = marked[i]
  BY DEF Retired, Alive
<1> HIDE DEF R
<1>8. PICK m : m = now - RetiredLimit
  OBVIOUS
<1>9. m \in Int /\ RetiredLimit \in Nat /\ now - m = RetiredLimit
  BY <1>1, <1>8, BoundsAssumption
<1>10. PICK f : f = [i \in kept |-> marked[i].retired]
  OBVIOUS
<1>11. f \in Injection(kept, m + 1 .. now)
  <2>1. \A i \in kept : marked[i].retired \in m + 1 .. now
    BY <1>1, <1>5, <1>8, <1>9
  <2>2. f \in [kept -> m + 1 .. now]
    BY <1>10, <2>1
  <2>3. \A i, j \in kept : f[i] = f[j] => i = j
    BY <1>6, <1>10
  <2> HIDE DEF kept
  <2> QED  BY <2>2, <2>3 DEF Injection, IsInjective
<1>12. IsFiniteSet(m + 1 .. now) /\ Cardinality(m + 1 .. now) = RetiredLimit
  <2>1. m + 1 \in Int /\ now \in Int
    BY <1>1, <1>9
  <2>2. RetiredLimit > 0
    BY BoundsAssumption
  <2>3. ~(m + 1 > now) /\ now - (m + 1) + 1 = RetiredLimit
    BY <1>1, <1>9, <2>2
  <2> QED  BY <2>1, <2>3, FS_Interval
<1>13. IsFiniteSet(kept)
  <2>1. IsFiniteSet(Retired(subs) \cup {id})
    BY RetiredFinite, FS_AddElement
  <2>2. kept \subseteq Retired(subs) \cup {id}
    BY <1>4
  <2> QED  BY <2>1, <2>2, FS_Subset
<1>14. Cardinality(kept) <= RetiredLimit
  BY <1>11, <1>12, <1>13, FS_Injection
<1>15. \A i, j \in Retired(R) : R[i].retired = R[j].retired => i = j
  BY <1>6, <1>7
<1> QED  BY <1>3, <1>7, <1>14, <1>15 DEF Ranked

\* The tombstones there are at the start: the code trims a list when it adds to it.
RegisteredRanked == Ranked(Registered)

LEMMA MissingOK ==
  /\ \A f \in Ids : FileOK(f, NoFile) /\ (\A v \in Contents : FileOK(f, v))
  /\ \A v \in Ids \cup {None} : FileOK("active", v)
  /\ \A v \in Contents : FileOK("overlay", v)
  /\ \A v \in Configs : FileOK("config", v)
  /\ \A v : SubsOK(v) /\ Ranked(v) => FileOK("subs", v)
BY FileNames DEF FileOK

LEMMA DiskFiles ==
  ASSUME NEW d, DiskOK(d)
  PROVE  /\ SubsOK(d["subs"]) /\ Ranked(d["subs"]) /\ d["active"] \in Ids \cup {None}
         /\ d["overlay"] \in Contents /\ d["config"] \in Configs
         /\ \A i \in Ids : d[i] \in Contents \cup {NoFile}
BY FileNames DEF DiskOK, FileOK

LEMMA PutOK ==
  ASSUME NEW d, IsDisk(d), DiskOK(d), NEW f, NEW v, FileOK(f, v), NEW e, e = Put(d, f, v)
  PROVE  DiskOK(e)
BY DEF IsDisk, DiskOK, Put

LEMMA StartOK ==
  ASSUME RegisteredRanked
  PROVE  DiskOK(StartDisk) /\ [StartDisk["config"] EXCEPT !.controller = TRUE] \in Configs
<1> DEFINE c == [from |-> Chosen, sub |-> IF Chosen = None THEN NoFile ELSE Usual,
                 overlay |-> Usual, tun |-> FALSE, controller |-> FALSE]
<1>1. Usual \in Contents /\ Chosen \in Ids \cup {None}
  BY ContentAssumption, RegisteredSubs
<1>2. c \in Configs /\ [c EXCEPT !.controller = TRUE] \in Configs
  BY <1>1 DEF Configs
<1>3. StartDisk["config"] = c /\ StartDisk["overlay"] = Usual
  BY FileNames, RegisteredSubs, LivingKnown DEF StartDisk
<1> HIDE DEF c
<1>4. StartDisk["subs"] = Registered /\ StartDisk["active"] = Chosen
  BY StartDiskHolds
<1>5. ASSUME NEW i \in Ids
      PROVE  StartDisk[i] \in Contents \cup {NoFile}
  <2>1. i \notin {"subs", "active", "overlay", "config"} /\ i \in Files
    BY FileNames
  <2> QED  BY <1>1, <2>1 DEF StartDisk
<1>6. \A f \in Files : FileOK(f, StartDisk[f])
  BY <1>1, <1>2, <1>3, <1>4, <1>5, RegisteredSubs, FileNames DEF FileOK, Files, RegisteredRanked
<1> QED  BY <1>2, <1>3, <1>6 DEF DiskOK

AllOK(w) == IsSeq(w) /\ \A k \in 1 .. Len(w) : FileOK(w[k].file, w[k].val)

LEMMA CatOK ==
  ASSUME NEW s, NEW t, AllOK(s), AllOK(t)
  PROVE  AllOK(Cat(s, t))
<1>1. IsJoin(Cat(s, t), s, t)
  BY Joined DEF AllOK
<1> DEFINE v == Cat(s, t)
<1>2. IsSeq(v) /\ Len(s) \in Nat /\ Len(t) \in Nat /\ Len(v) = Len(s) + Len(t)
  BY <1>1 DEF IsJoin, AllOK, IsSeq
<1> HIDE DEF v
<1>3. ASSUME NEW k \in 1 .. Len(v)
      PROVE  FileOK(v[k].file, v[k].val)
  <2>1. CASE k \in 1 .. Len(s)
    <3>1. v[k] = s[k]
      BY <1>1, <2>1 DEF IsJoin, v
    <3> QED  BY <2>1, <3>1 DEF AllOK
  <2>2. CASE k \notin 1 .. Len(s)
    <3>1. k - Len(s) \in 1 .. Len(t) /\ k = Len(s) + (k - Len(s))
      BY <1>2, <2>2
    <3>2. v[k] = t[k - Len(s)]
      BY <1>1, <3>1 DEF IsJoin, v
    <3> QED  BY <3>1, <3>2 DEF AllOK
  <2> QED  BY <2>1, <2>2
<1> QED  BY <1>2, <1>3 DEF AllOK, v

LEMMA ShortOK ==
  ASSUME NEW f, NEW v, FileOK(f, v)
  PROVE  AllOK(<<Write(f, v)>>)
<1>1. PICK x : x = Write(f, v)
  OBVIOUS
<1>2. FileOK(x.file, x.val)
  BY <1>1, WriteFields
<1>3. Len(<<x>>) = 1 /\ <<x>>[1] = x /\ IsSeq(<<x>>)
  BY DEF IsSeq
<1> QED  BY <1>1, <1>2, <1>3 DEF AllOK

LEMMA RestoreOK ==
  ASSUME RegisteredRanked
  PROVE  AllOK(RestorePlan)
<1>1. PICK ids : ids = SetToSeq(Ids)
  OBVIOUS
<1>2. IsSeq(ids) /\ \A k \in 1 .. Len(ids) : ids[k] \in Ids
  BY <1>1, IdsAssumption, Listed DEF IsSeq
<1>3. DOMAIN ids = 1 .. Len(ids) /\ Len(ids) \in Nat
  BY <1>2 DEF IsSeq
<1>4. /\ FileOK("config", StartDisk["config"]) /\ FileOK("overlay", StartDisk["overlay"])
      /\ FileOK("subs", StartDisk["subs"]) /\ FileOK("active", None) /\ FileOK("active", StartDisk["active"])
      /\ FileOK("config", [StartDisk["config"] EXCEPT !.controller = TRUE])
      /\ \A i \in Ids : FileOK(i, NoFile) /\ FileOK(i, StartDisk[i])
  BY StartOK, MissingOK, FileNames DEF DiskOK
<1>5. PICK a, b, c, e : /\ a = Write("config", StartDisk["config"]) /\ b = Write("overlay", StartDisk["overlay"])
                        /\ c = Write("subs", StartDisk["subs"]) /\ e = Write("active", None)
  OBVIOUS
<1>6. AllOK(<<a, b, c, e>>)
  <2>1. FileOK(a.file, a.val) /\ FileOK(b.file, b.val) /\ FileOK(c.file, c.val) /\ FileOK(e.file, e.val)
    BY <1>4, <1>5, WriteFields
  <2>2. PICK h : h = <<a, b, c, e>>
    OBVIOUS
  <2>3. IsSeq(h) /\ Len(h) = 4 /\ h[1] = a /\ h[2] = b /\ h[3] = c /\ h[4] = e
    BY <2>2 DEF IsSeq
  <2>4. \A k \in 1 .. Len(h) : FileOK(h[k].file, h[k].val)
    BY <2>1, <2>3
  <2> QED  BY <2>2, <2>3, <2>4 DEF AllOK
<1>7. PICK A : A = [k \in DOMAIN ids |-> Write(ids[k], NoFile)]
  OBVIOUS
<1>8. PICK B : B = [k \in DOMAIN ids |-> Write(ids[k], StartDisk[ids[k]])]
  OBVIOUS
<1>9. AllOK(A)
  <2>1. Len(A) = Len(ids) /\ IsSeq(A) /\ \A k \in 1 .. Len(A) : A[k] = Write(ids[k], NoFile)
    BY <1>3, <1>7 DEF IsSeq
  <2> QED  BY <1>2, <1>4, <2>1, WriteFields DEF AllOK
<1>10. AllOK(B)
  <2>1. Len(B) = Len(ids) /\ IsSeq(B) /\ \A k \in 1 .. Len(B) : B[k] = Write(ids[k], StartDisk[ids[k]])
    BY <1>3, <1>8 DEF IsSeq
  <2> QED  BY <1>2, <1>4, <2>1, WriteFields DEF AllOK
<1>11. PICK x, y : /\ x = Write("active", StartDisk["active"])
                   /\ y = Write("config", [StartDisk["config"] EXCEPT !.controller = TRUE])
  OBVIOUS
<1>12. AllOK(<<x, y>>)
  <2>1. FileOK(x.file, x.val) /\ FileOK(y.file, y.val)
    BY <1>4, <1>11, WriteFields
  <2>2. PICK h : h = <<x, y>>
    OBVIOUS
  <2>3. IsSeq(h) /\ Len(h) = 2 /\ h[1] = x /\ h[2] = y
    BY <2>2 DEF IsSeq
  <2> QED  BY <2>1, <2>2, <2>3 DEF AllOK
<1>13. RestorePlan = Cat(Cat(Cat(<<a, b, c, e>>, A), B), <<x, y>>)
  BY <1>1, <1>5, <1>7, <1>8, <1>11 DEF RestorePlan, Cat
<1> QED  BY <1>6, <1>9, <1>10, <1>12, <1>13, CatOK

\* What a command writes is what belongs in the files, if what it read was.
CmdTyped(c) ==
  /\ c.op \in OverlayOps => c.data \in Contents
  /\ c.op \in {"tun", "fix"} => c.base \in Configs

LEMMA WritesOK ==
  ASSUME RegisteredRanked, NEW c, NEW d, NEW id, NEW w, c.op \in PlanOps, CmdOK(c), CmdTyped(c), DiskOK(d),
         id \in Targets(c, d), w = Writes(c, id, d), NEW k \in 1 .. Len(w)
  PROVE  FileOK(w[k].file, w[k].val)
<1>1. SubsOK(d["subs"]) /\ Ranked(d["subs"])
  BY DiskFiles
<1>2. CASE c.op \in AddOps
  <2>1. /\ id \in Ids /\ Len(w) \in {2, 3}
        /\ w[1] = Write(id, c.data) /\ w[2] = Write("subs", Entered(d["subs"], id, c.url))
        /\ Len(w) = 3 => w[3] = Write("active", id)
    BY <1>1, <1>2, AddPlanned
  <2>2. SubsOK(Entered(d["subs"], id, c.url)) /\ Ranked(Entered(d["subs"], id, c.url))
    BY <1>1, <1>2, <2>1, EnteredSubs, EnteredRanked DEF CmdOK
  <2>3. c.data \in Contents
    BY <1>2 DEF CmdOK
  <2>4. FileOK(id, c.data) /\ FileOK("subs", Entered(d["subs"], id, c.url)) /\ FileOK("active", id)
    BY <2>1, <2>2, <2>3, MissingOK
  <2>5. k = 1 \/ k = 2 \/ (k = 3 /\ Len(w) = 3)
    <3>1. PICK l : l = Len(w)
      OBVIOUS
    <3>2. l = 2 \/ l = 3
      BY <2>1, <3>1
    <3> QED  BY <3>1, <3>2
  <2> QED  BY <2>1, <2>4, <2>5, WriteFields
<1>3. CASE c.op = "remove"
  <2>1. /\ Len(w) = 2 /\ id \in Ids
        /\ w[1] = Write("subs", RetiredAfter(d["subs"], id)) /\ w[2] = Write(id, NoFile)
    BY <1>1, <1>3, RemovePlanned
  <2>2. id \in Alive(d["subs"]) /\ id \in DOMAIN d["subs"]
    BY <1>3 DEF Targets, Removable, AddOps, Alive
  <2>3. SubsOK(RetiredAfter(d["subs"], id)) /\ Ranked(RetiredAfter(d["subs"], id))
    BY <1>1, <2>2, RetiredAfterSubs, RetiredAfterRanked
  <2>4. k = 1 \/ k = 2
    BY <2>1
  <2> QED  BY <2>1, <2>3, <2>4, MissingOK, WriteFields
<1>4. CASE c.op = "refresh"
  <2>1. /\ \A j \in 1 .. Len(w) - 1 : w[j].file \in Ids /\ w[j].val = c.data
        /\ Len(w) > 0 => w[Len(w)] = Write("subs", d["subs"])
        /\ Len(w) \in Nat
    BY <1>1, <1>4, RefreshPlanned DEF IsPlan
  <2>2. c.data \in Contents
    BY <1>4 DEF CmdOK
  <2>3. k \in 1 .. Len(w) - 1 \/ (k = Len(w) /\ Len(w) > 0)
    BY <2>1
  <2> QED  BY <1>1, <2>1, <2>2, <2>3, MissingOK, WriteFields
<1>5. CASE c.op = "switch" \/ c.op = "agent"
  <2>1. /\ Len(w) = 1
        /\ c.op = "switch" => w[1] = Write("active", id) /\ id \in Alive(d["subs"])
        /\ c.op = "agent" => w[1] = Write("subs", d["subs"])
    BY <1>1, <1>5, OnePlanned
  <2>2. k = 1 /\ Alive(d["subs"]) \subseteq Ids
    BY <1>1, <2>1, LivingKnown
  <2> QED  BY <1>1, <1>5, <2>1, <2>2, MissingOK, WriteFields
<1>6. CASE c.op \in OverlayOps
  <2>1. w = <<Write("overlay", c.data)>>
    BY <1>6 DEF Writes, AddOps, OverlayOps
  <2>2. FileOK("overlay", c.data)
    BY <1>6, MissingOK DEF CmdTyped
  <2> QED  BY <2>1, <2>2, ShortOK DEF AllOK
<1>7. CASE c.op = "tun"
  <2>1. w = <<Write("config", [c.base EXCEPT !.tun = ~c.base.tun])>>
    BY <1>7 DEF Writes, AddOps, OverlayOps
  <2>2. c.base \in Configs
    BY <1>7 DEF CmdTyped
  <2>3. [c.base EXCEPT !.tun = ~c.base.tun] \in Configs
    BY <2>2 DEF Configs
  <2> QED  BY <2>1, <2>3, MissingOK, ShortOK DEF AllOK
<1>8. CASE c.op = "restore"
  <2>1. w = RestorePlan
    BY <1>8 DEF Writes, AddOps, OverlayOps
  <2> QED  BY <2>1, RestoreOK DEF AllOK
<1> QED  BY <1>2, <1>3, <1>4, <1>5, <1>6, <1>7, <1>8 DEF PlanOps

\* A command that has made its plan carries the files it made it from, and one that has read
\* config.yaml to compare it later carries one.
Past(s) ==
  s.pc \notin {"idle", "plan", "fix", "fixed", "failed"} /\ ~(s.pc = "want" /\ s.then = "plan")
Reads(s) ==
  s.pc \in {"validate", "reconcile", "reconciled", "send"} \/ (s.pc = "want" /\ s.then = "reconcile")

JobTyped(p) ==
  /\ Past(ps[p]) => DiskOK(ps[p].snap)
  /\ Reads(ps[p]) => ps[p].prev \in Configs
  /\ CmdTyped(ps[p].cmd)
  /\ ps[p].pc \in {"fix", "fixed"} => Op(p) = "fix"

Types ==
  /\ DiskOK(disk) /\ runtime \in Configs /\ torn \subseteq {"change", "undo"}
  /\ lock \in Procs \cup {None}
  /\ \A p \in Procs : JobTyped(p)

LEMMA JobStays ==
  ASSUME NEW p \in Procs, JobTyped(p), ps'[p].cmd = ps[p].cmd, ps'[p].snap = ps[p].snap,
         Past(ps'[p]) => Past(ps[p]), ps'[p].pc \notin {"fix", "fixed"} \/ ps[p].pc = "fix",
         Reads(ps'[p]) => Reads(ps[p]) /\ ps'[p].prev = ps[p].prev
  PROVE  JobTyped(p)'
BY DEF JobTyped, Op

LEMMA IdleJob ==
  ASSUME NEW p \in Procs, ps'[p] = Idle
  PROVE  JobTyped(p)'
BY IdleShaped DEF JobTyped, Past, Reads, CmdTyped, OverlayOps, Op

LEMMA GotoJob ==
  ASSUME Shaped, NEW p \in Procs, JobTyped(p), NEW x, ps' = [ps EXCEPT ![p].pc = x],
         Past(ps[p]) \/ x \in {"failed", "fixed"} \/ (x = "plan" /\ ps[p].then = "plan"),
         x \in {"failed", "leave"} \/ (x = "fixed" /\ ps[p].pc = "fix") \/ (x = "want" /\ ps[p].then # "reconcile")
           \/ (x = ps[p].then /\ ps[p].pc = "want" /\ x \in {"plan", "merge", "reconcile"})
  PROVE  JobTyped(p)'
<1>1. /\ ps'[p].pc = x /\ Keeps(p) /\ ps'[p].then = ps[p].then /\ ps'[p].prev = ps[p].prev
  BY GotoEffect
<1> QED  BY <1>1, JobStays DEF Keeps, Past, Reads

LEMMA UndoingJob ==
  ASSUME Shaped, NEW p \in Procs, JobTyped(p), NEW u, ps' = [ps EXCEPT ![p] = Undoing(p, u)], Past(ps[p])
  PROVE  JobTyped(p)'
<1>1. ps'[p].pc = "undo" /\ Keeps(p)
  BY UndoingEffect
<1> QED  BY <1>1, JobStays DEF Keeps, Reads

LEMMA StepJob ==
  ASSUME Inv, Types, NEW p \in Procs, Step(p)
  PROVE  JobTyped(p)'
<1>1. Shaped /\ JobTyped(p) /\ DiskOK(disk) /\ Depths(p)
  BY Ground DEF Types
<1>2. CASE Begin(p)
  <2>1. PICK c \in Commands(disk) :
          /\ ps'[p].cmd = c /\ ps'[p].then = "plan" /\ ps'[p].pc = IF c.op = "fix" THEN "fix" ELSE "want"
    BY <1>1, <1>2, BeginEffect
  <2>2. CmdTyped(c)
    BY <1>1, CommandsOK, DiskFiles DEF CmdReads, CmdTyped
  <2>3. ~Past(ps'[p]) /\ ~Reads(ps'[p])
    BY <2>1 DEF Past, Reads
  <2> QED  BY <2>1, <2>2, <2>3 DEF JobTyped, Op
<1>3. CASE Acquire(p)
  <2>1. ps[p].pc = "want" /\ ps[p].then \in {"plan", "merge", "reconcile"}
    BY <1>1, <1>3 DEF Acquire, At, Depths
  <2>2. ps' = [ps EXCEPT ![p].pc = ps[p].then]
    BY <1>3 DEF Acquire
  <2>3. Past(ps[p]) \/ ps[p].then = "plan"
    BY <2>1 DEF Past
  <2> QED  BY <1>1, <2>1, <2>2, <2>3, GotoJob
<1>4. CASE Plan(p)
  <2>1. CASE ps' = [ps EXCEPT ![p].pc = "failed"]
    BY <1>1, <2>1, GotoJob
  <2>2. CASE ps'[p].pc = "write" /\ ps'[p].snap = disk /\ ps'[p].cmd = ps[p].cmd
    BY <1>1, <2>2 DEF JobTyped, Reads
  <2> QED  BY <1>1, <1>4, <2>1, <2>2, PlanEffect
<1>5. CASE WriteNext(p)
  <2>1. Keeps(p) /\ ps'[p].pc = ps[p].pc /\ ps[p].pc = "write"
    BY <1>1, <1>5, WriteNextEffect DEF WriteNext, At
  <2> QED  BY <1>1, <2>1, JobStays DEF Keeps, Past, Reads
<1>6. CASE Written(p)
  <2>1. /\ Keeps(p) /\ ps[p].pc = "write" /\ ps'[p].pc \in {"leave", "prompt", "want"}
        /\ ps'[p].pc = "want" => ps'[p].then = "merge"
    <3>1. ps[p].pc = "write" /\ Keeps(p)
      BY <1>1, <1>6, WrittenEffect DEF Written, At
    <3>2. CASE Merges(ps[p].cmd)
      BY <1>1, <1>6, <3>1, <3>2, WrittenEffect
    <3>3. CASE ~Merges(ps[p].cmd)
      BY <1>1, <1>6, <3>1, <3>3, WrittenEffect
    <3> QED  BY <3>2, <3>3
  <2> QED  BY <1>1, <2>1, JobStays DEF Keeps, Past, Reads
<1>7. CASE Prompt(p)
  <2>1. /\ Keeps(p) /\ ps[p].pc = "prompt" /\ ps'[p].pc = "want" /\ ps'[p].then = ps[p].then
        /\ ps[p].then = "merge"
    BY <1>1, <1>7, PromptEffect DEF Prompt, At, Depths
  <2> QED  BY <1>1, <2>1, JobStays DEF Keeps, Past, Reads
<1>8. CASE WriteFails(p) \/ MergeFails(p)
  <2>1. Past(ps[p])
    BY <1>8 DEF WriteFails, MergeFails, At, Past
  <2> QED  BY <1>1, <1>8, <2>1, UndoingJob DEF WriteFails, MergeFails
<1>9. CASE MergeWrite(p)
  <2>1. ps[p].pc = "merge" /\ disk["config"] \in Configs
    BY <1>1, <1>9, DiskFiles DEF MergeWrite, At
  <2>2. /\ Keeps(p)
        /\ \/ ps'[p].pc = "validate" /\ ps'[p].prev = disk["config"]
           \/ ps'[p].pc = "undo"
    BY <1>1, <1>9, MergeWriteEffect
  <2> QED  BY <1>1, <2>1, <2>2 DEF JobTyped, Keeps, Past, Reads
<1>10. CASE Validate(p)
  <2>1. Past(ps[p])
    BY <1>10 DEF Validate, At, Past
  <2>2. CASE ps' = [ps EXCEPT ![p].pc = "leave"]
    BY <1>1, <2>1, <2>2, GotoJob
  <2>3. CASE ps' = [ps EXCEPT ![p] = Undoing(p, MergeUndo(p))]
    BY <1>1, <2>1, <2>3, UndoingJob
  <2> QED  BY <1>10, <2>2, <2>3 DEF Validate
<1>11. CASE ResolveFails(p) \/ Undone(p)
  BY <1>1, <1>11, GotoJob DEF ResolveFails, Undone
<1>12. CASE UndoNext(p) \/ UndoFails(p)
  <2>1. ps'[p].pc = ps[p].pc /\ Keeps(p) /\ ps[p].pc = "undo"
    BY <1>1, <1>12, UndoEffect DEF UndoNext, UndoFails, At
  <2> QED  BY <1>1, <2>1, JobStays DEF Keeps, Past, Reads
<1>13. CASE Leave(p)
  <2>1. CASE ps'[p] = Idle
    BY <2>1, IdleJob
  <2>2. CASE ps'[p] # Idle
    <3>1. /\ \/ ps[p].pc = "reconciled" /\ ps'[p].pc = "send"
             \/ ps[p].pc = "leave" /\ ps'[p].pc = "want" /\ ps'[p].then = "merge"
             \/ ps[p].pc = "leave" /\ ps'[p].pc = "apply"
          /\ ps'[p].cmd = ps[p].cmd /\ ps'[p].snap = ps[p].snap /\ ps'[p].prev = ps[p].prev
      BY <1>1, <1>13, <2>2, LeaveEffect
    <3> QED  BY <1>1, <3>1, JobStays DEF Past, Reads
  <2> QED  BY <2>1, <2>2
<1>14. CASE ReadBase(p)
  <2>1. /\ ps'[p].pc = "want" /\ ps'[p].then = "reconcile" /\ ps[p].pc = "apply"
        /\ ps'[p].cmd = ps[p].cmd /\ ps'[p].snap = ps[p].snap /\ ps'[p].prev = disk["config"]
    BY <1>1, <1>14, ReadBaseEffect DEF ReadBase, At
  <2> QED  BY <1>1, <2>1, DiskFiles DEF JobTyped, Past
<1>15. CASE Reconcile(p)
  <2>1. ps[p].pc = "reconcile" /\ Past(ps[p])
    BY <1>15 DEF Reconcile, At, Past
  <2>2. Reconciled \in Configs
    BY <1>1, DiskFiles DEF Reconciled, Configs
  <2>3. CmdTyped(Plain)
    BY IdleShaped DEF CmdTyped, OverlayOps
  <2>4. /\ ps'[p].snap = ps[p].snap
        /\ \/ ps'[p].pc = "reconciled" /\ ps'[p].cmd = ps[p].cmd /\ ps'[p].prev = Reconciled
           \/ ps'[p].pc = "leave" /\ ps'[p].cmd = Plain
    BY <1>1, <1>15, ReconcileEffect
  <2> QED  BY <1>1, <2>1, <2>2, <2>3, <2>4 DEF JobTyped, Reads
<1>16. CASE Fix(p)
  BY <1>1, <1>16, GotoJob DEF Fix, At
<1>17. CASE AcquireTimesOut(p) \/ Send(p) \/ FixChecked(p) \/ Crash(p)
  <2>1. ps' = [ps EXCEPT ![p] = Idle]
    BY <1>17 DEF AcquireTimesOut, Send, FixChecked, Crash
  <2> QED  BY <1>1, <2>1, IdleEffect, IdleJob
<1> QED  BY <1>2, <1>3, <1>4, <1>5, <1>6, <1>7, <1>8, <1>9, <1>10, <1>11, <1>12, <1>13, <1>14, <1>15, <1>16, <1>17
       DEF Step

LEMMA StepDisk ==
  ASSUME RegisteredRanked, Inv, Types, NEW p \in Procs, Step(p)
  PROVE  DiskOK(disk')
<1>1. Shaped /\ Kept /\ Goal(p) /\ Locked(p) /\ Depths(p) /\ IsDisk(disk) /\ DiskOK(disk) /\ JobTyped(p)
  BY Ground DEF Goal, Kept, Types
<1>2. ASSUME NEW f, NEW v, FileOK(f, v), disk' = [disk EXCEPT ![f] = v]
      PROVE  DiskOK(disk')
  BY <1>1, <1>2, PutOK DEF Put
<1>3. ASSUME NEW v \in Configs, disk' = [disk EXCEPT !["config"] = v]
      PROVE  DiskOK(disk')
  BY <1>2, <1>3, MissingOK
<1>4. CASE WriteNext(p)
  <2>1. ps[p].pc = "write" /\ ps[p].at < Len(ps[p].plan)
    BY <1>4 DEF WriteNext, At
  <2>2. Planned(p) /\ Applied(Stable, ps[p].plan, ps[p].at, ps[p].snap, disk) /\ DiskOK(ps[p].snap)
    BY <1>1, <2>1 DEF Depths, Goal, Holds, Held, JobTyped, Past
  <2>3. PICK k : k = ps[p].at + 1
    OBVIOUS
  <2>4. k \in 1 .. Len(ps[p].plan)
    BY <2>1, <2>2, <2>3, PlannedShape DEF Applied, IsPlan
  <2>5. FileOK(ps[p].plan[k].file, ps[p].plan[k].val)
    BY <1>1, <2>2, <2>4, WritesOK DEF Planned, JobTyped
  <2>6. disk' = [disk EXCEPT ![ps[p].plan[k].file] = ps[p].plan[k].val]
    BY <1>4, <2>3 DEF WriteNext, Put
  <2> QED  BY <1>2, <2>5, <2>6
<1>5. CASE Prompt(p)
  <2>1. ps[p].pc = "prompt"
    BY <1>5 DEF Prompt, At
  <2>2. Planned(p) /\ ps[p].cmd.op \in AddOps
    BY <1>1, <2>1 DEF Depths, Goal, Holds, Held, Done, Op, AddOps
  <2>3. ps[p].id \in Ids
    BY <2>2, AddPlanned DEF Planned, Based
  <2> QED  BY <1>1, <1>2, <1>5, <2>3, MissingOK DEF Prompt
<1>6. CASE UndoNext(p)
  <2>1. ps[p].pc = "undo" /\ ps[p].undo # <<>>
    BY <1>6 DEF UndoNext, At
  <2>2. ps[p].undo \in Seq(Files) /\ DiskOK(ps[p].snap)
    BY <1>1, <2>1 DEF Depths, Goal, Holds, Held, JobTyped, Past
  <2>3. PICK f : f = Head(ps[p].undo)
    OBVIOUS
  <2>4. f \in Files
    BY <2>1, <2>2, <2>3
  <2>5. disk' = [disk EXCEPT ![f] = ps[p].snap[f]]
    BY <1>6, <2>3 DEF UndoNext, Put
  <2> QED  BY <1>2, <2>2, <2>4, <2>5 DEF DiskOK
<1>7. CASE MergeWrite(p)
  <2>1. ASSUME Mergeable(disk)
        PROVE  Merged(disk) \in Configs
    <3>1. /\ disk["active"] \in Ids \cup {None} /\ disk["overlay"] \in Contents /\ disk["config"] \in Configs
          /\ \A i \in Ids : disk[i] \in Contents \cup {NoFile}
      BY <1>1, DiskFiles
    <3> QED  BY <3>1 DEF Merged, CarriedTun, Configs
  <2> QED  BY <1>1, <1>3, <1>7, <2>1 DEF MergeWrite
<1>8. CASE Validate(p)
  <2>1. ps[p].prev \in Configs
    BY <1>1, <1>8 DEF Validate, At, JobTyped, Reads
  <2> QED  BY <1>1, <1>3, <1>8, <2>1 DEF Validate
<1>9. CASE Reconcile(p)
  <2>1. Reconciled \in Configs
    BY <1>1, DiskFiles DEF Reconciled, Configs
  <2> QED  BY <1>1, <1>3, <1>9, <2>1, ReconcileEffect
<1>10. CASE Fix(p) \/ FixChecked(p)
  <2>1. ps[p].cmd.base \in Configs
    BY <1>1, <1>10 DEF JobTyped, CmdTyped, Op, Fix, FixChecked, At
  <2>2. PICK b : b = ps[p].cmd.base
    OBVIOUS
  <2>3. b \in Configs /\ [b EXCEPT !.controller = TRUE] \in Configs
    BY <2>1, <2>2 DEF Configs
  <2>4. \/ disk' = disk \/ disk' = [disk EXCEPT !["config"] = b]
        \/ disk' = [disk EXCEPT !["config"] = [b EXCEPT !.controller = TRUE]]
    BY <1>10, <2>2 DEF Fix, FixChecked
  <2> QED  BY <1>1, <1>3, <2>3, <2>4
<1>11. CASE UNCHANGED disk
  BY <1>1, <1>11
<1> QED  BY <1>4, <1>5, <1>6, <1>7, <1>8, <1>9, <1>10, <1>11
       DEF Step, Begin, Acquire, AcquireTimesOut, Plan, Written, WriteFails, MergeFails, ResolveFails, UndoFails,
           Undone, Leave, ReadBase, Send, Crash

LEMMA InitTypes ==
  ASSUME RegisteredRanked, Init
  PROVE  Types
<1>1. /\ disk = StartDisk /\ runtime = StartDisk["config"] /\ torn = {} /\ ps = [p \in Procs |-> Idle]
      /\ lock = None
  BY DEF Init
<1>2. DiskOK(StartDisk) /\ StartDisk["config"] \in Configs
  BY StartOK, DiskFiles
<1>3. \A p \in Procs : JobTyped(p)
  BY <1>1, IdleShaped DEF JobTyped, Past, Reads, CmdTyped, OverlayOps, Op
<1> QED  BY <1>1, <1>2, <1>3 DEF Types

LEMMA StepTypes ==
  ASSUME RegisteredRanked, Inv, Types, [Next]_vars
  PROVE  Types'
<1>1. CASE Next
  <2>1. PICK p \in Procs : Step(p)
    BY <1>1 DEF Next
  <2>2. \A q \in Procs \ {p} : ps'[q] = ps[q]
    BY <2>1, StepMoves DEF Moves, Inv
  <2>3. \A q \in Procs \ {p} : JobTyped(q)'
    BY <2>2 DEF Types, JobTyped, Op
  <2>4. runtime' \in Configs
    <3>1. CASE Send(p)
      <4>1. ps[p].prev \in Configs
        BY <3>1 DEF Types, JobTyped, Reads, Send, At
      <4> QED  BY <3>1, <4>1 DEF Send, Types
    <3>2. CASE UNCHANGED runtime
      BY <3>2 DEF Types
    <3> QED  BY <2>1, <3>1, <3>2 DEF Step, Begin, Acquire, AcquireTimesOut, Plan, WriteNext, Written, WriteFails,
             Prompt, MergeWrite, MergeFails, Validate, ResolveFails, UndoNext, UndoFails, Undone, Leave, ReadBase,
             Reconcile, Fix, FixChecked, Crash
  <2>5. torn' \subseteq {"change", "undo"}
    <3>1. torn' \subseteq torn \cup {"change", "undo"}
      BY <2>1 DEF Step, Begin, Acquire, AcquireTimesOut, Plan, WriteNext, Written, WriteFails,
             Prompt, MergeWrite, MergeFails, Validate, ResolveFails, UndoNext, UndoFails, Undone, Leave, ReadBase,
             Reconcile, Send, Fix, FixChecked, Crash
    <3> QED  BY <3>1 DEF Types
  <2>6. lock' \in Procs \cup {None}
    <3>1. lock' \in {lock, p, None}
      BY <2>1 DEF Step, Begin, Acquire, AcquireTimesOut, Plan, WriteNext, Written, WriteFails,
             Prompt, MergeWrite, MergeFails, Validate, ResolveFails, UndoNext, UndoFails, Undone, Leave, ReadBase,
             Reconcile, Send, Fix, FixChecked, Crash, Drop
    <3> QED  BY <3>1 DEF Types
  <2> QED  BY <2>1, <2>3, <2>4, <2>5, <2>6, StepJob, StepDisk DEF Types
<1>2. CASE UNCHANGED vars
  BY <1>2 DEF vars, Types, JobTyped, Op, DiskOK
<1> QED  BY <1>1, <1>2

\* Every file holds what belongs in it and no more tombstones than the limit, a thread that
\* is in no command has no depth left, and what was promoted is a configuration, if the
\* directory started with no more tombstones than that.
THEOREM ConfigTypeCorrect == ASSUME RegisteredRanked PROVE Spec => []TypeOK
<1>1. RegisteredRanked => (Init => Inv /\ Types)
  BY InitInv, InitTypes
<1>2. RegisteredRanked /\ (Inv /\ Types) /\ [Next]_vars => (Inv /\ Types)'
  BY StepInv, StepTypes
<1>3. Inv /\ Types => TypeOK
  <2>1. SUFFICES ASSUME Inv, Types
                 PROVE  TypeOK
    OBVIOUS
  <2>2. DOMAIN disk = Files
    BY <2>1 DEF Inv, Kept, IsDisk
  <2>3. /\ SubsOK(disk["subs"]) /\ Ranked(disk["subs"]) /\ disk["active"] \in Ids \cup {None}
        /\ disk["overlay"] \in Contents /\ disk["config"] \in Configs
        /\ \A i \in Ids : disk[i] \in Contents \cup {NoFile}
    BY <2>1, DiskFiles DEF Types
  <2>4. \A p \in Procs : /\ ps[p].pc \in Places /\ depth[p] \in 0 .. 2
                         /\ ps[p].pc \in {"idle", "apply", "send"} => depth[p] = 0
    BY <2>1 DEF Inv, Locking, Locked, Depths
  <2> QED  BY <2>1, <2>2, <2>3, <2>4 DEF TypeOK, Types, SubsOK, Ranked
<1> QED  BY <1>1, <1>2, <1>3, PTL DEF Spec

=============================================================================
