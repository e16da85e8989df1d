--------------------------- MODULE RecoveryProofs ---------------------------
(***************************************************************************)
(* The recovery marker excludes for any number of processes and attempts,  *)
(* until one of them dies; and what a reset does behind it, to the journal *)
(* of an older version, it does while no Core runs.                        *)
(***************************************************************************)
EXTENDS LegacyMigration, TLAPS

-----------------------------------------------------------------------------
(* The marker.                                                             *)


\* While all live, nobody reclaims, and whoever has created the marker and not
\* released it is the holder that the file names.
Held ==
  (\A p \in Procs : Alive(p)) =>
    \A p \in Procs :
      /\ pc[p] # "reclaim"
      /\ pc[p] \in {"write", "recovering", "release"} => Own(p)

MarkerInv == TypeOK /\ Held

LEMMA MarkerInit == Init => MarkerInv
<1> SUFFICES ASSUME Init PROVE MarkerInv
  OBVIOUS
<1>1. TypeOK
  BY MarkerAssumption DEF Init, TypeOK, PCs
<1>2. Held
  BY DEF Init, Held
<1> QED BY <1>1, <1>2 DEF MarkerInv

\* Types are preserved.
LEMMA TypeStep ==
  ASSUME TypeOK, [Next]_vars
  PROVE  TypeOK'
<1>1. CASE UNCHANGED vars
  BY <1>1 DEF TypeOK, vars
<1>2. ASSUME NEW p \in Procs, Step(p) PROVE TypeOK'
  <2>1. marker' \in Markers \cup {NoMarker}
    <3>1. \/ marker' \in {marker, NoMarker, [holder |-> p, written |-> FALSE]}
          \/ marker # NoMarker /\ marker' = [marker EXCEPT !.written = TRUE]
      BY <1>2 DEF Step, Read, Reclaim, Create, Write, Finish, Release, Own
    <3>2. [holder |-> p, written |-> FALSE] \in Markers
      BY DEF Markers
    <3>3. ASSUME marker \in Markers PROVE [marker EXCEPT !.written = TRUE] \in Markers
      BY <3>3 DEF Markers
    <3> QED BY <3>1, <3>2, <3>3 DEF TypeOK
  <2>2. pc' \in [Procs -> PCs]
    BY <1>2 DEF TypeOK, Step, Read, Reclaim, Create, Write, Finish, Release, Goto, PCs
  <2>3. faults' \in 0..MaxFaults
    BY <1>2, MarkerAssumption
    DEF TypeOK, Step, Read, Reclaim, Create, Write, Finish, Release, Fault
  <2> QED BY <2>1, <2>2, <2>3 DEF TypeOK
<1>3. ASSUME NEW p \in Procs, Die(p) PROVE TypeOK'
  BY <1>3, MarkerAssumption DEF TypeOK, Die, Fault, Goto, PCs
<1> QED BY <1>1, <1>2, <1>3 DEF Next

\* The dead stay dead, so a state without dead processes follows one without.
LEMMA DeadStayDead ==
  ASSUME TypeOK, [Next]_vars, \A p \in Procs : Alive(p)'
  PROVE  \A p \in Procs : Alive(p)
BY DEF TypeOK, vars, Next, Step, Read, Reclaim, Create, Write, Finish, Release, Die,
       Goto, Alive

LEMMA HeldStep ==
  ASSUME MarkerInv, [Next]_vars
  PROVE  Held'
<1> SUFFICES ASSUME \A p \in Procs : Alive(p)', NEW q \in Procs
             PROVE  /\ pc'[q] # "reclaim"
                    /\ pc'[q] \in {"write", "recovering", "release"} => Own(q)'
  BY DEF Held
<1>1. \A p \in Procs : Alive(p)
  BY DeadStayDead DEF MarkerInv
<1>2. \A p \in Procs : /\ pc[p] # "reclaim"
                       /\ pc[p] \in {"write", "recovering", "release"} => Own(p)
  BY <1>1 DEF MarkerInv, Held
<1>3. CASE UNCHANGED vars
  BY <1>2, <1>3 DEF vars, Own
<1>4. ASSUME NEW p \in Procs, Read(p)
      PROVE  /\ pc'[q] # "reclaim"
             /\ pc'[q] \in {"write", "recovering", "release"} => Own(q)'
  \* A marker with content names a live process, so nobody goes on to reclaim it.
  <2>1. Readable => marker.holder \in Procs
    BY DEF MarkerInv, TypeOK, Readable, Markers
  <2>2. pc' = [pc EXCEPT ![p] = "create"] /\ marker' = marker
    BY <1>1, <1>4, <2>1 DEF Read, Goto
  <2> QED BY <1>2, <2>2 DEF MarkerInv, TypeOK, Own
<1>5. ASSUME NEW p \in Procs, Reclaim(p) PROVE FALSE
  BY <1>2, <1>5 DEF Reclaim
<1>6. ASSUME NEW p \in Procs, Create(p)
      PROVE  /\ pc'[q] # "reclaim"
             /\ pc'[q] \in {"write", "recovering", "release"} => Own(q)'
  \* Without a marker nobody is past the creation.
  <2>1. CASE CreatesNew
    <3>1. pc[q] \notin {"write", "recovering", "release"}
      BY <1>2, <2>1 DEF CreatesNew, Own
    <3>2. marker' = [holder |-> p, written |-> FALSE] /\ pc' = [pc EXCEPT ![p] = "write"]
      BY <1>6, <2>1 DEF Create, Goto
    <3>3. [holder |-> p, written |-> FALSE] \in Markers
      BY DEF Markers
    <3>4. marker' # NoMarker
      BY <3>2, <3>3, NoMarkerAssumption
    <3> QED BY <1>2, <3>1, <3>2, <3>4 DEF MarkerInv, TypeOK, Own
  <2>2. CASE ~CreatesNew
    BY <1>2, <1>6, <2>2 DEF Create, Goto, MarkerInv, TypeOK, Own
  <2> QED BY <2>1, <2>2
<1>7. ASSUME NEW p \in Procs, Write(p)
      PROVE  /\ pc'[q] # "reclaim"
             /\ pc'[q] \in {"write", "recovering", "release"} => Own(q)'
  <2>1. marker \in Markers
    BY <1>2, <1>7 DEF Write, Own, MarkerInv, TypeOK
  <2>2. marker' \in Markers /\ marker'.holder = marker.holder
    <3>1. marker' = marker \/ marker' = [marker EXCEPT !.written = TRUE]
      BY <1>7 DEF Write
    <3> QED BY <2>1, <3>1 DEF Markers
  \* A failed write would have ended p.
  <2>3. pc' = [pc EXCEPT ![p] = "recovering"]
    <3>1. pc' # [pc EXCEPT ![p] = "dead"]
      BY DEF Alive, MarkerInv, TypeOK
    <3> QED BY <1>7, <3>1 DEF Write, Goto
  <2>4. Own(q) => Own(q)'
    BY <2>2, NoMarkerAssumption DEF Own
  <2>5. pc[p] = "write"
    BY <1>7 DEF Write
  <2> QED BY <1>2, <2>3, <2>4, <2>5 DEF MarkerInv, TypeOK
<1>8. ASSUME NEW p \in Procs, Finish(p)
      PROVE  /\ pc'[q] # "reclaim"
             /\ pc'[q] \in {"write", "recovering", "release"} => Own(q)'
  BY <1>2, <1>8 DEF Finish, Goto, MarkerInv, TypeOK, Own
<1>9. ASSUME NEW p \in Procs, Release(p)
      PROVE  /\ pc'[q] # "reclaim"
             /\ pc'[q] \in {"write", "recovering", "release"} => Own(q)'
  \* The marker is p's own, so no other process is past the creation.
  <2>1. q # p => pc[q] \notin {"write", "recovering", "release"}
    BY <1>2, <1>9 DEF Release, Own
  <2> QED BY <1>2, <1>9, <2>1 DEF Release, Goto, MarkerInv, TypeOK
<1>10. ASSUME NEW p \in Procs, Die(p) PROVE FALSE
  BY <1>10 DEF Die, Goto, Alive, MarkerInv, TypeOK
<1> QED BY <1>3, <1>4, <1>5, <1>6, <1>7, <1>8, <1>9, <1>10 DEF Next, Step

\* Every variable keeps its type, whatever fails.
THEOREM MarkerTyped == Spec => []TypeOK
<1>1. Init => TypeOK
  BY MarkerInit DEF MarkerInv
<1> QED BY <1>1, TypeStep, PTL DEF Spec

\* While no process has died, at most one recovers at a time.
THEOREM MarkerExcludes == Spec => []ExclusiveWhileAllLive
<1>1. MarkerInv /\ [Next]_vars => MarkerInv'
  BY TypeStep, HeldStep DEF MarkerInv
<1>2. MarkerInv => ExclusiveWhileAllLive
  BY DEF MarkerInv, Held, ExclusiveWhileAllLive, OneRecovery, Own
<1> QED BY MarkerInit, <1>1, <1>2, PTL DEF Spec

-----------------------------------------------------------------------------
(* The journal of an older version: types.                                 *)

Txs == [gen: Nat, phase: {"RecoveryRequired", "IntentCommitted", "RolledBack"},
        base: {None, Base}, target: Contents \cup {None}, recId: Ids \cup {None}]
Cores == [id: Ids, rev: Contents]
Commands == [op: Ops \cup {"none"}, at: Ats, gen: Nat, rev: Contents \cup {None},
             id: Ids \cup {None}]
Pasts == [edits: Nat, commands: Nat, gen: Nat, met: BOOLEAN]

\* What a command carries: the intent it read, and the target it is to apply.
Carries(c) ==
  /\ c.at = "publish" => c.rev \in {None, Base}
  /\ c.at \in {"fence", "apply"} => c.rev \in Contents

CmdOK == cmd \in [Procs -> Commands] /\ \A p \in Procs : Carries(cmd[p])
TxOK == tx \in {NoTx} \cup Txs
CoreOK == core \in {NoCore} \cup Cores
RestOK == /\ legacy \in OldFiles /\ target \in Contents \cup {None}
          /\ snapshot \in {None, Base, Candidate} /\ intent \in Contents
          /\ daemon \in {"new", "old", "down"} /\ past \in Pasts
Typed == TypeOK /\ CmdOK /\ TxOK /\ CoreOK /\ RestOK

\* What p does, and what is done around the commands.
Acts(p) == CommandStep(p) \/ Kill(p) \/ \E op \in Ops : Invoke(p, op)
Around  == Boot \/ CoreExits \/ Edit

LEMMA NextCases == LegacyNext <=> Around \/ \E p \in Procs : Acts(p)
BY DEF LegacyNext, Acts, Around

LEMMA IdleTyped == Idle \in Commands /\ Idle.at = "idle" /\ Carries(Idle)
<1>1. Idle.at = "idle"
  BY DEF Idle
<1>2. Idle \in Commands
  BY DEF Idle, Commands, Ats, None
<1> QED BY <1>1, <1>2 DEF Carries

\* A command replaced, or one at another step.
LEMMA PutCommand ==
  ASSUME CmdOK, NEW p \in Procs, NEW c \in Commands, Carries(c), cmd' = [cmd EXCEPT ![p] = c]
  PROVE  CmdOK' /\ cmd'[p] = c /\ \A q \in Procs \ {p} : cmd'[q] = cmd[q]
BY DEF CmdOK

LEMMA Going ==
  ASSUME CmdOK, NEW p \in Procs, NEW l \in Ats, Go(p, l)
  PROVE  /\ cmd'[p] = [cmd[p] EXCEPT !.at = l] /\ cmd'[p].at = l /\ cmd'[p].rev = cmd[p].rev
         /\ \A q \in Procs \ {p} : cmd'[q] = cmd[q]
         /\ l \notin {"publish", "fence", "apply"} \/ (l = "apply" /\ cmd[p].at = "fence") => CmdOK'
<1>1. cmd[p] \in Commands
  BY DEF CmdOK
<1>2. PICK c : c = [cmd[p] EXCEPT !.at = l]
  OBVIOUS
<1>3. c \in Commands /\ c.at = l /\ c.rev = cmd[p].rev
  BY <1>1, <1>2 DEF Commands
<1>4. cmd' = [cmd EXCEPT ![p] = c]
  BY <1>2 DEF Go
<1>5. cmd'[p] = c /\ \A q \in Procs \ {p} : cmd'[q] = cmd[q]
  BY <1>4 DEF CmdOK
<1>6. l \notin {"publish", "fence", "apply"} \/ (l = "apply" /\ cmd[p].at = "fence") => Carries(c)
  BY <1>3 DEF Carries, CmdOK
<1> QED BY <1>2, <1>3, <1>4, <1>5, <1>6, PutCommand

\* Steps at which a command carries nothing new.
Plainly == {"failed", "read", "converge", "archive", "dropJournal", "done", "dropCandidate"} \cup Window

LEMMA GoingOn ==
  ASSUME CmdOK, NEW p \in Procs, NEW l \in Plainly, Go(p, l)
  PROVE  CmdOK' /\ \A q \in Procs \ {p} : cmd'[q] = cmd[q]
<1>1. l \in Ats /\ l \notin {"publish", "fence", "apply"}
  BY DEF Plainly, Ats, Window
<1> QED BY <1>1, Going

\* There is an identifier for a new Core.
LEMMA NewId ==
  ASSUME CmdOK, TxOK, CoreOK
  PROVE  FreshId \in Ids
<1>1. core.id \in Ids \cup {None}
  BY DEF CoreOK, NoCore, Cores
<1>2. PICK j \in Ids \cup {None} : tx # NoTx => j = tx.recId
  BY DEF TxOK, Txs
<1>3. PICK f : f = [p \in Procs |-> cmd[p].id]
  OBVIOUS
<1>4. f \in [Procs -> Ids \cup {None}]
  BY <1>3 DEF CmdOK, Commands
<1>5. PICK k \in Ids : k \notin {f[p] : p \in Procs} \cup {core.id, j}
  BY <1>1, <1>4, IdsAssumption
<1>6. k \notin {core.id} \cup {cmd[p].id : p \in Procs} \cup (IF tx = NoTx THEN {} ELSE {tx.recId})
  BY <1>2, <1>3, <1>5
<1> QED BY <1>6 DEF FreshId

\* The steps of a reset in their order.
LEMMA WindowOrder ==
  /\ NextIn("wSnapshot") = "wJournal" /\ NextIn("wJournal") = "wCandidate"
  /\ NextIn("wCandidate") = "wActive" /\ NextIn("wActive") = "done"
<1>1. /\ ResetOrder[1] = "wSnapshot" /\ ResetOrder[2] = "wJournal"
      /\ ResetOrder[3] = "wCandidate" /\ ResetOrder[4] = "wActive"
  BY DEF ResetOrder
<1>2. /\ (CHOOSE k \in 1..4 : ResetOrder[k] = "wSnapshot") = 1
      /\ (CHOOSE k \in 1..4 : ResetOrder[k] = "wJournal") = 2
      /\ (CHOOSE k \in 1..4 : ResetOrder[k] = "wCandidate") = 3
      /\ (CHOOSE k \in 1..4 : ResetOrder[k] = "wActive") = 4
  BY <1>1
<1> QED BY <1>1, <1>2 DEF NextIn

\* A step that leaves the files, the Core and the transaction alone.
LEMMA FrameTyped ==
  ASSUME Typed, UNCHANGED <<legacy, tx, target, snapshot, intent, core, daemon>>, past' \in Pasts
  PROVE  TxOK' /\ CoreOK' /\ RestOK'
BY DEF Typed, TxOK, CoreOK, RestOK

\* The commands keep their type.
LEMMA CommandTyped ==
  ASSUME Typed, NEW p \in Procs, Acts(p)
  PROVE  CmdOK' /\ \A q \in Procs \ {p} : cmd'[q] = cmd[q]
<1> DEFINE Goal == CmdOK' /\ \A q \in Procs \ {p} : cmd'[q] = cmd[q]
<1> SUFFICES Goal
  OBVIOUS
<1> USE DEF Typed
<1>1. cmd[p] \in Commands /\ cmd \in [Procs -> Commands] /\ CmdOK
  BY DEF CmdOK
<1>2. ASSUME NEW op \in Ops, Invoke(p, op) PROVE Goal
  <2>1. PICK l \in {"begin", "continue"} : cmd' = [cmd EXCEPT ![p] = [Idle EXCEPT !.op = op, !.at = l]]
    BY <1>2 DEF Invoke
  <2>2. PICK c : c = [Idle EXCEPT !.op = op, !.at = l]
    OBVIOUS
  <2>3. c \in Commands
    BY <2>1, <2>2, IdleTyped DEF Commands, Ats
  <2>4. c.at = l
    BY <2>2 DEF Idle
  <2> HIDE DEF Typed
  <2> QED BY <1>1, <2>1, <2>2, <2>3, <2>4, PutCommand DEF Carries
<1>3. ASSUME \/ GivesUp(p) \/ Continue(p) \/ Kill(p) PROVE Goal
  BY <1>1, <1>3, IdleTyped, PutCommand DEF GivesUp, Continue, Kill
<1>4. ASSUME Acquire(p) PROVE Goal
  <2>1. PICK c : c = CASE pc'[p] = "recovering"     -> [cmd[p] EXCEPT !.at = "migrate"]
                       [] pc'[p] \in {"idle", "dead"} -> Idle
                       [] OTHER                     -> cmd[p]
    OBVIOUS
  <2>2. cmd' = [cmd EXCEPT ![p] = c]
    BY <1>1, <1>4, <2>1 DEF Acquire
  <2>3. c \in Commands /\ Carries(c)
    <3>1. CASE c = [cmd[p] EXCEPT !.at = "migrate"]
      BY <1>1, <3>1 DEF Commands, Ats, Carries
    <3>2. CASE c \in {Idle, cmd[p]}
      BY <1>1, <3>2, IdleTyped DEF CmdOK
    <3> QED BY <2>1, <3>1, <3>2
  <2> QED BY <1>1, <2>2, <2>3, PutCommand
<1>5. ASSUME Leave(p) PROVE Goal
  <2>1. PICK d : d = [Idle EXCEPT !.op = cmd[p].op, !.at = "continue"]
    OBVIOUS
  <2>2. PICK c \in {cmd[p], d, Idle} : cmd' = [cmd EXCEPT ![p] = c]
    BY <1>1, <1>5, <2>1 DEF Leave
  <2>3. d \in Commands /\ d.at = "continue"
    BY <1>1, <2>1, IdleTyped DEF Commands, Ats, Idle
  <2>4. Carries(d)
    BY <2>3 DEF Carries
  <2> QED BY <1>1, <2>2, <2>3, <2>4, IdleTyped, PutCommand DEF CmdOK
<1>6. ASSUME Migrate(p) PROVE Goal
  <2>1. PICK r \in {None, Base} : r = IF intent = Base THEN Base ELSE None
    OBVIOUS
  <2>2. PICK c, d : c = [cmd[p] EXCEPT !.at = "read"] /\ d = [cmd[p] EXCEPT !.at = "publish", !.rev = r]
    OBVIOUS
  <2>3. cmd' = [cmd EXCEPT ![p] = c] \/ cmd' = [cmd EXCEPT ![p] = d]
    BY <1>1, <1>6, <2>1, <2>2 DEF Migrate
  <2>4. c \in Commands /\ c.at = "read" /\ d \in Commands /\ d.rev = r /\ d.at = "publish"
    BY <1>1, <2>1, <2>2 DEF Commands, Ats, Contents
  <2>5. Carries(c) /\ Carries(d)
    BY <2>1, <2>4 DEF Carries
  <2> QED BY <1>1, <2>3, <2>4, <2>5, PutCommand
<1>7. ASSUME ReadJournal(p) PROVE Goal
  <2>1. CASE Go(p, "done")
    BY <1>1, <2>1, GoingOn DEF Plainly
  <2>2. ASSUME tx # NoTx,
               NEW l \in {"archive", "target", "finalize", "reset", "failed"},
               cmd' = [cmd EXCEPT ![p] = [@ EXCEPT !.at = l, !.gen = tx.gen, !.rev = None]]
        PROVE  Goal
    <3>1. PICK c : c = [cmd[p] EXCEPT !.at = l, !.gen = tx.gen, !.rev = None]
      OBVIOUS
    <3>2. tx.gen \in Nat
      BY <2>2 DEF TxOK, Txs
    <3>3. c \in Commands /\ c.at = l
      BY <1>1, <3>1, <3>2, <2>2 DEF Commands, Ats
    <3>4. Carries(c)
      BY <3>3, <2>2 DEF Carries
    <3>5. cmd' = [cmd EXCEPT ![p] = c]
      BY <1>1, <2>2, <3>1
    <3> QED BY <1>1, <3>3, <3>4, <3>5, PutCommand
  <2> QED BY <1>7, <2>1, <2>2 DEF ReadJournal, Plan
<1>8. ASSUME WriteTarget(p) PROVE Goal
  <2>1. CASE Go(p, "failed")
    BY <1>1, <2>1, GoingOn DEF Plainly
  <2>2. CASE cmd' = [cmd EXCEPT ![p] = [@ EXCEPT !.at = "fence", !.rev = intent]]
    <3>1. PICK c : c = [cmd[p] EXCEPT !.at = "fence", !.rev = intent]
      OBVIOUS
    <3>2. c \in Commands /\ c.rev = intent /\ c.at = "fence"
      BY <1>1, <3>1 DEF Commands, Ats, RestOK
    <3>3. Carries(c)
      BY <3>2 DEF Carries, RestOK
    <3>4. cmd' = [cmd EXCEPT ![p] = c]
      BY <1>1, <2>2, <3>1
    <3> QED BY <1>1, <3>2, <3>3, <3>4, PutCommand
  <2> QED BY <1>8, <2>1, <2>2 DEF WriteTarget, Fails
<1>9. ASSUME FenceTarget(p) PROVE Goal
  <2>1. Go(p, "failed") \/ (Go(p, "apply") /\ cmd[p].at = "fence")
    BY <1>9 DEF FenceTarget, Fails, At
  <2>2. "apply" \in Ats /\ "failed" \in Plainly
    BY DEF Ats, Plainly
  <2> QED BY <1>1, <2>1, <2>2, Going, GoingOn
<1>10. ASSUME ApplyTarget(p) PROVE Goal
  <2>1. CASE Go(p, "failed")
    BY <1>1, <2>1, GoingOn DEF Plainly
  <2>2. ASSUME NEW i \in Ids, cmd' = [cmd EXCEPT ![p] = [@ EXCEPT !.at = "record", !.id = i]]
        PROVE  Goal
    <3>1. PICK c : c = [cmd[p] EXCEPT !.at = "record", !.id = i]
      OBVIOUS
    <3>2. c \in Commands /\ c.at = "record"
      BY <1>1, <3>1 DEF Commands, Ats
    <3>3. Carries(c)
      BY <3>2 DEF Carries
    <3>4. cmd' = [cmd EXCEPT ![p] = c]
      BY <1>1, <2>2, <3>1
    <3> QED BY <1>1, <3>2, <3>3, <3>4, PutCommand
  <2>3. FreshId \in Ids /\ (core # NoCore => core.id \in Ids)
    BY NewId DEF CoreOK, Cores
  <2> QED BY <1>10, <2>1, <2>2, <2>3 DEF ApplyTarget, RunsTarget
<1>11. ASSUME Quiesce(p) PROVE Goal
  <2>1. Go(p, "wSnapshot") \/ Go(p, "failed") \/ UNCHANGED cmd
    BY <1>11 DEF Quiesce, QuiesceByDaemon, QuiesceByCli, QuiesceAlone, Stops, Begun, ResetOrder
  <2>2. ASSUME NEW l \in {"wSnapshot", "failed"}, Go(p, l) PROVE Goal
    <3>1. l \in Plainly
      BY DEF Plainly, Window
    <3> QED BY <1>1, <2>2, <3>1, GoingOn
  <2> QED BY <1>1, <2>1, <2>2 DEF CmdOK
<1>12. ASSUME ResetStep(p) PROVE Goal
  <2>1. PICK l \in {"wJournal", "wCandidate", "wActive", "done", "failed"} : Go(p, l)
    BY <1>12, WindowOrder DEF ResetStep, Fails, Window
  <2>2. l \in Plainly
    BY DEF Plainly, Window
  <2> QED BY <1>1, <2>1, <2>2, GoingOn
<1>13. ASSUME Reset(p) PROVE Goal
  <2>1. CASE tx = NoTx
    <3>1. PICK c : c = [cmd[p] EXCEPT !.at = "done"]
      OBVIOUS
    <3>2. c \in Commands /\ c.at = "done" /\ cmd' = [cmd EXCEPT ![p] = c]
      BY <1>1, <1>13, <2>1, <3>1 DEF Reset, Commands, Ats
    <3> QED BY <1>1, <3>2, PutCommand DEF Carries
  <2>2. CASE tx # NoTx
    <3>1. PICK c : c = [cmd[p] EXCEPT !.at = "quiesce", !.gen = tx.gen]
      OBVIOUS
    <3>2. tx.gen \in Nat
      BY <2>2 DEF TxOK, Txs
    <3>3. c \in Commands /\ c.at = "quiesce" /\ cmd' = [cmd EXCEPT ![p] = c]
      BY <1>1, <1>13, <2>2, <3>1, <3>2 DEF Reset, Commands, Ats
    <3> QED BY <1>1, <3>3, PutCommand DEF Carries
  <2> QED BY <2>1, <2>2
<1>14. ASSUME \/ Publish(p) \/ Record(p) \/ Terminate(p) \/ Archive(p) \/ Drop(p) PROVE Goal
  <2>1. PICK l \in {"read", "converge", "failed", "archive", "dropJournal", "done", "dropCandidate"} :
          Go(p, l)
    BY <1>14 DEF Publish, Record, Terminate, Archive, Drop, Fails
  <2>2. l \in Plainly
    BY DEF Plainly
  <2> QED BY <1>1, <2>1, <2>2, GoingOn
<1> QED BY <1>2, <1>3, <1>4, <1>5, <1>6, <1>7, <1>8, <1>9, <1>10, <1>11, <1>12, <1>13, <1>14
        DEF Acts, CommandStep

\* What else happens is a step of the marker, or leaves it alone.
LEMMA MarkerMoves ==
  ASSUME LegacyNext
  PROVE  Next \/ (UNCHANGED <<marker, pc>> /\ (UNCHANGED faults \/ Fault))
<1>1. ASSUME NEW p \in Procs, CommandStep(p)
      PROVE  Step(p) \/ (UNCHANGED <<marker, pc>> /\ (UNCHANGED faults \/ Fault))
  <2>1. ASSUME \/ Acquire(p) \/ Leave(p) PROVE Step(p)
    BY <2>1 DEF Acquire, Leave, Step
  <2>2. ASSUME \/ GivesUp(p) \/ Continue(p) \/ Migrate(p) \/ Publish(p) \/ ReadJournal(p)
               \/ WriteTarget(p) \/ FenceTarget(p) \/ Record(p) \/ Terminate(p) \/ Archive(p)
               \/ Reset(p) \/ ResetStep(p)
        PROVE  UNCHANGED <<marker, pc, faults>>
    BY <2>2 DEF GivesUp, Continue, Migrate, Publish, ReadJournal, WriteTarget, FenceTarget, Record,
                Terminate, Archive, Reset, ResetStep, vars
  <2>3. ASSUME \/ ApplyTarget(p) \/ Drop(p)
        PROVE  UNCHANGED <<marker, pc>> /\ (UNCHANGED faults \/ Fault)
    BY <2>3 DEF ApplyTarget, Drop
  <2>4. ASSUME Quiesce(p)
        PROVE  UNCHANGED <<marker, pc>> /\ (UNCHANGED faults \/ Fault)
    BY <2>4 DEF Quiesce, QuiesceByDaemon, QuiesceByCli, QuiesceAlone, Stops
  <2> QED BY <1>1, <2>1, <2>2, <2>3, <2>4 DEF CommandStep
<1>2. ASSUME NEW p \in Procs, Kill(p) PROVE Die(p)
  BY <1>2 DEF Kill
<1>3. ASSUME NEW p \in Procs, NEW op \in Ops, Invoke(p, op) PROVE UNCHANGED <<marker, pc, faults>>
  BY <1>3 DEF Invoke, vars
<1>4. ASSUME Around PROVE UNCHANGED <<marker, pc>> /\ (UNCHANGED faults \/ Fault)
  BY <1>4 DEF Around, Boot, CoreExits, Edit, vars
<1> QED BY <1>1, <1>2, <1>3, <1>4 DEF LegacyNext, Next, Around

LEMMA MarkerKept ==
  ASSUME MarkerInv, LegacyNext
  PROVE  MarkerInv'
<1>1. CASE Next
  BY <1>1, TypeStep, HeldStep DEF MarkerInv
<1>2. CASE UNCHANGED <<marker, pc>> /\ (UNCHANGED faults \/ Fault)
  BY <1>2, MarkerAssumption DEF MarkerInv, TypeOK, Held, Own, Alive, Fault
<1> QED BY <1>1, <1>2, MarkerMoves

\* The rest of the state keeps its type.
LEMMA RestTyped ==
  ASSUME Typed, NEW p \in Procs, Acts(p)
  PROVE  TxOK' /\ CoreOK' /\ RestOK'
<1> DEFINE Goal == TxOK' /\ CoreOK' /\ RestOK'
<1> SUFFICES Goal
  OBVIOUS
<1>1. cmd[p] \in Commands /\ Carries(cmd[p])
  BY DEF Typed, CmdOK
<1>2. /\ TxOK /\ CoreOK /\ RestOK
      /\ past \in Pasts
  BY DEF Typed, RestOK
<1>3. ASSUME UNCHANGED <<legacy, tx, target, snapshot, intent, core, daemon>>, past' \in Pasts
      PROVE  Goal
  BY <1>3, FrameTyped
<1>4. ASSUME UNCHANGED migration PROVE Goal
  BY <1>2, <1>3, <1>4 DEF migration
<1>5. ASSUME NEW op \in Ops, Invoke(p, op) PROVE Goal
  <2>1. past' \in Pasts
    <3>1. PICK n \in Nat : past' = [past EXCEPT !.commands = n]
      BY <1>2, <1>5 DEF Invoke, Pasts
    <3> QED BY <1>2, <3>1 DEF Pasts
  <2> QED BY <1>3, <1>5, <2>1 DEF Invoke
<1>6. ASSUME \/ GivesUp(p) \/ Leave(p) \/ Kill(p) \/ Migrate(p) \/ ReadJournal(p) \/ Reset(p)
      PROVE  Goal
  BY <1>4, <1>6 DEF GivesUp, Leave, Kill, Migrate, ReadJournal, Reset
<1>7. ASSUME Publish(p) PROVE Goal
  <2>1. cmd[p].rev \in {None, Base} /\ past.gen + 1 \in Nat
    BY <1>1, <1>2, <1>7 DEF Publish, At, Carries, Pasts
  <2>2. PICK t : t = [gen |-> past.gen + 1, phase |-> "RecoveryRequired", base |-> cmd[p].rev,
                      target |-> None, recId |-> None]
    OBVIOUS
  <2>3. t \in Txs
    BY <2>1, <2>2 DEF Txs
  <2>4. tx' = t
    BY <1>7, <2>2 DEF Publish
  <2>5. past' \in Pasts
    <3>1. PICK n \in Nat : past' = [past EXCEPT !.gen = n]
      BY <1>2, <1>7, <2>1 DEF Publish
    <3> QED BY <1>2, <3>1 DEF Pasts
  <2> QED BY <1>2, <1>7, <2>3, <2>4, <2>5 DEF Publish, TxOK, CoreOK, RestOK
<1>8. ASSUME WriteTarget(p) PROVE Goal
  <2>1. CASE UNCHANGED migration
    BY <1>4, <2>1
  <2>2. CASE target' = intent /\ UNCHANGED <<legacy, tx, snapshot, intent, core, daemon, past>>
    BY <1>2, <2>2 DEF TxOK, CoreOK, RestOK
  <2> QED BY <1>8, <2>1, <2>2 DEF WriteTarget, Fails
<1>9. ASSUME Fenced(p), NEW f \in {"phase", "target", "recId"}, NEW v,
             tx' = [tx EXCEPT ![f] = v],
             f = "phase" => v \in {"RecoveryRequired", "IntentCommitted", "RolledBack"},
             f = "target" => v \in Contents \cup {None}, f = "recId" => v \in Ids \cup {None},
             UNCHANGED <<legacy, target, snapshot, intent, core, daemon, past>>
      PROVE  Goal
  <2>1. tx \in Txs
    BY <1>2, <1>9 DEF Fenced, TxOK
  <2>2. tx' \in Txs
    BY <1>9, <2>1 DEF Txs
  <2> QED BY <1>2, <1>9, <2>2 DEF TxOK, CoreOK, RestOK
<1>10. ASSUME FenceTarget(p) PROVE Goal
  BY <1>1, <1>4, <1>9, <1>10 DEF FenceTarget, Fails, Commands
<1>11. ASSUME Record(p) PROVE Goal
  BY <1>1, <1>4, <1>9, <1>11 DEF Record, Fails, Commands
<1>12. ASSUME Terminate(p) PROVE Goal
  <2>1. PICK v \in {"IntentCommitted", "RolledBack"} :
          v = IF cmd[p].at = "finalize" THEN "IntentCommitted" ELSE "RolledBack"
    OBVIOUS
  <2> QED BY <1>4, <1>9, <1>12, <2>1 DEF Terminate, Fails
<1>13. ASSUME ApplyTarget(p) PROVE Goal
  <2>1. CASE UNCHANGED core
    BY <1>2, <1>3, <1>13, <2>1 DEF ApplyTarget
  <2>2. CASE core' = [id |-> FreshId, rev |-> target] /\ ApplyAdmitted(p)
    <3>1. target \in Contents
      BY <1>1, <1>13, <2>2 DEF ApplyTarget, ApplyAdmitted, At, Carries
    <3>2. FreshId \in Ids
      BY NewId DEF Typed
    <3>3. core' \in Cores
      BY <2>2, <3>1, <3>2 DEF Cores
    <3> QED BY <1>2, <1>13, <3>3 DEF ApplyTarget, TxOK, CoreOK, RestOK
  <2> QED BY <1>13, <2>1, <2>2 DEF ApplyTarget
<1>14. ASSUME Archive(p) PROVE Goal
  BY <1>2, <1>14 DEF Archive, TxOK, CoreOK, RestOK
<1>15. ASSUME Drop(p) PROVE Goal
  <2>1. legacy' \in OldFiles
    <3>1. PICK d : d = [legacy EXCEPT !.journal = FALSE]
      OBVIOUS
    <3>2. PICK e : e = [legacy EXCEPT !.candidate = FALSE]
      OBVIOUS
    <3>3. d \in OldFiles /\ e \in OldFiles
      BY <1>2, <3>1, <3>2 DEF RestOK, OldFiles
    <3> QED BY <1>2, <1>15, <3>1, <3>2, <3>3 DEF Drop, RestOK
  <2> QED BY <1>2, <1>15, <2>1 DEF Drop, TxOK, CoreOK, RestOK
<1>16. ASSUME Quiesce(p) PROVE Goal
  BY <1>2, <1>16 DEF Quiesce, QuiesceByDaemon, QuiesceByCli, QuiesceAlone, Stops, TxOK, CoreOK, RestOK
<1>17. ASSUME ResetStep(p) PROVE Goal
  <2>1. CASE UNCHANGED migration
    BY <1>4, <2>1
  <2>2. CASE ~UNCHANGED migration
    <3>1. legacy' \in OldFiles
      <4>1. PICK a, b : a = (legacy.journal /\ cmd[p].at # "wJournal")
                        /\ b = (legacy.candidate /\ cmd[p].at # "wCandidate")
        OBVIOUS
      <4>2. a \in BOOLEAN /\ b \in BOOLEAN
        BY <4>1
      <4>3. legacy' = [journal |-> a, candidate |-> b]
        BY <1>17, <2>2, <4>1 DEF ResetStep, Fails
      <4> QED BY <4>2, <4>3 DEF OldFiles
    <3> QED BY <1>2, <1>17, <2>2, <3>1 DEF ResetStep, Fails, TxOK, CoreOK, RestOK
  <2> QED BY <2>1, <2>2
<1>18. ASSUME Continue(p) PROVE Goal
  <2>1. PICK c : c = [id |-> FreshId, rev |-> intent]
    OBVIOUS
  <2>2. c \in Cores
    BY <1>2, <2>1, NewId DEF Typed, Cores, RestOK
  <2>3. core' \in {core, c, NoCore} /\ daemon' \in {daemon, "new"}
    BY <1>18, <2>1 DEF Continue
  <2> QED BY <1>2, <1>18, <2>2, <2>3 DEF Continue, TxOK, CoreOK, RestOK
<1>19. ASSUME Acquire(p) PROVE Goal
  <2>1. PICK b \in BOOLEAN : past' = [past EXCEPT !.met = b]
    BY <1>2, <1>19 DEF Acquire, Pasts
  <2>2. past' \in Pasts
    BY <1>2, <2>1 DEF Pasts
  <2> QED BY <1>3, <1>19, <2>2 DEF Acquire
<1> QED BY <1>5, <1>6, <1>7, <1>8, <1>10, <1>11, <1>12, <1>13, <1>14, <1>15, <1>16, <1>17, <1>18,
           <1>19
        DEF Acts, CommandStep

LEMMA AroundTyped ==
  ASSUME Typed, Around
  PROVE  CmdOK' /\ TxOK' /\ CoreOK' /\ RestOK'
<1>1. CmdOK' /\ TxOK'
  BY DEF Typed, CmdOK, TxOK, Around, Boot, CoreExits, Edit
<1>2. CASE Boot
  <2>1. PICK c : c = [id |-> FreshId, rev |-> intent]
    OBVIOUS
  <2>2. c \in Cores
    BY <2>1, NewId DEF Typed, Cores, RestOK
  <2>3. core' \in {NoCore, c}
    BY <1>2, <2>1 DEF Boot
  <2> QED BY <1>1, <1>2, <2>2, <2>3 DEF Boot, Typed, CoreOK, RestOK
<1>3. CASE CoreExits
  BY <1>1, <1>3 DEF CoreExits, Typed, CoreOK, RestOK
<1>4. CASE Edit
  <2>1. past' \in Pasts
    <3>1. past \in Pasts
      BY DEF Typed, RestOK
    <3>2. past.edits + 1 \in Nat
      BY <3>1 DEF Pasts
    <3>3. past' = [past EXCEPT !.edits = past.edits + 1]
      BY <1>4 DEF Edit
    <3> QED BY <3>1, <3>2, <3>3 DEF Pasts
  <2> QED BY <1>1, <1>4, <2>1 DEF Edit, Typed, CoreOK, RestOK
<1> QED BY <1>2, <1>3, <1>4 DEF Around

LEMMA TypedStep ==
  ASSUME Typed, Held, LegacyNext
  PROVE  Typed'
<1>1. TypeOK'
  BY MarkerKept DEF MarkerInv, Typed
<1>2. CmdOK' /\ TxOK' /\ CoreOK' /\ RestOK'
  BY NextCases, CommandTyped, RestTyped, AroundTyped
<1> QED BY <1>1, <1>2 DEF Typed

LEMMA LegacyInits == LegacyInit => Typed
<1> SUFFICES ASSUME LegacyInit PROVE Typed
  OBVIOUS
<1>1. TypeOK
  BY MarkerInit DEF LegacyInit, MarkerInv
<1>2. CmdOK
  BY IdleTyped DEF LegacyInit, CmdOK
<1>3. TxOK /\ CoreOK
  BY IdsAssumption DEF LegacyInit, TxOK, CoreOK, Cores, Contents
<1>4. RestOK
  <2>1. past \in Pasts
    BY DEF LegacyInit, Pasts
  <2> QED BY <2>1 DEF LegacyInit, RestOK, OldFiles
<1> QED BY <1>1, <1>2, <1>3, <1>4 DEF Typed

LEMMA LegacyStutter == Typed /\ UNCHANGED legacyVars => Typed'
BY DEF legacyVars, migration, vars, Typed, TypeOK, CmdOK, TxOK, CoreOK, RestOK

-----------------------------------------------------------------------------
(* The marker and the commands behind it.                                  *)

\* The steps of a recovery.
Recovery == Ats \ {"idle", "begin", "done", "failed", "continue"}

\* Where a command is with the marker.
Synced(p) ==
  /\ cmd[p].at \in Recovery => pc[p] = "recovering"
  /\ cmd[p].at = "begin" => pc[p] \in {"idle", "reclaim", "create", "write"}
  /\ cmd[p].at \in {"done", "failed"} => pc[p] \in {"recovering", "release"}
Sync == \A p \in Procs : Synced(p)

\* A step of p leaves the marker's view of the others alone.
LEMMA OthersStay ==
  ASSUME Typed, NEW p \in Procs, Acts(p)
  PROVE  \A q \in Procs \ {p} : pc'[q] = pc[q]
<1>1. Step(p) \/ Die(p) => \A q \in Procs \ {p} : pc'[q] = pc[q]
  BY DEF Step, Die, Read, Reclaim, Create, Write, Finish, Release, Goto, Typed, TypeOK
<1>2. Step(p) \/ Die(p) \/ UNCHANGED pc
  BY DEF Acts, CommandStep, Kill, Invoke, Acquire, Leave, GivesUp, Continue, Migrate, Publish,
         ReadJournal, WriteTarget, FenceTarget, ApplyTarget, Record, Terminate, Archive, Drop,
         Reset, Quiesce, ResetStep, Step, vars
<1> QED BY <1>1, <1>2

\* A step of a recovery is followed by another one, or by its end.
LEMMA Stays ==
  ASSUME CmdOK, NEW p \in Procs, cmd[p].at \in Recovery,
         \/ Migrate(p) \/ Publish(p) \/ ReadJournal(p) \/ WriteTarget(p) \/ FenceTarget(p)
         \/ ApplyTarget(p) \/ Record(p) \/ Terminate(p) \/ Archive(p) \/ Drop(p)
         \/ Reset(p) \/ Quiesce(p) \/ ResetStep(p)
  PROVE  cmd'[p].at \notin {"idle", "begin", "continue"}
<1>1. cmd[p] \in Commands /\ cmd \in [Procs -> Commands]
  BY DEF CmdOK
<1>2. ASSUME NEW l \in Ats \ {"idle", "begin", "continue"}, Go(p, l)
      PROVE  cmd'[p].at \notin {"idle", "begin", "continue"}
  BY <1>2, Going
<1>3. {"publish", "read", "target", "fence", "apply", "record", "converge", "finalize", "archive",
       "dropJournal", "dropCandidate", "reset", "quiesce", "done", "failed", "wSnapshot",
       "wJournal", "wCandidate", "wActive"} \subseteq Ats \ {"idle", "begin", "continue"}
  BY DEF Ats, Window
<1>4. CASE \/ Publish(p) \/ Record(p) \/ Terminate(p) \/ Archive(p) \/ Drop(p) \/ FenceTarget(p)
  <2>1. PICK l \in {"read", "converge", "archive", "dropJournal", "dropCandidate", "done", "failed",
                    "apply"} : Go(p, l)
    BY <1>4 DEF Publish, Record, Terminate, Archive, Drop, FenceTarget, Fails
  <2> QED BY <1>2, <1>3, <2>1
<1>5. CASE ResetStep(p)
  <2>1. PICK l \in {"wJournal", "wCandidate", "wActive", "done", "failed"} : Go(p, l)
    BY <1>5, WindowOrder DEF ResetStep, Fails, Window
  <2> QED BY <1>2, <1>3, <2>1
<1>6. CASE Quiesce(p)
  <2>1. Go(p, "wSnapshot") \/ Go(p, "failed") \/ UNCHANGED cmd
    BY <1>6 DEF Quiesce, QuiesceByDaemon, QuiesceByCli, QuiesceAlone, Stops, Begun, ResetOrder
  <2>2. CASE UNCHANGED cmd
    BY <2>2 DEF Recovery
  <2> QED BY <1>2, <1>3, <2>1, <2>2
<1>7. CASE Migrate(p)
  <2>1. cmd'[p].at \in {"read", "publish"}
    BY <1>1, <1>7 DEF Migrate, Commands
  <2> QED BY <2>1
<1>8. CASE Reset(p)
  <2>1. cmd'[p].at \in {"done", "quiesce"}
    BY <1>1, <1>8 DEF Reset, Commands
  <2> QED BY <2>1
<1>9. CASE WriteTarget(p)
  <2>1. CASE Go(p, "failed")
    BY <1>2, <1>3, <2>1
  <2>2. CASE cmd' = [cmd EXCEPT ![p] = [@ EXCEPT !.at = "fence", !.rev = intent]]
    BY <1>1, <2>2 DEF Commands
  <2> QED BY <1>9, <2>1, <2>2 DEF WriteTarget, Fails
<1>10. CASE ApplyTarget(p)
  <2>1. CASE Go(p, "failed")
    BY <1>2, <1>3, <2>1
  <2>2. ASSUME NEW i, cmd' = [cmd EXCEPT ![p] = [@ EXCEPT !.at = "record", !.id = i]]
        PROVE  cmd'[p].at = "record"
    BY <1>1, <2>2 DEF Commands
  <2> QED BY <1>10, <2>1, <2>2 DEF ApplyTarget
<1>11. CASE ReadJournal(p)
  <2>1. CASE Go(p, "done")
    BY <1>2, <1>3, <2>1
  <2>2. ASSUME NEW l \in {"archive", "target", "finalize", "reset", "failed"},
               cmd' = [cmd EXCEPT ![p] = [@ EXCEPT !.at = l, !.gen = tx.gen, !.rev = None]]
        PROVE  cmd'[p].at = l
    BY <1>1, <2>2 DEF Commands
  <2> QED BY <1>11, <2>1, <2>2 DEF ReadJournal, Plan
<1> QED BY <1>4, <1>5, <1>6, <1>7, <1>8, <1>9, <1>10, <1>11

LEMMA SyncStep ==
  ASSUME Typed, Sync, LegacyNext
  PROVE  Sync'
<1> USE DEF Typed
<1>1. CASE Around
  BY <1>1 DEF Around, Boot, CoreExits, Edit, Sync, Synced, vars
<1>2. ASSUME NEW p \in Procs, Acts(p) PROVE Sync'
  <2>1. \A q \in Procs \ {p} : Synced(q)'
    BY <1>2, OthersStay, CommandTyped DEF Sync, Synced
  <2>2. Synced(p) /\ cmd[p] \in Commands /\ cmd \in [Procs -> Commands] /\ pc \in [Procs -> PCs] /\ CmdOK
    BY DEF Sync, CmdOK, TypeOK
  <2>3. ASSUME NEW op \in Ops, Invoke(p, op) PROVE Synced(p)'
    <3>1. PICK l \in {"begin", "continue"} : cmd' = [cmd EXCEPT ![p] = [Idle EXCEPT !.op = op, !.at = l]]
      BY <2>3 DEF Invoke
    <3>2. cmd'[p].at = l
      BY <2>2, <3>1 DEF Idle
    <3>3. pc'[p] = "idle" /\ l \notin Recovery
      BY <2>2, <2>3 DEF Invoke, Recovery, vars
    <3> QED BY <3>2, <3>3 DEF Synced
  <2>4. ASSUME cmd'[p] = Idle PROVE Synced(p)'
    BY <2>4, IdleTyped DEF Synced, Recovery
  <2>5. ASSUME \/ GivesUp(p) \/ Continue(p) \/ Kill(p) PROVE Synced(p)'
    BY <2>2, <2>4, <2>5 DEF GivesUp, Continue, Kill
  <2>6. ASSUME Acquire(p) PROVE Synced(p)'
    <3>1. pc'[p] \in PCs /\ pc'[p] \notin {"release"}
      BY <2>2, <2>6 DEF Acquire, Read, Reclaim, Create, Write, Goto, PCs
    <3>2. CASE pc'[p] = "recovering"
      <4>1. cmd'[p] = [cmd[p] EXCEPT !.at = "migrate"]
        BY <2>2, <2>6, <3>2 DEF Acquire
      <4> QED BY <2>2, <3>2, <4>1 DEF Synced, Commands
    <3>3. CASE pc'[p] \in {"idle", "dead"}
      BY <2>2, <2>4, <2>6, <3>3 DEF Acquire
    <3>4. CASE pc'[p] \in {"reclaim", "create", "write"}
      <4>1. cmd'[p] = cmd[p] /\ cmd[p].at = "begin"
        BY <2>2, <2>6, <3>4 DEF Acquire, At
      <4> QED BY <3>4, <4>1 DEF Synced, Recovery
    <3> QED BY <3>1, <3>2, <3>3, <3>4 DEF PCs
  <2>7. ASSUME Leave(p) PROVE Synced(p)'
    <3>1. CASE pc'[p] = "release"
      BY <2>2, <2>7, <3>1 DEF Leave, Synced, Recovery
    <3>2. CASE pc'[p] # "release"
      <4>1. CASE cmd[p].at = "done"
        <5>1. cmd'[p] = [Idle EXCEPT !.op = cmd[p].op, !.at = "continue"]
          BY <2>2, <2>7, <3>2, <4>1 DEF Leave
        <5>2. cmd'[p].at = "continue"
          BY <5>1 DEF Idle
        <5> QED BY <5>2 DEF Synced, Recovery
      <4>2. CASE cmd[p].at # "done"
        BY <2>2, <2>4, <2>7, <3>2, <4>2 DEF Leave
      <4> QED BY <4>1, <4>2
    <3> QED BY <3>1, <3>2
  <2>8. ASSUME cmd[p].at \in Recovery, pc'[p] = pc[p], cmd'[p].at \in Recovery \cup {"done", "failed"}
        PROVE  Synced(p)'
    BY <2>2, <2>8 DEF Synced, Recovery
  <2>9. ASSUME \/ Migrate(p) \/ Publish(p) \/ ReadJournal(p) \/ WriteTarget(p) \/ FenceTarget(p)
               \/ ApplyTarget(p) \/ Record(p) \/ Terminate(p) \/ Archive(p) \/ Drop(p)
               \/ Reset(p) \/ Quiesce(p) \/ ResetStep(p)
        PROVE  Synced(p)'
    <3>1. cmd[p].at \in Recovery
      BY <2>2, <2>9 DEF Migrate, Publish, ReadJournal, WriteTarget, FenceTarget, ApplyTarget, Record,
                Terminate, Archive, Drop, Reset, Quiesce, ResetStep, At, Commands, Recovery, Window, Ats
    <3>2. pc' = pc
      BY <2>9 DEF Migrate, Publish, ReadJournal, WriteTarget, FenceTarget, ApplyTarget, Record,
                  Terminate, Archive, Drop, Reset, Quiesce, ResetStep, vars
    <3>3. cmd'[p].at \in Recovery \cup {"done", "failed"}
      <4>1. cmd'[p].at \in Ats
        BY <1>2, CommandTyped DEF CmdOK, Commands
      <4>2. cmd'[p].at \notin {"idle", "begin", "continue"}
        BY <2>2, <2>9, <3>1, Stays
      <4> QED BY <4>1, <4>2 DEF Recovery
    <3> QED BY <2>8, <3>1, <3>2, <3>3
  <2> QED BY <1>2, <2>1, <2>3, <2>5, <2>6, <2>7, <2>9 DEF Acts, CommandStep, Sync
<1> QED BY <1>1, <1>2, NextCases

-----------------------------------------------------------------------------
(* A reset and the Core.                                                   *)

\* A process inside the window has the transaction open and no Core running.
Windowed(p) == cmd[p].at \in Window => core = NoCore /\ Open(tx)
Guarded == ~past.met => \A p \in Procs : Windowed(p)

\* Until two recoveries have met, there is one at a time.
Apart == ~past.met => \A p, q \in Procs : pc[p] = "recovering" /\ pc[q] = "recovering" => p = q

\* At most two processes: nobody can take over the marker of a dead process at the same
\* time as another one.
TwoProcs == \A p, q, r \in Procs : p = q \/ q = r \/ p = r
Watched == TwoProcs \/ \A p \in Procs : Alive(p)
Unmet == Watched => ~past.met

LegacyInv == Typed /\ Held /\ Sync /\ Apart /\ Guarded /\ Unmet

\* What has met has met, and only the acquisition brings a process behind the marker.
LEMMA Meeting ==
  ASSUME Typed, LegacyNext
  PROVE  /\ past.met => past'.met
         /\ \/ past'.met = past.met /\ \A q \in Procs : pc'[q] = "recovering" => pc[q] = "recovering"
            \/ \E p \in Procs :
                  /\ pc' = [pc EXCEPT ![p] = "recovering"] /\ pc[p] # "recovering"
                  /\ past'.met = (past.met \/ \E q \in Procs \ {p} : pc[q] = "recovering")
<1> DEFINE Same == past'.met = past.met /\ \A q \in Procs : pc'[q] = "recovering" => pc[q] = "recovering"
<1>1. past \in Pasts /\ pc \in [Procs -> PCs]
  BY DEF Typed, RestOK, TypeOK
<1>2. CASE Around
  <2>1. past'.met = past.met
    BY <1>1, <1>2 DEF Around, Boot, CoreExits, Edit, Pasts
  <2> QED BY <1>2, <2>1 DEF Around, Boot, CoreExits, Edit, vars
<1>3. ASSUME NEW p \in Procs, \E op \in Ops : Invoke(p, op) PROVE Same
  <2>1. past'.met = past.met
    BY <1>1, <1>3 DEF Invoke, Pasts
  <2> QED BY <1>3, <2>1 DEF Invoke, vars
<1>4. ASSUME NEW p \in Procs, Publish(p) PROVE Same
  <2>1. past'.met = past.met
    BY <1>1, <1>4 DEF Publish, Pasts
  <2> QED BY <1>4, <2>1 DEF Publish, vars
<1>5. ASSUME NEW p \in Procs, Kill(p) \/ Leave(p) \/ GivesUp(p) \/ Continue(p) PROVE Same
  <2>1. past'.met = past.met
    BY <1>5 DEF Kill, Leave, GivesUp, Continue, migration
  <2>2. UNCHANGED pc \/ \E l \in PCs \ {"recovering"} : pc' = [pc EXCEPT ![p] = l]
    BY <1>5 DEF Kill, Leave, GivesUp, Continue, Die, Finish, Release, Goto, vars, PCs
  <2> QED BY <1>1, <2>1, <2>2
<1>6. ASSUME NEW p \in Procs,
             \/ Migrate(p) \/ ReadJournal(p) \/ WriteTarget(p) \/ FenceTarget(p) \/ ApplyTarget(p)
             \/ Record(p) \/ Terminate(p) \/ Archive(p) \/ Drop(p) \/ Reset(p) \/ Quiesce(p)
             \/ ResetStep(p)
      PROVE  Same
  BY <1>6 DEF Migrate, ReadJournal, WriteTarget, FenceTarget, ApplyTarget, Record, Terminate,
              Archive, Drop, Reset, Quiesce, ResetStep, Fails, migration, vars
<1>7. ASSUME NEW p \in Procs, Acquire(p)
      PROVE  \/ Same
             \/ /\ pc' = [pc EXCEPT ![p] = "recovering"] /\ pc[p] # "recovering"
                /\ past'.met = (past.met \/ \E q \in Procs \ {p} : pc[q] = "recovering")
  <2>1. past'.met = (past.met \/ (pc'[p] = "recovering" /\ Others(p) # {}))
    BY <1>1, <1>7 DEF Acquire, Pasts
  <2>2. \/ pc' = [pc EXCEPT ![p] = "recovering"] /\ pc[p] = "write"
        \/ \E l \in PCs \ {"recovering"} : pc' = [pc EXCEPT ![p] = l]
    BY <1>7 DEF Acquire, Read, Reclaim, Create, Write, Goto, PCs
  <2>3. Others(p) # {} <=> \E q \in Procs \ {p} : pc[q] = "recovering"
    BY DEF Others
  <2>4. past.met \in BOOLEAN
    BY <1>1 DEF Pasts
  <2> QED BY <1>1, <2>1, <2>2, <2>3, <2>4
<1>8. past.met \in BOOLEAN
  BY <1>1 DEF Pasts
<1> QED BY <1>2, <1>3, <1>4, <1>5, <1>6, <1>7, <1>8, NextCases DEF Acts, CommandStep

LEMMA ApartStep ==
  ASSUME Typed, Apart, LegacyNext
  PROVE  Apart'
<1>1. pc \in [Procs -> PCs]
  BY DEF Typed, TypeOK
<1> QED BY <1>1, Meeting DEF Apart

\* Nobody comes back to life.
LEMMA WatchedBefore ==
  ASSUME Typed, LegacyNext, Watched'
  PROVE  Watched
<1>1. CASE TwoProcs
  BY <1>1 DEF Watched
<1>2. CASE \A p \in Procs : Alive(p)'
  <2>1. CASE Next
    BY <1>2, <2>1, DeadStayDead DEF Typed, Watched
  <2>2. CASE UNCHANGED pc
    BY <1>2, <2>2 DEF Watched, Alive
  <2> QED BY <2>1, <2>2, MarkerMoves
<1> QED BY <1>1, <1>2 DEF Watched, TwoProcs

\* Two that would meet are both behind the marker, and then somebody has died.
LEMMA UnmetStep ==
  ASSUME Typed, Held, Unmet, LegacyNext
  PROVE  Unmet'
<1> SUFFICES ASSUME Watched' PROVE ~past'.met
  BY DEF Unmet
<1>1. ~past.met /\ pc \in [Procs -> PCs]
  BY WatchedBefore DEF Unmet, Typed, TypeOK
<1>2. ASSUME NEW p \in Procs, NEW q \in Procs, pc'[p] = "recovering", pc'[q] = "recovering"
      PROVE  p = q
  <2>1. Held'
    BY MarkerKept DEF MarkerInv, Typed
  <2>2. CASE \A r \in Procs : Alive(r)'
    BY <1>2, <2>1, <2>2 DEF Held, Own
  <2>3. CASE TwoProcs /\ \E r \in Procs : ~Alive(r)'
    BY <1>2, <2>3 DEF TwoProcs, Alive
  <2> QED BY <2>2, <2>3 DEF Watched, TwoProcs
<1> QED BY <1>1, <1>2, Meeting

\* Outside of a recovery, an open transaction keeps a command from the Core.
LEMMA Outside ==
  ASSUME NEW p \in Procs, Acts(p), cmd[p].at \notin Recovery, Open(tx),
         cmd[p].at \in Ats
  PROVE  UNCHANGED <<core, tx>>
<1>1. CASE \E op \in Ops : Invoke(p, op)
  BY <1>1 DEF Invoke
<1>2. CASE \/ Kill(p) \/ GivesUp(p) \/ Acquire(p) \/ Leave(p)
  BY <1>2 DEF Kill, GivesUp, Acquire, Leave, migration
<1>3. CASE Continue(p)
  BY <1>3 DEF Continue, Gate
<1>4. ASSUME \/ Migrate(p) \/ Publish(p) \/ ReadJournal(p) \/ WriteTarget(p) \/ FenceTarget(p)
             \/ ApplyTarget(p) \/ Record(p) \/ Terminate(p) \/ Archive(p) \/ Drop(p)
             \/ Reset(p) \/ Quiesce(p) \/ ResetStep(p)
      PROVE  cmd[p].at \in Recovery
  BY <1>4 DEF Migrate, Publish, ReadJournal, WriteTarget, FenceTarget, ApplyTarget, Record,
            Terminate, Archive, Drop, Reset, Quiesce, ResetStep, At, Recovery, Window
<1> QED BY <1>1, <1>2, <1>3, <1>4 DEF Acts, CommandStep

\* A process enters the window when it has seen the Core exit, and goes on in it until
\* the transaction goes.
LEMMA Entering ==
  ASSUME Typed, Sync, NEW p \in Procs, Acts(p), Windowed(p)
  PROVE  Windowed(p)'
<1>1. cmd[p] \in Commands /\ CmdOK
  BY DEF Typed, CmdOK
<1>2. SUFFICES ASSUME cmd'[p].at \in Window PROVE core' = NoCore /\ Open(tx)'
  BY DEF Windowed
<1>3. ASSUME cmd'[p].at \in Ats \ Window PROVE FALSE
  BY <1>2, <1>3
<1>4. CASE \/ (\E op \in Ops : Invoke(p, op)) \/ Kill(p) \/ GivesUp(p) \/ Acquire(p) \/ Leave(p) \/ Continue(p)
  <2>1. Synced(p)' /\ cmd'[p] \in Commands
    BY SyncStep, CommandTyped, NextCases DEF Sync, CmdOK
  <2>2. pc'[p] = "recovering" /\ Acquire(p)
    <3>1. cmd'[p].at \in Recovery
      BY <1>2 DEF Window, Recovery, Ats
    <3>2. \A op \in Ops : Invoke(p, op) => pc'[p] = "idle"
      BY DEF Invoke, vars
    <3>3. GivesUp(p) \/ Continue(p) => pc'[p] = "idle"
      BY DEF GivesUp, Continue, vars
    <3>4. Kill(p) => pc'[p] = "dead"
      BY DEF Kill, Die, Goto, Typed, TypeOK
    <3>5. Leave(p) => pc'[p] \in {"idle", "release"}
      BY DEF Leave, Finish, Release, Goto, Typed, TypeOK
    <3> QED BY <1>4, <2>1, <3>1, <3>2, <3>3, <3>4, <3>5 DEF Synced
  <2>3. cmd'[p].at = "migrate"
    BY <1>1, <2>2 DEF Acquire, CmdOK, Commands
  <2> QED BY <1>2, <2>3 DEF Window
<1>5. CASE Quiesce(p)
  <2>1. CASE Go(p, "failed") \/ UNCHANGED cmd
    <3>1. cmd[p].at = "quiesce" /\ "failed" \in Ats \ Window /\ "quiesce" \in Ats \ Window
      BY <1>5 DEF Quiesce, At, Ats, Window
    <3>2. cmd'[p].at \in {"failed", "quiesce"}
      BY <1>1, <2>1, <3>1, Going
    <3> QED BY <1>3, <3>1, <3>2
  <2>2. CASE Go(p, "wSnapshot") /\ Fenced(p) /\ core' = NoCore /\ tx' = tx
    BY <2>2 DEF Fenced, Open
  <2> QED BY <1>5, <2>1, <2>2
          DEF Quiesce, QuiesceByDaemon, QuiesceByCli, QuiesceAlone, Stops, Begun, ResetOrder
<1>6. CASE ResetStep(p)
  <2>1. core = NoCore /\ Open(tx)
    BY <1>6 DEF ResetStep, Windowed
  <2>2. CASE cmd[p].at = "wActive"
    <3>1. PICK l \in {"done", "failed"} : Go(p, l)
      BY <1>6, <2>2, WindowOrder DEF ResetStep, Fails
    <3> QED BY <1>1, <1>2, <3>1, Going DEF Window, Ats
  <2>3. CASE cmd[p].at # "wActive"
    BY <1>6, <2>1, <2>3 DEF ResetStep
  <2> QED BY <2>2, <2>3
<1>7. CASE \/ Publish(p) \/ Record(p) \/ Terminate(p) \/ Archive(p) \/ Drop(p) \/ FenceTarget(p)
  <2>1. PICK l \in {"read", "converge", "archive", "dropJournal", "dropCandidate", "done", "failed",
                    "apply"} : Go(p, l)
    BY <1>7 DEF Publish, Record, Terminate, Archive, Drop, FenceTarget, Fails
  <2>2. l \in Ats \ Window
    BY DEF Ats, Window
  <2> QED BY <1>1, <1>3, <2>1, <2>2, Going
<1>8. CASE Migrate(p) \/ Reset(p)
  <2>0. cmd \in [Procs -> Commands]
    BY <1>1 DEF CmdOK
  <2>1. cmd'[p].at \in {"read", "publish", "done", "quiesce"}
    <3>1. CASE Migrate(p)
      BY <1>1, <2>0, <3>1 DEF Migrate, Commands
    <3>2. CASE Reset(p)
      BY <1>1, <2>0, <3>2 DEF Reset, Commands
    <3> QED BY <1>8, <3>1, <3>2
  <2> QED BY <1>3, <2>1 DEF Ats, Window
<1>9. CASE WriteTarget(p) \/ ApplyTarget(p) \/ ReadJournal(p)
  <2>1. ASSUME NEW l \in {"failed", "done"}, Go(p, l) PROVE FALSE
    <3>1. l \in Ats \ Window
      BY <2>1 DEF Ats, Window
    <3> QED BY <1>1, <1>3, <2>1, <3>1, Going
  <2>2. ASSUME NEW i, cmd' = [cmd EXCEPT ![p] = [@ EXCEPT !.at = "record", !.id = i]]
        PROVE  FALSE
    BY <1>1, <1>2, <2>2 DEF Commands, CmdOK, Window
  <2>3. ASSUME cmd' = [cmd EXCEPT ![p] = [@ EXCEPT !.at = "fence", !.rev = intent]]
        PROVE  FALSE
    BY <1>1, <1>2, <2>3 DEF Commands, CmdOK, Window
  <2>4. ASSUME NEW l \in {"archive", "target", "finalize", "reset", "failed"},
               cmd' = [cmd EXCEPT ![p] = [@ EXCEPT !.at = l, !.gen = tx.gen, !.rev = None]]
        PROVE  FALSE
    BY <1>1, <1>2, <2>4 DEF Commands, CmdOK, Window
  <2> QED BY <1>9, <2>1, <2>2, <2>3, <2>4 DEF WriteTarget, ApplyTarget, ReadJournal, Fails, Plan
<1> QED BY <1>4, <1>5, <1>6, <1>7, <1>8, <1>9 DEF Acts, CommandStep

LEMMA GuardedStep ==
  ASSUME LegacyInv, LegacyNext
  PROVE  Guarded'
<1> SUFFICES ASSUME ~past'.met, NEW q \in Procs PROVE Windowed(q)'
  BY DEF Guarded
<1>1. ~past.met /\ \A p \in Procs : Windowed(p)
  BY Meeting DEF LegacyInv, Guarded
<1>2. CASE Around
  <2>1. cmd' = cmd /\ tx' = tx
    BY <1>2 DEF Around, Boot, CoreExits, Edit
  <2>2. core = NoCore /\ Open(tx) => core' = NoCore
    BY <1>2 DEF Around, Boot, CoreExits, Edit, Blocked
  <2> QED BY <1>1, <2>1, <2>2 DEF Windowed, Open
<1>3. ASSUME NEW p \in Procs, Acts(p) PROVE Windowed(q)'
  <2>1. CASE p = q
    BY <1>1, <1>3, <2>1, Entering DEF LegacyInv
  <2>2. CASE p # q
    <3>1. cmd'[q] = cmd[q]
      BY <1>3, <2>2, CommandTyped DEF LegacyInv
    <3>2. SUFFICES ASSUME cmd[q].at \in Window PROVE core' = NoCore /\ Open(tx)'
      BY <3>1 DEF Windowed
    <3>3. core = NoCore /\ Open(tx)
      BY <1>1, <3>2 DEF Windowed
    <3>4. cmd[q].at \in Recovery
      BY <3>2 DEF Window, Recovery, Ats
    <3>5. cmd[p].at \notin Recovery
      BY <1>1, <2>2, <3>4 DEF LegacyInv, Sync, Synced, Apart
    <3>6. cmd[p].at \in Ats
      BY DEF LegacyInv, Typed, CmdOK, Commands
    <3> QED BY <1>3, <3>3, <3>5, <3>6, Outside DEF Open
  <2> QED BY <2>1, <2>2
<1> QED BY <1>2, <1>3, NextCases

LEMMA LegacyInvariant == LegacySpec => []LegacyInv
<1>1. LegacyInit => LegacyInv
  <2> SUFFICES ASSUME LegacyInit PROVE LegacyInv
    OBVIOUS
  <2>1. Typed /\ Held
    BY LegacyInits, MarkerInit DEF LegacyInit, MarkerInv
  <2>2. \A p \in Procs : cmd[p].at = "idle"
    BY IdleTyped DEF LegacyInit
  <2>3. Sync /\ Guarded
    BY <2>2 DEF Sync, Synced, Guarded, Windowed, Window, Recovery
  <2>4. Apart /\ Unmet
    BY DEF LegacyInit, Init, Apart, Unmet
  <2> QED BY <2>1, <2>3, <2>4 DEF LegacyInv
<1>2. LegacyInv /\ LegacyNext => LegacyInv'
  BY TypedStep, SyncStep, ApartStep, GuardedStep, UnmetStep, MarkerKept DEF LegacyInv, MarkerInv, Typed
<1>3. LegacyInv /\ UNCHANGED legacyVars => LegacyInv'
  <2> SUFFICES ASSUME LegacyInv, UNCHANGED legacyVars PROVE LegacyInv'
    OBVIOUS
  <2>1. Typed'
    BY LegacyStutter DEF LegacyInv
  <2>2. UNCHANGED <<marker, pc, cmd, core, tx, past>>
    BY DEF legacyVars, vars, migration
  <2>3. Held' /\ Sync' /\ Guarded'
    BY <2>2 DEF LegacyInv, Held, Own, Alive, Sync, Synced, Guarded, Windowed, Open
  <2>4. Apart' /\ Unmet'
    BY <2>2 DEF LegacyInv, Apart, Unmet, Watched, TwoProcs, Alive
  <2> QED BY <2>1, <2>3, <2>4 DEF LegacyInv
<1> QED BY <1>1, <1>2, <1>3, PTL DEF LegacySpec

\* The files, the migrated journal, the Core and the commands keep their types,
\* whatever is killed, edited or started.
THEOREM LegacyTypeCorrect == LegacySpec => []LegacyTypeOK
<1>1. LegacyInv => LegacyTypeOK
  BY DEF LegacyInv, Typed, CmdOK, TxOK, CoreOK, RestOK, Txs, Cores, Commands, LegacyTypeOK
<1> QED BY <1>1, LegacyInvariant, PTL

\* Recoveries of an older version's transaction exclude each other until one dies,
\* with everything that commands, daemon and user do around the marker.
THEOREM RecoveriesExclude == LegacySpec => []ExclusiveWhileAllLive
<1>1. LegacyInv => ExclusiveWhileAllLive
  BY DEF LegacyInv, Held, ExclusiveWhileAllLive, OneRecovery, Own
<1> QED BY <1>1, LegacyInvariant, PTL

\* A controlled reset never works under a live Core, for any number of processes,
\* wherever they are killed, until two recoveries have met behind the marker.
THEOREM ResetsAreGuarded == LegacySpec => []ResetUnderGate
<1>1. LegacyInv => ResetUnderGate
  BY DEF LegacyInv, Guarded, Windowed, ResetUnderGate
<1> QED BY <1>1, LegacyInvariant, PTL

\* They do not meet while nobody dies, and two processes alone never: it takes a dead
\* one and two that take over its marker.
THEOREM RecoveriesMeetLate == LegacySpec => [](Watched => ~past.met)
<1>1. LegacyInv => (Watched => ~past.met)
  BY DEF LegacyInv, Unmet
<1> QED BY <1>1, LegacyInvariant, PTL

=============================================================================
