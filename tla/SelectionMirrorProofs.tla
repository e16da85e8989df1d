----------------------- MODULE SelectionMirrorProofs -----------------------
(***************************************************************************)
(* A published drift is one, commands keep each other's selections, and a  *)
(* restart restores them, for any number of processes, subscriptions,      *)
(* groups, nodes, commands and faults.                                     *)
(***************************************************************************)
EXTENDS SelectionMirror, TLAPS

Names == {"none", "select", "unpin", "switch", "restart", "probe"}
Users == [active : Subs, config : Subs, pins : [Subs -> Files]]
Mirrors == [active : Subs \cup {None}, map : [Subs -> Files], bind : Bindings \cup {None}]
Cores == [up : BOOLEAN, sub : Subs, now : [Groups -> Nodes]]
Daemons == [up : BOOLEAN, owner : Procs \cup {None},
            segment : [open : BOOLEAN, owner : Subs \cup {None}]]
Samples == [pc : {"idle", "fetch", "compare", "publish"}, now : Pins, drifts : SUBSET Drifts]
Commands == [pc : PCs, name : Names, sub : Subs \cup {None}, group : Groups \cup {None},
             node : Nodes \cup {None}, file : Files, rev : Revisions \cup {None},
             load : Subs \cup {None}, todo : SUBSET (Subs \cup Groups),
             checked : BOOLEAN, lost : BOOLEAN]
Histories == [tun : BOOLEAN, alone : [Procs -> BOOLEAN],
              commands : 0..MaxCommands, faults : 0..MaxFaults]

\* What a command carries at the step it is at.
Editing == {"open", "put", "attest", "lock", "load", "save", "undo"}
Carries(c) ==
  /\ c.pc \in Editing => c.sub \in Subs /\ c.name \in {"select", "unpin"}
  /\ c.pc \in {"open", "put", "attest", "undo"} => c.name = "select"
  /\ c.pc = "lock" => c.name = "unpin"
  /\ c.name = "select" /\ c.pc \in Editing => c.group \in Groups /\ c.node \in Nodes
  /\ c.pc \in {"push", "record"} => c.name \in {"select", "unpin", "switch", "restart"}
  /\ c.pc \in {"read active", "record active"} => c.name \in {"switch", "restart"}
  /\ c.pc \in {"record active", "record"} => c.sub \in Subs /\ c.rev \in Revisions
  /\ c.pc = "push" /\ c.name # "restart" => c.sub \in Subs
  /\ c.name = "restart" => c.load \in Subs
  /\ c.name = "restart" /\ c.pc \in {"read active", "push", "record", "reconcile"}
       => c.rev \in Revisions /\ c.todo \subseteq Subs
  /\ c.pc = "reconcile" => c.name = "restart"
  /\ c.pc = "payload" => c.name = "switch"
  /\ c.pc \in {"request", "lifecycle", "start"} => c.load \in Subs /\ c.name \in {"switch", "restart"}
  /\ c.pc \in {"lifecycle", "replay", "replay put"} => c.sub \in Subs
  /\ c.pc = "replay put" => c.todo \subseteq Pinned(c.file)
  /\ c.pc = "probe" => c.group \in Groups /\ c.node \in Nodes

UserOK    == user \in Users
LockOK    == lock \in Procs \cup {None}
MirrorOK  == mirror \in Mirrors
CoreOK    == core \in Cores
DaemonOK  == daemon \in Daemons
SampleOK  == sample \in Samples
CmdOK     == cmd \in [Procs -> Commands] /\ \A p \in Procs : Carries(cmd[p])
HistoryOK == history \in Histories
Typed == /\ UserOK /\ LockOK /\ MirrorOK /\ CoreOK
         /\ DaemonOK /\ SampleOK /\ CmdOK /\ HistoryOK

\* The handlers of the daemon end with it.
Served == \A p \in Procs : cmd[p].pc \in InDaemon => daemon.up

\* A selection is edited under the lock: what is about to be saved is the file
\* with one more change.
Owning == {"open", "put", "attest", "load", "save", "undo"}
Locked == \A p \in Procs :
  /\ cmd[p].pc \in Owning => lock = p
  /\ At(p, "save") => cmd[p].file = user.pins[cmd[p].sub]

\* A sample in progress is of this moment.
Sampled ==
  /\ InFlight \/ ~daemon.up => sample.pc = "idle"
  /\ sample.pc = "compare" /\ core.up => core.now = sample.now
  /\ sample.pc = "publish" => \A d \in sample.drifts :
       /\ Content(mirror.map[mirror.active])[d.group] = d.intent
       /\ core.up => core.now[d.group] = d.runtime

\* A restart alone, none of whose pushes was lost: what the mirror and the Core
\* have of the user's files so far.
Late == {"request", "lifecycle", "start", "replay", "replay put", "finish"}
Restores(p) ==
  LET c == cmd[p] IN
  /\ c.pc \in {"push", "record", "reconcile"} \cup Late => mirror.active = user.active
  /\ c.pc = "record active" => c.sub = user.active
  /\ c.pc \in {"read active", "record active", "push"} => ~c.checked
  /\ c.pc = "reconcile" /\ c.checked => Drifted \subseteq c.todo
  /\ c.pc = "record" => c.file = user.pins[c.sub]
  /\ c.pc = "record" /\ c.checked => Drifted \subseteq c.todo \cup {c.sub}
  /\ c.pc \in Late => Drifted = {}
  /\ c.pc \in {"lifecycle", "start", "replay", "replay put"} => c.sub = user.active
  /\ c.pc \in {"replay", "replay put"} => core.up
  /\ c.pc = "replay put" => /\ c.file = mirror.map[user.active]
                            /\ \A g \in Pinned(c.file) \ c.todo : core.now[g] = c.file[g]
  /\ c.pc = "finish" /\ core.up
       => \A g \in Pinned(user.pins[user.active]) : core.now[g] = user.pins[user.active][g]

Alone == \A p \in Procs : history.alone[p] /\ ~At(p, "idle") =>
  /\ cmd[p].name = "restart"
  /\ \A q \in Procs \ {p} : At(q, "idle")
  /\ ~cmd[p].lost => Restores(p)

Inv == Typed /\ Served /\ Locked /\ Sampled /\ Alone

-----------------------------------------------------------------------------
(* How commands move.                                                      *)

LEMMA PutCommand ==
  ASSUME CmdOK, NEW p \in Procs, NEW c \in Commands, Carries(c), Set(p, c)
  PROVE  CmdOK' /\ cmd'[p] = c /\ \A q \in Procs \ {p} : cmd'[q] = cmd[q]
BY DEF CmdOK, Set

LEMMA IdleCommand == Idle \in Commands /\ Carries(Idle) /\ Idle.pc = "idle"
<1>1. Idle \in Commands
  BY DEF Idle, Commands, PCs, Names, Files
<1>2. Idle.pc = "idle" /\ Idle.name = "none"
  BY DEF Idle
<1> QED BY <1>1, <1>2 DEF Carries, Editing

LEMMA GotoCommand ==
  ASSUME CmdOK, NEW p \in Procs, NEW l \in PCs, Goto(p, l), Carries([cmd[p] EXCEPT !.pc = l])
  PROVE  CmdOK'
<1>1. cmd[p] \in Commands
  BY DEF CmdOK
<1>2. [cmd[p] EXCEPT !.pc = l] \in Commands
  BY <1>1 DEF Commands
<1> QED BY <1>2, PutCommand DEF Goto

LEMMA EndCommand == ASSUME CmdOK, NEW p \in Procs, End(p) PROVE CmdOK'
BY PutCommand, IdleCommand DEF End

LEMMA FileFacts ==
  /\ Unpinned \in Pins /\ Absent \in Files /\ Pins \subseteq Files /\ Content(Absent) = Unpinned
  /\ \A f \in Files : Content(f) \in Pins /\ (f # Absent => f \in Pins /\ Content(f) = f)
  /\ \A f \in Pins : Content(f) = f /\ f # Absent
  /\ Pinned(Absent) = {}
  /\ \A f \in Files : Pinned(f) \subseteq Groups /\ \A g \in Pinned(f) : f[g] \in Nodes /\ f[g] = Content(f)[g]
<1>1. Unpinned \in Pins /\ \A g \in Groups : Unpinned[g] = None
  BY DEF Unpinned, Pins
<1>2. Absent \notin Pins
  BY NoneAssumption DEF Pins
<1>3. /\ Absent \in Files /\ Pins \subseteq Files /\ Content(Absent) = Unpinned
      /\ \A f \in Files : Content(f) \in Pins /\ (f # Absent => f \in Pins /\ Content(f) = f)
      /\ \A f \in Pins : Content(f) = f /\ f # Absent
  BY <1>1, <1>2 DEF Files, Content
<1>4. Pinned(Absent) = {}
  BY <1>1, <1>3 DEF Pinned
<1>5. ASSUME NEW f \in Files
      PROVE  Pinned(f) \subseteq Groups /\ \A g \in Pinned(f) : f[g] \in Nodes /\ f[g] = Content(f)[g]
  <2>1. Pinned(f) \subseteq Groups
    BY DEF Pinned
  <2>2. ASSUME NEW g \in Pinned(f) PROVE f[g] \in Nodes /\ f[g] = Content(f)[g]
    <3>1. f # Absent
      BY <1>4
    <3>2. f \in Pins /\ Content(f) = f
      BY <1>3, <3>1
    <3>3. g \in Groups /\ Content(f)[g] # None
      BY DEF Pinned
    <3> QED BY <3>2, <3>3 DEF Pins
  <2> QED BY <2>1, <2>2
<1> QED BY <1>1, <1>3, <1>4, <1>5

-----------------------------------------------------------------------------
(* Types: the commands.                                                    *)

LEMMA BeginCommand ==
  ASSUME CmdOK, NEW p \in Procs, NEW c \in Commands, Carries(c), Begin(p, c)
  PROVE  CmdOK' /\ cmd'[p] = c /\ \A q \in Procs \ {p} : cmd'[q] = cmd[q]
BY PutCommand DEF Begin

LEMMA InvokeTyped ==
  ASSUME Typed, NEW p \in Procs,
         \/ SelectCommand(p) \/ Restart(p) \/ Stop(p)
         \/ \E g \in Groups, n \in Nodes : Probe(p, g, n)
         \/ \E s \in Subs : Switch(p, s)
  PROVE  CmdOK'
<1>1. user \in Users /\ core \in Cores /\ CmdOK /\ HistoryOK /\ Merged(user.config) \in Revisions
  BY DEF Typed, UserOK, CoreOK, HistoryOK, Histories, Users, Merged, Revisions
<1>2. CASE \E g \in Groups \cup {None} : Unpin(p, g)
  <2>1. PICK g \in Groups \cup {None} : Unpin(p, g)
    BY <1>2
  <2>2. PICK c : c = [Idle EXCEPT !.pc = "lock", !.name = "unpin", !.sub = user.active, !.group = g]
    OBVIOUS
  <2>3. c \in Commands /\ Carries(c)
    <3>1. c \in Commands
      BY <1>1, <2>2 DEF Idle, Commands, PCs, Names, Users, Files
    <3>2. c.pc = "lock" /\ c.name = "unpin" /\ c.sub = user.active /\ c.group = g
      BY <2>2 DEF Idle
    <3> QED BY <1>1, <3>1, <3>2 DEF Carries, Editing, Users
  <2> QED BY <1>1, <2>1, <2>2, <2>3, BeginCommand DEF Unpin
<1>3. CASE \E g \in Groups, n \in Nodes : Select(p, g, n)
  <2>1. PICK g \in Groups, n \in Nodes : Select(p, g, n)
    BY <1>3
  <2>2. PICK c : c = [Idle EXCEPT !.pc = "open", !.name = "select", !.sub = user.active,
                                  !.group = g, !.node = n]
    OBVIOUS
  <2>3. c \in Commands /\ Carries(c)
    <3>1. c \in Commands
      BY <1>1, <2>2 DEF Idle, Commands, PCs, Names, Users, Files
    <3>2. c.pc = "open" /\ c.name = "select" /\ c.sub = user.active /\ c.group = g /\ c.node = n
      BY <2>2 DEF Idle
    <3> QED BY <1>1, <3>1, <3>2 DEF Carries, Editing, Users
  <2> QED BY <1>1, <2>1, <2>2, <2>3, BeginCommand DEF Select
<1>4. CASE Restart(p)
  <2>1. PICK c : c = [Idle EXCEPT !.pc = "read active", !.name = "restart", !.load = user.config,
                                  !.rev = Merged(user.config)]
    OBVIOUS
  <2>2. c \in Commands /\ Carries(c)
    <3>1. c \in Commands
      BY <1>1, <2>1 DEF Idle, Commands, PCs, Names, Users, Files
    <3>2. /\ c.pc = "read active" /\ c.name = "restart" /\ c.load = user.config
          /\ c.rev = Merged(user.config) /\ c.todo = {}
      BY <2>1 DEF Idle
    <3> QED BY <1>1, <3>1, <3>2 DEF Carries, Editing, Users
  <2> QED BY <1>1, <1>4, <2>1, <2>2, BeginCommand DEF Restart
<1>5. CASE Stop(p)
  BY <1>1, <1>5, IdleCommand, BeginCommand DEF Stop
<1>6. CASE \E g \in Groups, n \in Nodes : Probe(p, g, n)
  <2>1. PICK g \in Groups, n \in Nodes : Probe(p, g, n)
    BY <1>6
  <2>2. PICK c : c = [Idle EXCEPT !.pc = "probe", !.name = "probe", !.group = g, !.node = core.now[g]]
    OBVIOUS
  <2>3. c \in Commands /\ Carries(c)
    <3>0. core.now[g] \in Nodes
      BY <1>1 DEF Cores
    <3>1. c \in Commands
      BY <3>0, <2>2 DEF Idle, Commands, PCs, Names, Files
    <3>2. c.pc = "probe" /\ c.name = "probe" /\ c.group = g /\ c.node = core.now[g]
      BY <2>2 DEF Idle
    <3> QED BY <3>0, <3>1, <3>2 DEF Carries, Editing
  <2> QED BY <1>1, <2>1, <2>2, <2>3, BeginCommand DEF Probe
<1>7. CASE \E s \in Subs : Switch(p, s)
  <2>1. PICK c : c = [Idle EXCEPT !.pc = "read active", !.name = "switch"]
    OBVIOUS
  <2>2. c \in Commands /\ Carries(c)
    <3>1. c \in Commands
      BY <2>1 DEF Idle, Commands, PCs, Names, Files
    <3>2. c.pc = "read active" /\ c.name = "switch"
      BY <2>1 DEF Idle
    <3> QED BY <3>1, <3>2 DEF Carries, Editing
  <2> QED BY <1>1, <1>7, <2>1, <2>2, BeginCommand DEF Switch
<1> QED BY <1>2, <1>3, <1>4, <1>5, <1>6, <1>7 DEF SelectCommand

LEMMA SelectTyped ==
  ASSUME Typed, NEW p \in Procs,
         \/ SelectOpen(p) \/ SelectPut(p) \/ SelectAttest(p) \/ UnpinLock(p) \/ Load(p) \/ Save(p)
         \/ Undo(p)
  PROVE  CmdOK'
<1> DEFINE c == cmd[p]
<1>1. user \in Users /\ core \in Cores /\ CmdOK /\ c \in Commands /\ Carries(c)
  BY DEF Typed, UserOK, CoreOK, CmdOK
<1>2. CASE SelectOpen(p)
  <2>1. Carries([c EXCEPT !.pc = "put"])
    BY <1>1, <1>2 DEF SelectOpen, At, Carries, Commands, Editing
  <2> QED BY <1>1, <1>2, <2>1, EndCommand, GotoCommand DEF SelectOpen, PCs
<1>3. CASE SelectPut(p)
  <2>1. Carries([c EXCEPT !.pc = "attest"])
    BY <1>1, <1>3 DEF SelectPut, At, Carries, Commands, Editing
  <2> QED BY <1>1, <1>3, <2>1, EndCommand, GotoCommand DEF SelectPut, PCs
<1>4. CASE SelectAttest(p)
  <2>1. Carries([c EXCEPT !.pc = "load"])
    BY <1>1, <1>4 DEF SelectAttest, At, Carries, Commands, Editing
  <2> QED BY <1>1, <1>4, <2>1, EndCommand, GotoCommand DEF SelectAttest, PCs
<1>5. CASE UnpinLock(p)
  <2>1. Carries([c EXCEPT !.pc = "load"])
    BY <1>1, <1>5 DEF UnpinLock, At, Carries, Commands, Editing
  <2> QED BY <1>1, <1>5, <2>1, GotoCommand DEF UnpinLock, PCs
<1>6. CASE Load(p)
  <2>1. PICK d : d = [c EXCEPT !.pc = "save", !.file = user.pins[c.sub]]
    OBVIOUS
  <2>2. c.sub \in Subs /\ user.pins[c.sub] \in Files
    BY <1>1, <1>6 DEF Load, At, Carries, Editing, Users
  <2>3. d \in Commands
    BY <1>1, <2>1, <2>2 DEF PCs, Commands
  <2>4. Carries(d)
    BY <1>1, <1>6, <2>1 DEF Load, At, Carries, Commands, Editing
  <2> QED BY <1>1, <1>6, <2>1, <2>3, <2>4, PutCommand DEF Load
<1>7. CASE Save(p)
  <2>1. c.name \in {"select", "unpin"} /\ c.sub \in Subs /\ c.pc = "save"
    BY <1>1, <1>7 DEF Save, At, Carries, Editing
  <2>2. PICK d : d = Saved(c)
    OBVIOUS
  <2>3. /\ d \in Commands /\ d.pc = "push" /\ d.name = c.name /\ d.sub = c.sub
    BY <1>1, <2>2, FileFacts DEF Saved, Commands, PCs
  <2>4. Carries(d)
    BY <2>1, <2>3 DEF Carries, Editing
  <2>5. PICK e : e = [Saved(c) EXCEPT !.sub = user.active]
    OBVIOUS
  <2>6. e \in Commands /\ e.pc = "push" /\ e.name = c.name /\ e.sub \in Subs
    BY <1>1, <2>2, <2>3, <2>5 DEF Commands, Users
  <2>7. Carries(e)
    BY <2>1, <2>6 DEF Carries, Editing
  <2>8. c.name = "select" => Carries([c EXCEPT !.pc = "undo"])
    BY <1>1, <2>1 DEF Carries, Commands, Editing
  <2>9. \/ End(p) \/ Set(p, d) \/ Set(p, e)
        \/ (c.name = "select" /\ Goto(p, "undo"))
    BY <1>7, <2>1, <2>2, <2>5 DEF Save
  <2>10. "undo" \in PCs
    BY DEF PCs
  <2> QED BY <1>1, <2>3, <2>4, <2>6, <2>7, <2>8, <2>9, <2>10, EndCommand, PutCommand, GotoCommand
<1>8. CASE Undo(p)
  <2>1. c.sub \in Subs /\ c.name = "select"
    BY <1>1, <1>8 DEF Undo, At, Carries, Editing
  <2>2. PICK d : d = Saved(c)
    OBVIOUS
  <2>3. /\ d \in Commands /\ d.pc = "push" /\ d.name = c.name /\ d.sub = c.sub
    BY <1>1, <2>2, FileFacts DEF Saved, Commands, PCs
  <2>4. Carries(d)
    BY <2>1, <2>3 DEF Carries, Editing
  <2> QED BY <1>1, <1>8, <2>2, <2>3, <2>4, PutCommand DEF Undo
<1> QED BY <1>2, <1>3, <1>4, <1>5, <1>6, <1>7, <1>8

\* What follows a push.
LEMMA AfterPushTyped ==
  ASSUME CmdOK, NEW p \in Procs, NEW c \in Commands, AfterPush(p, c), c.sub \in Subs,
         c.name \in {"select", "unpin", "switch", "restart"},
         c.name = "restart" => Carries(c)
  PROVE  CmdOK'
<1>1. CASE c.name \in {"select", "unpin"}
  <2>1. End(p)
    BY <1>1 DEF AfterPush
  <2> QED BY <2>1, EndCommand
<1>2. CASE c.name = "switch"
  <2>1. PICK d : d = [c EXCEPT !.pc = "payload", !.file = Absent]
    OBVIOUS
  <2>2. d \in Commands /\ d.pc = "payload" /\ d.name = "switch"
    BY <1>2, <2>1, FileFacts DEF Commands, PCs
  <2>3. Carries(d)
    BY <2>2 DEF Carries, Editing
  <2> QED BY <1>2, <2>1, <2>2, <2>3, PutCommand DEF AfterPush
<1>3. CASE c.name = "restart"
  BY <1>3, PutCommand DEF AfterPush
<1> QED BY <1>1, <1>2, <1>3

LEMMA RecordTyped ==
  ASSUME CmdOK, NEW p \in Procs, NEW failed \in BOOLEAN, At(p, "record"), AfterRecord(p, failed)
  PROVE  CmdOK'
<1> DEFINE c == cmd[p]
<1>1. /\ c \in Commands /\ Carries(c) /\ c.pc = "record"
  BY DEF CmdOK, At
<1>2. c.sub \in Subs /\ c.name \in {"select", "unpin", "switch", "restart"}
  BY <1>1 DEF Carries
<1>3. CASE c.name = "restart"
  <2>0. PICK l \in {"reconcile", "push"}, k \in BOOLEAN :
          l = (IF c.checked THEN "reconcile" ELSE "push") /\ k = (c.lost \/ (failed /\ c.checked))
    OBVIOUS
  <2>1. PICK d : d = [c EXCEPT !.pc = l, !.file = Absent, !.lost = k]
    OBVIOUS
  <2>2. d \in Commands
    BY <1>1, <2>1, FileFacts DEF Commands, PCs
  <2>3. /\ d.pc \in {"reconcile", "push"} /\ d.name = "restart" /\ d.sub = c.sub
        /\ d.load = c.load /\ d.rev = c.rev /\ d.todo = c.todo
    BY <1>1, <1>3, <2>1 DEF Commands
  <2>4. Carries(d)
    BY <1>1, <1>2, <1>3, <2>3 DEF Carries, Editing
  <2>5. AfterPush(p, d)
    BY <1>3, <2>0, <2>1 DEF AfterRecord
  <2> QED BY <1>2, <2>2, <2>3, <2>4, <2>5, AfterPushTyped
<1>4. CASE c.name # "restart"
  <2>1. AfterPush(p, c)
    BY <1>4 DEF AfterRecord
  <2> QED BY <1>1, <1>2, <1>4, <2>1, AfterPushTyped
<1> QED BY <1>3, <1>4

LEMMA PushTyped ==
  ASSUME Typed, NEW p \in Procs,
         ReadActive(p) \/ RecordActive(p) \/ Push(p) \/ Record(p) \/ Reconcile(p)
  PROVE  CmdOK'
<1> DEFINE c == cmd[p]
<1>1. user \in Users /\ CmdOK /\ c \in Commands /\ Carries(c) /\ Base(user.config) \in Revisions
  BY DEF Typed, UserOK, CmdOK, Base, Revisions, Users
<1>2. CASE ReadActive(p)
  <2>1. c.pc = "read active" /\ c.name \in {"switch", "restart"}
    BY <1>1, <1>2 DEF ReadActive, At, Carries
  <2>2. PICK r : r = IF c.name = "switch" THEN Base(user.config) ELSE c.rev
    OBVIOUS
  <2>3. r \in Revisions
    BY <1>1, <2>1, <2>2 DEF Carries
  <2>4. PICK d : d = [c EXCEPT !.pc = "record active", !.sub = user.active, !.rev = r]
    OBVIOUS
  <2>5. d \in Commands
    BY <1>1, <2>3, <2>4 DEF Commands, PCs, Users
  <2>6. /\ d.pc = "record active" /\ d.name = c.name /\ d.sub \in Subs /\ d.rev = r /\ d.load = c.load
    BY <1>1, <2>4 DEF Commands, Users
  <2>7. Carries(d)
    BY <1>1, <2>1, <2>3, <2>6 DEF Carries, Editing
  <2> QED BY <1>1, <1>2, <2>2, <2>4, <2>5, <2>7, PutCommand DEF ReadActive
<1>3. CASE RecordActive(p)
  <2>1. /\ c.pc = "record active" /\ c.name \in {"switch", "restart"} /\ c.sub \in Subs
        /\ c.rev \in Revisions
    BY <1>1, <1>3 DEF RecordActive, At, Carries
  <2>2. PICK t : t = IF c.name = "restart" THEN Written ELSE {}
    OBVIOUS
  <2>3. t \subseteq Subs
    BY <2>2 DEF Written
  <2>4. PICK d : d = [c EXCEPT !.pc = "push", !.todo = t]
    OBVIOUS
  <2>5. d \in Commands
    BY <1>1, <2>3, <2>4 DEF Commands, PCs
  <2>6. /\ d.pc = "push" /\ d.name = c.name /\ d.sub = c.sub /\ d.rev = c.rev /\ d.load = c.load
        /\ d.todo = t
    BY <1>1, <2>4 DEF Commands
  <2>7. Carries(d)
    BY <1>1, <2>1, <2>3, <2>6 DEF Carries, Editing
  <2>8. PICK l \in {"payload", "request"} : l = IF c.name = "switch" THEN "payload" ELSE "request"
    OBVIOUS
  <2>9. PICK e : e = [c EXCEPT !.pc = l, !.lost = TRUE]
    OBVIOUS
  <2>10. e \in Commands
    <3>1. l \in PCs
      BY <2>8 DEF PCs
    <3> QED BY <1>1, <2>9, <3>1 DEF Commands
  <2>11. e.pc = l /\ e.name = c.name /\ e.load = c.load
    BY <1>1, <2>9 DEF Commands
  <2>12. Carries(e)
    BY <1>1, <2>1, <2>8, <2>11 DEF Carries, Editing
  <2>13. Set(p, d) \/ Set(p, e)
    BY <1>3, <2>2, <2>4, <2>8, <2>9 DEF RecordActive
  <2> QED BY <1>1, <2>5, <2>7, <2>10, <2>12, <2>13, PutCommand
<1>4. CASE Push(p)
  <2>1. c.pc = "push" /\ c.name \in {"select", "unpin", "switch", "restart"}
    BY <1>1, <1>4 DEF Push, At, Carries
  <2>2. CASE c.name = "restart" /\ c.todo = {}
    <3>1. Carries([c EXCEPT !.pc = "reconcile"])
      BY <1>1, <2>1, <2>2 DEF Carries, Commands, Editing
    <3> QED BY <1>1, <1>4, <2>2, <3>1, GotoCommand DEF Push, PCs
  <2>3. CASE c.name = "restart" /\ c.todo # {}
    <3>1. PICK s \in c.todo : Set(p, [c EXCEPT !.pc = "record", !.sub = s, !.todo = @ \ {s},
                                               !.file = user.pins[s]])
      BY <1>4, <2>3 DEF Push
    <3>2. PICK d : d = [c EXCEPT !.pc = "record", !.sub = s, !.todo = @ \ {s}, !.file = user.pins[s]]
      OBVIOUS
    <3>3. s \in Subs /\ user.pins[s] \in Files /\ c.todo \subseteq Subs /\ c.rev \in Revisions
      BY <1>1, <2>1, <2>3, <3>1 DEF Carries, Users
    <3>4. d \in Commands
      BY <1>1, <3>2, <3>3 DEF Commands, PCs
    <3>5. /\ d.pc = "record" /\ d.name = "restart" /\ d.sub = s /\ d.rev = c.rev /\ d.load = c.load
          /\ d.todo \subseteq Subs
      BY <1>1, <2>3, <3>2, <3>3 DEF Commands
    <3>6. Carries(d)
      BY <1>1, <2>3, <3>3, <3>5 DEF Carries, Editing
    <3> QED BY <1>1, <3>1, <3>2, <3>4, <3>6, PutCommand
  <2>4. CASE c.name # "restart"
    <3>1. c.sub \in Subs /\ user.pins[c.sub] \in Files
      BY <1>1, <2>1, <2>4 DEF Carries, Users
    <3>2. CASE user.pins[c.sub] = Absent
      BY <1>1, <1>4, <2>1, <2>4, <3>1, <3>2, AfterPushTyped DEF Push
    <3>3. CASE user.pins[c.sub] # Absent
      <4>1. PICK d : d = [c EXCEPT !.pc = "record", !.file = user.pins[c.sub], !.rev = Base(user.config)]
        OBVIOUS
      <4>2. d \in Commands
        BY <1>1, <3>1, <4>1 DEF Commands, PCs
      <4>3. d.pc = "record" /\ d.name = c.name /\ d.sub = c.sub /\ d.rev \in Revisions
        BY <1>1, <4>1 DEF Commands
      <4>4. Carries(d)
        BY <2>1, <2>4, <3>1, <4>3 DEF Carries, Editing
      <4> QED BY <1>1, <1>4, <2>4, <3>3, <4>1, <4>2, <4>4, PutCommand DEF Push
    <3> QED BY <3>2, <3>3
  <2> QED BY <2>2, <2>3, <2>4
<1>5. CASE Record(p)
  BY <1>1, <1>5, RecordTyped DEF Record
<1>6. CASE Reconcile(p)
  <2>1. /\ c.pc = "reconcile" /\ c.name = "restart" /\ c.rev \in Revisions /\ c.todo \subseteq Subs
        /\ c.load \in Subs
    BY <1>1, <1>6 DEF Reconcile, At, Carries
  <2>2. CASE ~c.checked /\ daemon.up
    <3>1. PICK d : d = [c EXCEPT !.checked = TRUE, !.todo = Drifted]
      OBVIOUS
    <3>2. Drifted \subseteq Subs
      BY DEF Drifted, Written
    <3>3. d \in Commands
      BY <1>1, <3>1, <3>2 DEF Commands
    <3>4. d.pc = "reconcile" /\ d.name = "restart" /\ d.rev = c.rev /\ d.load = c.load /\ d.todo = Drifted
      BY <1>1, <2>1, <3>1 DEF Commands
    <3>5. Carries(d)
      BY <2>1, <3>2, <3>4 DEF Carries, Editing
    <3> QED BY <1>1, <1>6, <2>2, <3>1, <3>3, <3>5, PutCommand DEF Reconcile
  <2>3. CASE ~c.checked /\ ~daemon.up
    <3>1. PICK d : d = [c EXCEPT !.pc = "request", !.lost = TRUE]
      OBVIOUS
    <3>2. d \in Commands
      BY <1>1, <3>1 DEF Commands, PCs
    <3>3. d.pc = "request" /\ d.name = "restart" /\ d.load = c.load
      BY <1>1, <2>1, <3>1 DEF Commands
    <3>4. Carries(d)
      BY <2>1, <3>3 DEF Carries, Editing
    <3> QED BY <1>1, <1>6, <2>3, <3>1, <3>2, <3>4, PutCommand DEF Reconcile
  <2>4. CASE c.checked /\ c.todo = {}
    <3>1. Carries([c EXCEPT !.pc = "request"])
      BY <1>1, <2>1 DEF Carries, Commands, Editing
    <3> QED BY <1>1, <1>6, <2>4, <3>1, GotoCommand DEF Reconcile, PCs
  <2>5. CASE c.checked /\ c.todo # {}
    <3>1. PICK s \in c.todo : Set(p, [c EXCEPT !.pc = "record", !.sub = s, !.todo = @ \ {s},
                                               !.file = user.pins[s], !.rev = Base(user.config)])
      BY <1>6, <2>5 DEF Reconcile
    <3>2. PICK d : d = [c EXCEPT !.pc = "record", !.sub = s, !.todo = @ \ {s}, !.file = user.pins[s],
                                 !.rev = Base(user.config)]
      OBVIOUS
    <3>3. s \in Subs /\ user.pins[s] \in Files
      BY <1>1, <2>1, <3>1 DEF Users
    <3>4. d \in Commands
      BY <1>1, <3>2, <3>3 DEF Commands, PCs
    <3>5. /\ d.pc = "record" /\ d.name = "restart" /\ d.sub = s /\ d.rev \in Revisions
          /\ d.load = c.load /\ d.todo \subseteq Subs
      BY <1>1, <2>1, <3>2, <3>3 DEF Commands
    <3>6. Carries(d)
      BY <2>1, <3>3, <3>5 DEF Carries, Editing
    <3> QED BY <1>1, <3>1, <3>2, <3>4, <3>6, PutCommand
  <2>6. c.checked \in BOOLEAN
    BY <1>1 DEF Commands
  <2> QED BY <2>2, <2>3, <2>4, <2>5, <2>6
<1> QED BY <1>2, <1>3, <1>4, <1>5, <1>6

LEMMA LifecycleTyped ==
  ASSUME Typed, NEW p \in Procs,
         \/ Payload(p) \/ Request(p) \/ Promote(p) \/ Start(p) \/ Replay(p) \/ ReplayPut(p)
         \/ Finish(p) \/ ProbeRestore(p) \/ Kill(p)
  PROVE  CmdOK'
<1> DEFINE c == cmd[p]
<1>1. user \in Users /\ mirror \in Mirrors /\ CmdOK /\ c \in Commands /\ Carries(c)
  BY DEF Typed, UserOK, MirrorOK, CmdOK
<1>2. CASE Payload(p)
  <2>1. c.pc = "payload" /\ c.name = "switch"
    BY <1>1, <1>2 DEF Payload, At, Carries
  <2>2. PICK d : d = [c EXCEPT !.pc = "request", !.load = user.config]
    OBVIOUS
  <2>3. d \in Commands /\ d.pc = "request" /\ d.name = "switch" /\ d.load \in Subs
    BY <1>1, <2>1, <2>2 DEF Commands, PCs, Users
  <2>4. Carries(d)
    BY <2>3 DEF Carries, Editing
  <2> QED BY <1>1, <1>2, <2>2, <2>3, <2>4, PutCommand DEF Payload
<1>3. CASE Request(p)
  <2>1. c.pc = "request" /\ c.name \in {"switch", "restart"} /\ c.load \in Subs
    BY <1>1, <1>3 DEF Request, At, Carries
  <2>2. PICK d : d = [c EXCEPT !.pc = "lifecycle", !.sub = user.active, !.rev = None]
    OBVIOUS
  <2>3. d \in Commands /\ d.pc = "lifecycle" /\ d.name = c.name /\ d.load = c.load /\ d.sub \in Subs
    BY <1>1, <2>2 DEF Commands, PCs, Users
  <2>4. Carries(d)
    BY <2>1, <2>3 DEF Carries, Editing
  <2> QED BY <1>1, <1>3, <2>2, <2>3, <2>4, PutCommand DEF Request
<1>4. CASE Promote(p)
  <2>1. c.pc = "lifecycle" /\ c.name \in {"switch", "restart"} /\ c.load \in Subs /\ c.sub \in Subs
    BY <1>1, <1>4 DEF Promote, At, Carries
  <2>2. PICK s \in Subs \cup {None} : s = IF mirror.active = c.sub THEN c.sub ELSE None
    BY <2>1
  <2>3. PICK d : d = [c EXCEPT !.pc = "start", !.sub = s]
    OBVIOUS
  <2>4. d \in Commands /\ d.pc = "start" /\ d.name = c.name /\ d.load = c.load
    BY <1>1, <2>3 DEF Commands, PCs
  <2>5. Carries(d)
    BY <2>1, <2>4 DEF Carries, Editing
  <2>6. Set(p, d) \/ End(p)
    BY <1>4, <2>2, <2>3 DEF Promote
  <2> QED BY <1>1, <2>4, <2>5, <2>6, PutCommand, EndCommand
<1>5. CASE Start(p)
  <2>1. c.pc = "start" /\ c.name \in {"switch", "restart"} /\ c.load \in Subs
    BY <1>1, <1>5 DEF Start, At, Carries
  <2>2. Carries([c EXCEPT !.pc = "finish"])
    BY <1>1, <2>1 DEF Carries, Commands, Editing
  <2>3. c.sub # None => Carries([c EXCEPT !.pc = "replay"])
    BY <1>1, <2>1 DEF Carries, Commands, Editing
  <2>4. PICK d : d = [c EXCEPT !.pc = "finish", !.lost = TRUE]
    OBVIOUS
  <2>5. d \in Commands /\ d.pc = "finish" /\ d.name = c.name /\ d.load = c.load
    BY <1>1, <2>4 DEF Commands, PCs
  <2>6. Carries(d)
    BY <2>1, <2>5 DEF Carries, Editing
  <2>7. Goto(p, "finish") \/ (c.sub # None /\ Goto(p, "replay")) \/ Set(p, d)
    BY <1>5, <2>4 DEF Start
  <2>8. {"finish", "replay"} \subseteq PCs
    BY DEF PCs
  <2> QED BY <1>1, <2>2, <2>3, <2>5, <2>6, <2>7, <2>8, PutCommand, GotoCommand
<1>6. CASE Replay(p)
  <2>1. c.pc = "replay" /\ c.sub \in Subs /\ mirror.map[c.sub] \in Files
    BY <1>1, <1>6 DEF Replay, At, Carries, Mirrors
  <2>2. PICK l \in {"replay put", "finish"} : l = IF core.up THEN "replay put" ELSE "finish"
    OBVIOUS
  <2>3. PICK d : d = [c EXCEPT !.pc = l, !.file = mirror.map[c.sub], !.todo = Pinned(mirror.map[c.sub])]
    OBVIOUS
  <2>4. d \in Commands
    <3>1. l \in PCs /\ Pinned(mirror.map[c.sub]) \in SUBSET (Subs \cup Groups)
      BY <2>2, <2>1, FileFacts DEF PCs
    <3> QED BY <1>1, <2>3, <2>1, <3>1 DEF Commands
  <2>5. /\ d.pc = l /\ d.name = c.name /\ d.load = c.load /\ d.sub = c.sub
        /\ d.todo = Pinned(d.file)
    BY <1>1, <2>3 DEF Commands
  <2>6. Carries(d)
    BY <1>1, <2>2, <2>1, <2>5 DEF Carries, Editing
  <2> QED BY <1>1, <1>6, <2>2, <2>3, <2>4, <2>6, PutCommand DEF Replay
<1>7. CASE ReplayPut(p)
  <2>1. c.pc = "replay put" /\ c.sub \in Subs /\ c.todo \subseteq Pinned(c.file)
    BY <1>1, <1>7 DEF ReplayPut, At, Carries
  <2>2. CASE c.todo = {}
    <3>1. Carries([c EXCEPT !.pc = "finish"])
      BY <1>1, <2>1 DEF Carries, Commands, Editing
    <3> QED BY <1>1, <1>7, <2>2, <3>1, GotoCommand DEF ReplayPut, PCs
  <2>3. CASE c.todo # {}
    <3>1. PICK g \in c.todo : \/ Set(p, [c EXCEPT !.todo = @ \ {g}])
                              \/ Set(p, [c EXCEPT !.todo = @ \ {g}, !.lost = TRUE])
      BY <1>7, <2>3 DEF ReplayPut
    <3>2. PICK d : d = [c EXCEPT !.todo = @ \ {g}]
      OBVIOUS
    <3>3. PICK e : e = [c EXCEPT !.todo = @ \ {g}, !.lost = TRUE]
      OBVIOUS
    <3>4. /\ d \in Commands /\ d.pc = "replay put" /\ d.name = c.name /\ d.load = c.load
          /\ d.sub = c.sub /\ d.file = c.file /\ d.todo = c.todo \ {g}
      BY <1>1, <2>1, <3>2 DEF Commands
    <3>5. /\ e \in Commands /\ e.pc = "replay put" /\ e.name = c.name /\ e.load = c.load
          /\ e.sub = c.sub /\ e.file = c.file /\ e.todo = c.todo \ {g}
      BY <1>1, <2>1, <3>3 DEF Commands
    <3>6. Carries(d) /\ Carries(e)
      BY <1>1, <2>1, <3>4, <3>5 DEF Carries, Editing
    <3> QED BY <1>1, <3>1, <3>2, <3>3, <3>4, <3>5, <3>6, PutCommand
  <2> QED BY <2>2, <2>3
<1>8. CASE Finish(p) \/ ProbeRestore(p) \/ Kill(p)
  BY <1>1, <1>8, EndCommand DEF Finish, ProbeRestore, Kill
<1> QED BY <1>2, <1>3, <1>4, <1>5, <1>6, <1>7, <1>8

LEMMA CrashTyped == ASSUME Typed, Crash PROVE CmdOK'
<1>1. CmdOK
  BY DEF Typed
<1>2. \A p \in Procs : cmd'[p] = Idle \/ cmd'[p] = cmd[p]
  BY DEF Crash
<1>3. cmd' = [p \in Procs |-> cmd'[p]]
  BY DEF Crash
<1>4. \A p \in Procs : cmd'[p] \in Commands /\ Carries(cmd'[p])
  BY <1>1, <1>2, IdleCommand DEF CmdOK
<1> QED BY <1>3, <1>4 DEF CmdOK

-----------------------------------------------------------------------------
(* Types: the rest of the state.                                           *)

Invoked(p) == \/ SelectCommand(p) \/ Restart(p) \/ Stop(p)
              \/ \E g \in Groups, n \in Nodes : Probe(p, g, n)
              \/ \E s \in Subs : Switch(p, s)
Acts(p) == Invoked(p) \/ CommandStep(p) \/ Kill(p)
Sampler == SampleBegin \/ SampleFetch \/ SampleCompare \/ SamplePublish

LEMMA NextCases == Next <=> (\E p \in Procs : Acts(p)) \/ Sampler \/ Crash \/ Boot
BY DEF Next, Acts, Invoked, Sampler

\* What a step of a command may do to the user's files.
LEMMA UserSteps ==
  ASSUME Typed, NEW p \in Procs, Acts(p)
  PROVE  \/ UNCHANGED user
         \/ \E s \in Subs : Switch(p, s) /\ user' = [user EXCEPT !.active = s, !.config = s]
         \/ /\ Save(p) /\ At(p, "save")
            /\ user' = [user EXCEPT !.pins[cmd[p].sub] = Edited(cmd[p])]
<1>1. CASE \E s \in Subs : Switch(p, s)
  BY <1>1 DEF Switch
<1>2. CASE Save(p)
  <2>1. cmd[p].name \in {"select", "unpin"}
    BY <1>2 DEF Typed, CmdOK, Carries, Editing, Save, At
  <2> QED BY <1>2, <2>1 DEF Save
<1>3. CASE ~(\E s \in Subs : Switch(p, s)) /\ ~Save(p)
  BY <1>3 DEF Acts, Invoked, SelectCommand, Select, Unpin, Restart, Stop, Probe, CommandStep,
              SelectOpen, SelectPut, SelectAttest, UnpinLock, Load, Undo, ReadActive, RecordActive,
              Push, Record, Reconcile, Payload, Request, Promote, Start, Replay, ReplayPut, Finish,
              ProbeRestore, Kill
<1> QED BY <1>1, <1>2, <1>3

LEMMA EditedTyped ==
  ASSUME NEW c \in Commands
  PROVE  Edited(c) \in Pins /\ \A g \in Groups \ About(c) : Edited(c)[g] = Content(c.file)[g]
<1>1. Content(c.file) \in Pins /\ c.node \in Nodes \cup {None}
  BY FileFacts DEF Commands
<1> QED BY <1>1 DEF Edited, Pins

LEMMA UserTyped ==
  ASSUME Typed, NEW p \in Procs, Acts(p)
  PROVE  UserOK'
<1>1. user \in Users /\ cmd[p] \in Commands /\ Carries(cmd[p])
  BY DEF Typed, UserOK, CmdOK
<1>2. CASE UNCHANGED user
  BY <1>1, <1>2 DEF UserOK
<1>3. CASE \E s \in Subs : user' = [user EXCEPT !.active = s, !.config = s]
  BY <1>1, <1>3 DEF UserOK, Users
<1>4. CASE At(p, "save") /\ user' = [user EXCEPT !.pins[cmd[p].sub] = Edited(cmd[p])]
  <2>1. cmd[p].sub \in Subs
    BY <1>1, <1>4 DEF At, Carries, Editing
  <2>2. Edited(cmd[p]) \in Files
    BY <1>1, <2>1, EditedTyped DEF Files
  <2> QED BY <1>1, <1>4, <2>1, <2>2 DEF UserOK, Users
<1> QED BY <1>2, <1>3, <1>4, UserSteps

\* The lock is taken when free, and let go of by who has it.
LockMoves(p) ==
  \/ lock' = lock
  \/ lock' = None /\ (lock = p \/ At(p, "save"))
  \/ lock = None /\ lock' = p

LEMMA LockTyped ==
  ASSUME Typed, NEW p \in Procs, Acts(p)
  PROVE  LockOK' /\ LockMoves(p)
<1>1. LockOK
  BY DEF Typed
<1>2. LockMoves(p)
  <2>1. CASE Invoked(p)
    BY <2>1 DEF Invoked, SelectCommand, Select, Unpin, Restart, Stop, Probe, Switch, Begin, LockMoves
  <2>2. CASE SelectOpen(p) \/ SelectPut(p) \/ SelectAttest(p) \/ UnpinLock(p) \/ Load(p) \/ Undo(p)
    BY <2>2 DEF SelectOpen, SelectPut, SelectAttest, UnpinLock, Load, Undo, End, LockMoves
  <2>3. CASE Save(p)
    <3>1. cmd[p].name \in {"select", "unpin"}
      BY <2>3 DEF Typed, CmdOK, Carries, Editing, Save, At
    <3> QED BY <2>3, <3>1 DEF Save, End, At, LockMoves
  <2>4. CASE Push(p) \/ Record(p)
    <3>1. cmd[p].name \in {"select", "unpin", "switch", "restart"}
      BY <2>4 DEF Typed, CmdOK, Carries, Push, Record, At
    <3>2. ASSUME NEW c, AfterPush(p, c), c.name \in {"select", "unpin", "switch", "restart"}
          PROVE  LockMoves(p)
      BY <3>2 DEF AfterPush, End, LockMoves
    <3>3. CASE Push(p)
      BY <3>1, <3>2, <3>3 DEF Push, LockMoves
    <3>4. CASE Record(p)
      <4>1. PICK failed \in BOOLEAN : AfterRecord(p, failed)
        BY <3>4 DEF Record
      <4>2. CASE cmd[p].name = "restart"
        <5>1. PICK c : AfterPush(p, c) /\ c.name = "restart"
          <6>1. [cmd[p] EXCEPT !.pc = IF cmd[p].checked THEN "reconcile" ELSE "push", !.file = Absent,
                               !.lost = @ \/ (failed /\ cmd[p].checked)].name = "restart"
            BY <4>2 DEF Typed, CmdOK, Commands
          <6> QED BY <4>1, <4>2, <6>1 DEF AfterRecord
        <5> QED BY <3>2, <5>1
      <4>3. CASE cmd[p].name # "restart"
        BY <3>1, <3>2, <4>1, <4>3 DEF AfterRecord
      <4> QED BY <4>2, <4>3
    <3> QED BY <2>4, <3>3, <3>4
  <2>5. CASE ReadActive(p) \/ RecordActive(p) \/ Reconcile(p) \/ Payload(p) \/ Request(p) \/ Promote(p)
             \/ Start(p) \/ Replay(p) \/ ReplayPut(p) \/ Finish(p) \/ ProbeRestore(p) \/ Kill(p)
    BY <2>5 DEF ReadActive, RecordActive, Reconcile, Payload, Request, Promote, Start, Replay,
                ReplayPut, Finish, ProbeRestore, Kill, End, LockMoves
  <2> QED BY <2>1, <2>2, <2>3, <2>4, <2>5 DEF Acts, CommandStep
<1> QED BY <1>1, <1>2 DEF LockOK, LockMoves

LEMMA MirrorTyped ==
  ASSUME Typed, NEW p \in Procs, Acts(p)
  PROVE  MirrorOK'
<1>1. mirror \in Mirrors /\ cmd[p] \in Commands /\ Carries(cmd[p])
  BY DEF Typed, MirrorOK, CmdOK
<1>2. CASE RecordActive(p)
  <2>1. cmd[p].sub \in Subs /\ Bound(cmd[p]) \in Bindings
    BY <1>1, <1>2 DEF RecordActive, At, Carries, Bound, Bindings
  <2> QED BY <1>1, <1>2, <2>1 DEF RecordActive, MirrorOK, Mirrors
<1>3. CASE Record(p)
  <2>1. cmd[p].sub \in Subs /\ Bound(cmd[p]) \in Bindings /\ cmd[p].file \in Files
    BY <1>1, <1>3 DEF Record, At, Carries, Bound, Bindings, Commands
  <2>2. \/ mirror' = [mirror EXCEPT !.bind = Bound(cmd[p]), !.map[cmd[p].sub] = cmd[p].file]
        \/ mirror' = [mirror EXCEPT !.bind = Bound(cmd[p])]
        \/ UNCHANGED mirror
    BY <1>3 DEF Record
  <2>3. CASE mirror' = [mirror EXCEPT !.bind = Bound(cmd[p]), !.map[cmd[p].sub] = cmd[p].file]
    <3>1. [mirror.map EXCEPT ![cmd[p].sub] = cmd[p].file] \in [Subs -> Files]
      BY <1>1, <2>1 DEF Mirrors
    <3>2. mirror' = [mirror EXCEPT !.bind = Bound(cmd[p]),
                                  !.map = [mirror.map EXCEPT ![cmd[p].sub] = cmd[p].file]]
      BY <1>1, <2>3 DEF Mirrors
    <3> QED BY <1>1, <2>1, <3>1, <3>2 DEF MirrorOK, Mirrors
  <2>4. CASE mirror' = [mirror EXCEPT !.bind = Bound(cmd[p])] \/ UNCHANGED mirror
    BY <1>1, <2>1, <2>4 DEF MirrorOK, Mirrors
  <2> QED BY <2>2, <2>3, <2>4
<1>4. CASE ~RecordActive(p) /\ ~Record(p)
  <2>1. UNCHANGED mirror
    BY <1>4 DEF Acts, Invoked, SelectCommand, Select, Unpin, Restart, Stop, Probe, Switch, CommandStep,
                SelectOpen, SelectPut, SelectAttest, UnpinLock, Load, Save, Undo, ReadActive, Push,
                Reconcile, Payload, Request, Promote, Start, Replay, ReplayPut, Finish, ProbeRestore, Kill
  <2> QED BY <1>1, <2>1 DEF MirrorOK
<1> QED BY <1>2, <1>3, <1>4

LEMMA CoreTyped ==
  ASSUME Typed, NEW p \in Procs, Acts(p)
  PROVE  CoreOK'
<1> DEFINE c == cmd[p]
<1>1. core \in Cores /\ c \in Commands /\ Carries(c) /\ HistoryOK
  BY DEF Typed, CoreOK, CmdOK
<1>2. ASSUME NEW g \in Groups, NEW n \in Nodes
      PROVE  [core EXCEPT !.now[g] = n] \in Cores
  BY <1>1 DEF Cores
<1>3. CASE Stop(p)
  BY <1>1, <1>3 DEF Stop, CoreOK, Cores
<1>4. CASE \E g \in Groups, n \in Nodes : Probe(p, g, n)
  BY <1>2, <1>4 DEF Probe, CoreOK
<1>5. CASE SelectPut(p)
  <2>1. c.group \in Groups /\ c.node \in Nodes
    BY <1>1, <1>5 DEF SelectPut, At, Carries, Editing
  <2> QED BY <1>1, <1>2, <1>5, <2>1 DEF SelectPut, CoreOK
<1>6. CASE Undo(p)
  <2>1. c.group \in Groups /\ Content(c.file)[c.group] \in Nodes \cup {None}
    BY <1>1, <1>6, FileFacts DEF Undo, At, Carries, Editing, Commands, Pins
  <2> QED BY <1>1, <1>2, <1>6, <2>1 DEF Undo, CoreOK
<1>7. CASE Start(p)
  <2>1. c.load \in Subs
    BY <1>1, <1>7 DEF Start, At, Carries
  <2>2. PICK now \in [Groups -> Nodes] : \/ core' = [up |-> TRUE, sub |-> c.load, now |-> now]
                                        \/ core' = [core EXCEPT !.up = TRUE, !.now = now]
    <3>1. core.now \in [Groups -> Nodes]
      BY <1>1 DEF Cores
    <3> QED BY <1>7, <3>1 DEF Start
  <2>3. [up |-> TRUE, sub |-> c.load, now |-> now] \in Cores /\ [core EXCEPT !.up = TRUE, !.now = now] \in Cores
    BY <1>1, <2>1 DEF Cores
  <2> QED BY <2>2, <2>3 DEF CoreOK
<1>8. CASE ReplayPut(p)
  <2>1. c.todo \subseteq Pinned(c.file) /\ c.file \in Files
    BY <1>1, <1>8 DEF ReplayPut, At, Carries, Commands
  <2>2. \/ UNCHANGED core
        \/ \E g \in c.todo : core' = [core EXCEPT !.now[g] = c.file[g]]
    BY <1>8 DEF ReplayPut
  <2> QED BY <1>1, <1>2, <2>1, <2>2, FileFacts DEF CoreOK
<1>9. CASE ProbeRestore(p)
  <2>1. c.group \in Groups /\ c.node \in Nodes
    BY <1>1, <1>9 DEF ProbeRestore, At, Carries
  <2> QED BY <1>1, <1>2, <1>9, <2>1 DEF ProbeRestore, CoreOK
<1>10. CASE /\ ~Stop(p) /\ ~(\E g \in Groups, n \in Nodes : Probe(p, g, n))
            /\ ~SelectPut(p) /\ ~Undo(p) /\ ~Start(p) /\ ~ReplayPut(p) /\ ~ProbeRestore(p)
  <2>1. UNCHANGED core
    BY <1>10 DEF Acts, Invoked, SelectCommand, Select, Unpin, Restart, Switch, CommandStep,
                 SelectOpen, SelectAttest, UnpinLock, Load, Save, ReadActive, RecordActive, Push,
                 Record, Reconcile, Payload, Request, Promote, Replay, Finish, Kill
  <2> QED BY <1>1, <2>1 DEF CoreOK
<1> QED BY <1>3, <1>4, <1>5, <1>6, <1>7, <1>8, <1>9, <1>10

LEMMA DaemonTyped ==
  ASSUME Typed, NEW p \in Procs, Acts(p)
  PROVE  DaemonOK' /\ daemon'.up = daemon.up
<1>1. daemon \in Daemons /\ mirror \in Mirrors
  BY DEF Typed, DaemonOK, MirrorOK
<1>2. NoSegment \in [open : BOOLEAN, owner : Subs \cup {None}]
  BY DEF NoSegment
<1>3. ASSUME Guarded \/ Unguarded PROVE DaemonOK' /\ daemon'.up = daemon.up
  <2>1. [open |-> TRUE, owner |-> mirror.active] \in [open : BOOLEAN, owner : Subs \cup {None}]
    BY <1>1 DEF Mirrors
  <2> QED BY <1>1, <1>2, <1>3, <2>1 DEF Guarded, Unguarded, DaemonOK, Daemons
<1>4. CASE SelectOpen(p) \/ SelectPut(p) \/ SelectAttest(p) \/ Undo(p)
  <2>1. Guarded \/ Unguarded \/ UNCHANGED daemon
    BY <1>4 DEF SelectOpen, SelectPut, SelectAttest, Undo
  <2> QED BY <1>1, <1>3, <2>1 DEF DaemonOK
<1>5. CASE Record(p)
  <2>1. SegmentAfter(cmd[p].sub) \in [open : BOOLEAN, owner : Subs \cup {None}]
    BY <1>1, <1>2 DEF SegmentAfter, Daemons
  <2>2. daemon' = [daemon EXCEPT !.segment = SegmentAfter(cmd[p].sub)] \/ UNCHANGED daemon
    BY <1>5 DEF Record
  <2> QED BY <1>1, <2>1, <2>2 DEF DaemonOK, Daemons
<1>6. CASE Promote(p) \/ Finish(p)
  <2>1. daemon' = [daemon EXCEPT !.owner = p] \/ daemon' = [daemon EXCEPT !.owner = None]
        \/ UNCHANGED daemon
    BY <1>6 DEF Promote, Finish
  <2> QED BY <1>1, <2>1 DEF DaemonOK, Daemons
<1>7. CASE /\ ~SelectOpen(p) /\ ~SelectPut(p) /\ ~SelectAttest(p) /\ ~Undo(p) /\ ~Record(p)
           /\ ~Promote(p) /\ ~Finish(p)
  <2>1. UNCHANGED daemon
    BY <1>7 DEF Acts, Invoked, SelectCommand, Select, Unpin, Restart, Stop, Probe, Switch, CommandStep,
                UnpinLock, Load, Save, ReadActive, RecordActive, Push, Reconcile, Payload, Request,
                Start, Replay, ReplayPut, ProbeRestore, Kill
  <2> QED BY <1>1, <2>1 DEF DaemonOK
<1> QED BY <1>4, <1>5, <1>6, <1>7

LEMMA SampleStep ==
  ASSUME NEW p \in Procs, Acts(p)
  PROVE  Moved \/ UNCHANGED sample
BY DEF Acts, Invoked, SelectCommand, Select, Unpin, Restart, Stop, Probe, Switch, CommandStep,
       SelectOpen, SelectPut, SelectAttest, UnpinLock, Load, Save, Undo, ReadActive, RecordActive,
       Push, Record, Reconcile, Payload, Request, Promote, Start, Replay, ReplayPut, Finish,
       ProbeRestore, Kill

LEMMA NoSampleTyped == NoSample \in Samples /\ NoSample.pc = "idle"
BY FileFacts DEF NoSample, Samples

\* Only an invocation changes who runs alone.
LEMMA HistoryTyped ==
  ASSUME Typed, NEW p \in Procs, Acts(p)
  PROVE  /\ HistoryOK'
         /\ UNCHANGED history.alone \/ \E c : Begin(p, c)
         /\ ~Invoked(p) => UNCHANGED history.alone
<1>1. history \in Histories
  BY DEF Typed, HistoryOK
<1>2. ASSUME NEW c, Begin(p, c) PROVE HistoryOK'
  <2>1. PICK a \in [Procs -> BOOLEAN] : history' = [history EXCEPT !.commands = @ + 1, !.alone = a]
    BY <1>2 DEF Begin
  <2>2. history.commands + 1 \in 0..MaxCommands
    BY <1>1, <1>2, BoundsAssumption DEF Begin, Histories
  <2> QED BY <1>1, <2>1, <2>2 DEF HistoryOK, Histories
<1>3. ASSUME Fault PROVE HistoryOK' /\ UNCHANGED history.alone
  BY <1>1, <1>3, BoundsAssumption DEF Fault, HistoryOK, Histories
<1>4. CASE Invoked(p)
  <2>1. \E c : Begin(p, c)
    BY <1>4 DEF Invoked, SelectCommand, Select, Unpin, Restart, Stop, Probe, Switch
  <2> QED BY <1>2, <1>4, <2>1
<1>5. CASE CommandStep(p) \/ Kill(p)
  <2>1. Fault \/ UNCHANGED history
    <3>1. CASE Save(p)
      <4>1. cmd[p].name \in {"select", "unpin"}
        BY <3>1 DEF Typed, CmdOK, Carries, Editing, Save, At
      <4> QED BY <3>1, <4>1 DEF Save
    <3>2. CASE ~Save(p)
      BY <1>5, <3>2 DEF CommandStep, SelectOpen, SelectPut, SelectAttest, UnpinLock, Load, Undo,
         ReadActive, RecordActive, Push, Record, Reconcile, Payload, Request, Promote, Start, Replay,
         ReplayPut, Finish, ProbeRestore, Kill
    <3> QED BY <3>1, <3>2
  <2>2. HistoryOK' /\ UNCHANGED history.alone
    BY <1>1, <1>3, <2>1 DEF HistoryOK
  <2> QED BY <1>1, <1>5, <2>2
<1> QED BY <1>4, <1>5 DEF Acts

LEMMA CommandTyped == ASSUME Typed, NEW p \in Procs, Acts(p) PROVE CmdOK'
BY InvokeTyped, SelectTyped, PushTyped, LifecycleTyped DEF Acts, Invoked, CommandStep

LEMMA SamplerTyped == ASSUME Typed, Sampler PROVE Typed'
<1>1. sample \in Samples /\ core \in Cores /\ mirror \in Mirrors
  BY DEF Typed, SampleOK, CoreOK, MirrorOK
<1>2. sample' \in Samples
  <2>1. CASE SampleBegin
    BY <1>1, <2>1, NoSampleTyped DEF SampleBegin, Samples
  <2>2. CASE SampleFetch
    <3>1. core.now \in Pins
      BY <1>1 DEF Cores, Pins
    <3> QED BY <1>1, <2>2, <3>1, NoSampleTyped DEF SampleFetch, Samples
  <2>3. CASE SampleCompare
    <3>1. Differences(mirror.map[mirror.active], sample.now) \in SUBSET Drifts
      BY DEF Differences
    <3>2. PICK ds \in SUBSET Drifts : ds = Differences(mirror.map[mirror.active], sample.now)
      BY <3>1
    <3>3. sample' = NoSample
          \/ sample' = [sample EXCEPT !.pc = "publish", !.now = Unpinned, !.drifts = ds]
      BY <2>3, <3>2 DEF SampleCompare
    <3> QED BY <1>1, <3>3, NoSampleTyped, FileFacts DEF Samples
  <2>4. CASE SamplePublish
    BY <2>4, NoSampleTyped DEF SamplePublish
  <2> QED BY <2>1, <2>2, <2>3, <2>4 DEF Sampler
<1>3. UNCHANGED <<user, lock, mirror, core, daemon, cmd, history>>
  BY DEF Sampler, SampleBegin, SampleFetch, SampleCompare, SamplePublish
<1> QED BY <1>2, <1>3 DEF Typed, UserOK, LockOK, MirrorOK, CoreOK, DaemonOK, SampleOK, CmdOK, HistoryOK

LEMMA CrashRestTyped == ASSUME Typed, Crash PROVE Typed'
<1>1. core \in Cores /\ HistoryOK /\ LockOK
  BY DEF Typed, CoreOK
<1>2. CmdOK'
  BY CrashTyped
<1>3. HistoryOK'
  BY <1>1, BoundsAssumption DEF Crash, Fault, HistoryOK, Histories
<1>4. DaemonOK'
  BY DEF Crash, NoSegment, DaemonOK, Daemons
<1>5. CoreOK'
  BY <1>1 DEF Crash, CoreOK, Cores
<1>6. LockOK'
  BY <1>1 DEF Crash, LockOK
<1>7. SampleOK'
  BY NoSampleTyped DEF Crash, SampleOK
<1> QED BY <1>2, <1>3, <1>4, <1>5, <1>6, <1>7 DEF Crash, Typed, UserOK, MirrorOK

LEMMA BootTyped == ASSUME Typed, Boot PROVE Typed'
<1>1. core \in Cores /\ mirror \in Mirrors /\ DaemonOK
  BY DEF Typed, CoreOK, MirrorOK
<1>2. PICK started \in BOOLEAN, now \in [Groups -> Nodes] :
        core' = [core EXCEPT !.up = @ \/ started,
                             !.now = IF (core.up \/ started) /\ Admitted THEN Restored(now) ELSE now]
  BY DEF Boot
<1>3. ASSUME Admitted PROVE Restored(now) \in [Groups -> Nodes]
  <2> DEFINE file == mirror.map[mirror.active]
  <2>1. file \in Files
    BY <1>1, <1>3 DEF Admitted, Mirrors
  <2>2. ASSUME NEW g \in Groups, Content(file)[g] # None PROVE file[g] \in Nodes
    BY <2>1, <2>2, FileFacts DEF Pinned
  <2> QED BY <2>2 DEF Restored
<1>4. PICK n \in [Groups -> Nodes] :
        n = IF (core.up \/ started) /\ Admitted THEN Restored(now) ELSE now
  BY <1>3
<1>5. PICK u \in BOOLEAN : u = (core.up \/ started)
  OBVIOUS
<1>6. core' = [core EXCEPT !.up = u, !.now = n]
  BY <1>2, <1>4, <1>5
<1>7. CoreOK'
  BY <1>1, <1>6 DEF CoreOK, Cores
<1>8. DaemonOK'
  BY <1>1 DEF Boot, DaemonOK, Daemons
<1> QED BY <1>7, <1>8 DEF Boot, Typed, UserOK, LockOK, MirrorOK, SampleOK, CmdOK, HistoryOK

LEMMA TypedStep == ASSUME Typed, Next PROVE Typed'
<1>1. ASSUME NEW p \in Procs, Acts(p) PROVE Typed'
  <2>1. SampleOK'
    BY <1>1, SampleStep, NoSampleTyped DEF Typed, SampleOK, Moved
  <2> QED BY <1>1, <2>1, UserTyped, LockTyped, MirrorTyped, CoreTyped, DaemonTyped, HistoryTyped,
             CommandTyped DEF Typed
<1> QED BY <1>1, NextCases, SamplerTyped, CrashRestTyped, BootTyped

-----------------------------------------------------------------------------
(* Where a step takes a command.                                           *)

\* The steps of the others are left as they are.
LEMMA OthersStay ==
  ASSUME CmdOK, NEW p \in Procs, Acts(p)
  PROVE  \A q \in Procs \ {p} : cmd'[q] = cmd[q]
<1>1. \E c : Set(p, c)
  <2>1. CASE Save(p)
    <3>1. cmd[p].name \in {"select", "unpin"}
      BY <2>1 DEF CmdOK, Carries, Editing, Save, At
    <3> QED BY <2>1, <3>1 DEF Save, End, Goto
  <2>2. CASE Push(p) \/ Record(p)
    <3>1. cmd[p].name \in {"select", "unpin", "switch", "restart"} /\ cmd[p] \in Commands
      BY <2>2 DEF CmdOK, Carries, Push, Record, At
    <3>2. ASSUME NEW c, AfterPush(p, c), c.name \in {"select", "unpin", "switch", "restart"}
          PROVE  \E d : Set(p, d)
      BY <3>2 DEF AfterPush, End
    <3>3. CASE Push(p)
      BY <3>1, <3>2, <3>3 DEF Push, Goto
    <3>4. CASE Record(p)
      <4>1. PICK failed \in BOOLEAN : AfterRecord(p, failed)
        BY <3>4 DEF Record
      <4>2. CASE cmd[p].name = "restart"
        <5>1. [cmd[p] EXCEPT !.pc = IF cmd[p].checked THEN "reconcile" ELSE "push", !.file = Absent,
                             !.lost = @ \/ (failed /\ cmd[p].checked)].name = "restart"
          BY <3>1, <4>2 DEF Commands
        <5> QED BY <3>2, <4>1, <4>2, <5>1 DEF AfterRecord
      <4>3. CASE cmd[p].name # "restart"
        BY <3>1, <3>2, <4>1, <4>3 DEF AfterRecord
      <4> QED BY <4>2, <4>3
    <3> QED BY <2>2, <3>3, <3>4
  <2>3. CASE ~Save(p) /\ ~Push(p) /\ ~Record(p)
    BY <2>3 DEF Acts, Invoked, SelectCommand, Select, Unpin, Restart, Stop, Probe, Switch, CommandStep,
       Begin, SelectOpen, SelectPut, SelectAttest, UnpinLock, Load, Undo, ReadActive, RecordActive,
       Reconcile, Payload, Request, Promote, Start, Replay, ReplayPut, Finish, ProbeRestore, Kill,
       End, Goto
  <2> QED BY <2>1, <2>2, <2>3
<1> QED BY <1>1 DEF Set, CmdOK

LEMMA SetMove ==
  ASSUME CmdOK, NEW p \in Procs, NEW c, Set(p, c)
  PROVE  cmd'[p] = c
BY DEF CmdOK, Set

LEMMA GotoMove ==
  ASSUME CmdOK, NEW p \in Procs, NEW l, Goto(p, l)
  PROVE  cmd'[p] = [cmd[p] EXCEPT !.pc = l] /\ cmd'[p].pc = l
BY DEF CmdOK, Goto, Set, Commands

LEMMA EndMove ==
  ASSUME CmdOK, NEW p \in Procs, End(p)
  PROVE  cmd'[p] = Idle /\ cmd'[p].pc = "idle"
BY IdleCommand DEF CmdOK, End, Set

\* Into the daemon by a bracket that opens while it is up, into the lock by the lock.
Enters(p) ==
  /\ cmd'[p].pc \in InDaemon => cmd[p].pc \in InDaemon \/ (daemon.up /\ Moved)
  /\ cmd'[p].pc \in Owning /\ (lock = p \/ cmd[p].pc \notin Owning) => lock' = p
  /\ cmd'[p].pc = "save" => Load(p)

LEMMA InvokedEnters ==
  ASSUME CmdOK, NEW p \in Procs, Invoked(p)
  PROVE  Enters(p)
<1>1. ASSUME NEW c, Begin(p, c) PROVE cmd'[p] = c
  BY <1>1, SetMove DEF Begin
<1>2. CASE \E g \in Groups \cup {None} : Unpin(p, g)
  <2>1. cmd'[p].pc = "lock"
    BY <1>1, <1>2 DEF Unpin, Idle
  <2> QED BY <2>1 DEF Enters, InDaemon, Owning
<1>3. CASE \E g \in Groups, n \in Nodes : Select(p, g, n)
  <2>1. cmd'[p].pc = "open" /\ lock' = p
    BY <1>1, <1>3 DEF Select, Idle
  <2> QED BY <2>1 DEF Enters, InDaemon, Owning
<1>4. CASE Restart(p) \/ \E s \in Subs : Switch(p, s)
  <2>1. cmd'[p].pc = "read active"
    BY <1>1, <1>4 DEF Restart, Switch, Idle
  <2> QED BY <2>1 DEF Enters, InDaemon, Owning
<1>5. CASE Stop(p) \/ \E g \in Groups, n \in Nodes : Probe(p, g, n)
  <2>1. cmd'[p].pc \in {"idle", "probe"}
    <3>1. CASE Stop(p)
      BY <1>1, <3>1, IdleCommand DEF Stop
    <3>2. CASE \E g \in Groups, n \in Nodes : Probe(p, g, n)
      <4>1. PICK g \in Groups, n \in Nodes : Probe(p, g, n)
        BY <3>2
      <4>2. PICK d : d = [Idle EXCEPT !.pc = "probe", !.name = "probe", !.group = g, !.node = core.now[g]]
        OBVIOUS
      <4>3. d.pc = "probe" /\ Begin(p, d)
        BY <4>1, <4>2 DEF Probe, Idle
      <4> QED BY <1>1, <4>3
    <3> QED BY <1>5, <3>1, <3>2
  <2> QED BY <2>1 DEF Enters, InDaemon, Owning
<1> QED BY <1>2, <1>3, <1>4, <1>5 DEF Invoked, SelectCommand

LEMMA AfterPushMove ==
  ASSUME CmdOK, NEW p \in Procs, NEW c \in Commands, AfterPush(p, c),
         c.name \in {"select", "unpin", "switch", "restart"}
  PROVE  cmd'[p].pc \in {"idle", "payload", c.pc}
BY EndMove, SetMove DEF AfterPush, Commands

LEMMA CommandEnters ==
  ASSUME Typed, NEW p \in Procs, CommandStep(p) \/ Kill(p)
  PROVE  Enters(p)
<1> DEFINE c == cmd[p]
<1>1. CmdOK /\ c \in Commands /\ Carries(c)
  BY DEF Typed, CmdOK
<1>2. CASE SelectOpen(p)
  <2>1. CASE daemon.up /\ core.up
    <3>1. cmd'[p].pc = "put" /\ Moved /\ lock' = lock /\ c.pc = "open"
      BY <1>1, <1>2, <2>1, GotoMove DEF SelectOpen, At
    <3> QED BY <2>1, <3>1 DEF Enters, Owning
  <2>2. CASE ~(daemon.up /\ core.up)
    BY <1>1, <1>2, <2>2, EndMove DEF SelectOpen, Enters, Owning, InDaemon
  <2> QED BY <2>1, <2>2
<1>3. CASE SelectPut(p) \/ SelectAttest(p)
  <2>1. c.pc \in {"put", "attest"}
    BY <1>3 DEF SelectPut, SelectAttest, At
  <2>2. cmd'[p].pc = "idle" \/ (cmd'[p].pc \in {"attest", "load"} /\ lock' = lock)
    BY <1>1, <1>3, EndMove, GotoMove DEF SelectPut, SelectAttest
  <2> QED BY <2>1, <2>2 DEF Enters, Owning, InDaemon
<1>4. CASE UnpinLock(p)
  <2>1. cmd'[p].pc = "load" /\ lock' = p
    BY <1>1, <1>4, GotoMove DEF UnpinLock
  <2> QED BY <2>1 DEF Enters, InDaemon
<1>5. CASE Load(p)
  <2>1. c.pc = "load" /\ cmd'[p].pc = "save" /\ lock' = lock
    BY <1>1, <1>5, SetMove DEF Load, At, Commands
  <2> QED BY <1>5, <2>1 DEF Enters, Owning, InDaemon
<1>6. CASE Save(p)
  <2>1. c.name \in {"select", "unpin"} /\ c.pc = "save"
    BY <1>1, <1>6 DEF Carries, Editing, Save, At
  <2>2. Saved(c) \in Commands /\ Saved(c).pc = "push"
    BY <1>1, FileFacts DEF Saved, Commands, PCs
  <2>3. [Saved(c) EXCEPT !.sub = user.active].pc = "push"
    BY <2>2 DEF Commands
  <2>4. \/ cmd'[p].pc \in {"idle", "push"}
        \/ cmd'[p].pc = "undo" /\ lock' = lock
    BY <1>1, <1>6, <2>1, <2>2, <2>3, EndMove, SetMove, GotoMove DEF Save
  <2> QED BY <2>1, <2>4 DEF Enters, Owning, InDaemon
<1>7. CASE Undo(p)
  <2>1. cmd'[p].pc = "push"
    BY <1>1, <1>7, SetMove DEF Undo, Saved, Commands
  <2> QED BY <2>1 DEF Enters, Owning, InDaemon
<1>8. CASE ReadActive(p) \/ RecordActive(p)
  <2>1. cmd'[p].pc \in {"record active", "push", "payload", "request"}
    <3>1. CASE ReadActive(p)
      BY <1>1, <3>1 DEF ReadActive, Set, CmdOK, Commands
    <3>2. CASE RecordActive(p)
      <4>1. PICK t : t = IF c.name = "restart" THEN Written ELSE {}
        OBVIOUS
      <4>2. PICK l \in {"payload", "request"} : l = IF c.name = "switch" THEN "payload" ELSE "request"
        OBVIOUS
      <4>3. \/ Set(p, [c EXCEPT !.pc = "push", !.todo = t])
            \/ Set(p, [c EXCEPT !.pc = l, !.lost = TRUE])
        BY <3>2, <4>1, <4>2 DEF RecordActive
      <4> QED BY <1>1, <4>2, <4>3 DEF Set, CmdOK, Commands
    <3> QED BY <1>8, <3>1, <3>2
  <2> QED BY <2>1 DEF Enters, Owning, InDaemon
<1>9. CASE Push(p)
  <2>1. c.pc = "push" /\ c.name \in {"select", "unpin", "switch", "restart"}
    BY <1>1, <1>9 DEF Push, At, Carries
  <2>2. cmd'[p].pc \in {"reconcile", "record", "idle", "payload", "push"}
    <3>1. CASE Goto(p, "reconcile") \/ AfterPush(p, c)
      BY <1>1, <2>1, <3>1, AfterPushMove, GotoMove
    <3>2. CASE \E s \in c.todo : Set(p, [c EXCEPT !.pc = "record", !.sub = s, !.todo = @ \ {s},
                                                  !.file = user.pins[s]])
      BY <1>1, <3>2 DEF Set, CmdOK, Commands
    <3>3. CASE Set(p, [c EXCEPT !.pc = "record", !.file = user.pins[c.sub], !.rev = Base(user.config)])
      BY <1>1, <3>3 DEF Set, CmdOK, Commands
    <3> QED BY <1>9, <3>1, <3>2, <3>3 DEF Push
  <2> QED BY <2>2 DEF Enters, Owning, InDaemon
<1>10. CASE Record(p)
  <2>1. c.pc = "record" /\ c.name \in {"select", "unpin", "switch", "restart"}
    BY <1>1, <1>10 DEF Record, At, Carries
  <2>2. PICK failed \in BOOLEAN : AfterRecord(p, failed)
    BY <1>10 DEF Record
  <2>3. CASE c.name = "restart"
    <3>1. PICK l \in {"reconcile", "push"}, k \in BOOLEAN :
            l = (IF c.checked THEN "reconcile" ELSE "push") /\ k = (c.lost \/ (failed /\ c.checked))
      OBVIOUS
    <3>2. PICK d : d = [c EXCEPT !.pc = l, !.file = Absent, !.lost = k]
      OBVIOUS
    <3>3. l \in PCs
      BY <3>1 DEF PCs
    <3>4. d \in Commands /\ d.name = "restart" /\ d.pc = l
      BY <1>1, <2>3, <3>2, <3>3, FileFacts DEF Commands
    <3>5. AfterPush(p, d)
      BY <2>2, <2>3, <3>1, <3>2 DEF AfterRecord
    <3>6. cmd'[p].pc \in {"idle", "payload", "reconcile", "push"}
      BY <1>1, <3>1, <3>4, <3>5, AfterPushMove
    <3> QED BY <3>6 DEF Enters, Owning, InDaemon
  <2>4. CASE c.name # "restart"
    <3>1. cmd'[p].pc \in {"idle", "payload", "record"}
      BY <1>1, <2>1, <2>2, <2>4, AfterPushMove DEF AfterRecord
    <3> QED BY <3>1 DEF Enters, Owning, InDaemon
  <2> QED BY <2>3, <2>4
<1>11. CASE Reconcile(p) \/ Payload(p) \/ Request(p)
  <2>1. cmd'[p].pc \in {"reconcile", "request", "record", "lifecycle"}
    <3>1. CASE Reconcile(p)
      <4>1. c.pc = "reconcile" /\ c.checked \in BOOLEAN
        BY <1>1, <3>1 DEF Reconcile, At, Commands
      <4>2. CASE \/ Set(p, [c EXCEPT !.checked = TRUE, !.todo = Drifted])
                 \/ Set(p, [c EXCEPT !.pc = "request", !.lost = TRUE]) \/ Goto(p, "request")
        BY <1>1, <4>1, <4>2, GotoMove DEF Set, CmdOK, Commands
      <4>3. CASE \E s \in c.todo :
                   Set(p, [c EXCEPT !.pc = "record", !.sub = s, !.todo = @ \ {s},
                                    !.file = user.pins[s], !.rev = Base(user.config)])
        BY <1>1, <4>3 DEF Set, CmdOK, Commands
      <4> QED BY <3>1, <4>1, <4>2, <4>3 DEF Reconcile
    <3>2. CASE Payload(p) \/ Request(p)
      BY <1>1, <3>2, SetMove DEF Payload, Request, Commands
    <3> QED BY <1>11, <3>1, <3>2
  <2> QED BY <2>1 DEF Enters, Owning, InDaemon
<1>12. CASE Promote(p)
  <2>1. CASE daemon.up
    <3>1. cmd'[p].pc = "start" /\ Moved
      BY <1>1, <1>12, <2>1, SetMove DEF Promote, Commands
    <3> QED BY <2>1, <3>1 DEF Enters, Owning
  <2>2. CASE ~daemon.up
    BY <1>1, <1>12, <2>2, EndMove DEF Promote, Enters, Owning, InDaemon
  <2> QED BY <2>1, <2>2
<1>13. CASE Start(p) \/ Replay(p) \/ ReplayPut(p)
  <2>1. c.pc \in InDaemon
    BY <1>13 DEF Start, Replay, ReplayPut, At, InDaemon
  <2>2. cmd'[p].pc \in {"finish", "replay", "replay put"}
    <3>1. CASE Start(p)
      <4>1. Goto(p, "finish") \/ Goto(p, "replay") \/ Set(p, [c EXCEPT !.pc = "finish", !.lost = TRUE])
        BY <3>1 DEF Start
      <4>2. ASSUME Set(p, [c EXCEPT !.pc = "finish", !.lost = TRUE]) PROVE cmd'[p].pc = "finish"
        BY <1>1, <4>2 DEF Set, CmdOK, Commands
      <4> QED BY <1>1, <4>1, <4>2, GotoMove
    <3>2. CASE Replay(p)
      BY <1>1, <3>2 DEF Replay, Set, CmdOK, Commands
    <3>3. CASE ReplayPut(p)
      <4>1. c.pc = "replay put"
        BY <3>3 DEF ReplayPut, At
      <4>2. \/ Goto(p, "finish")
            \/ \E g \in c.todo : \/ Set(p, [c EXCEPT !.todo = @ \ {g}])
                                \/ Set(p, [c EXCEPT !.todo = @ \ {g}, !.lost = TRUE])
        BY <3>3 DEF ReplayPut
      <4>3. ASSUME NEW g, \/ Set(p, [c EXCEPT !.todo = @ \ {g}])
                          \/ Set(p, [c EXCEPT !.todo = @ \ {g}, !.lost = TRUE])
            PROVE  cmd'[p].pc = "replay put"
        BY <1>1, <4>1, <4>3 DEF Set, CmdOK, Commands
      <4> QED BY <1>1, <4>2, <4>3, GotoMove
    <3> QED BY <1>13, <3>1, <3>2, <3>3
  <2> QED BY <2>1, <2>2 DEF Enters, Owning
<1>14. CASE Finish(p) \/ ProbeRestore(p) \/ Kill(p)
  BY <1>1, <1>14, EndMove DEF Finish, ProbeRestore, Kill, Enters, Owning, InDaemon
<1> QED BY <1>2, <1>3, <1>4, <1>5, <1>6, <1>7, <1>8, <1>9, <1>10, <1>11, <1>12, <1>13, <1>14
        DEF CommandStep

LEMMA ActsEnters == ASSUME Typed, NEW p \in Procs, Acts(p) PROVE Enters(p)
BY InvokedEnters, CommandEnters DEF Acts, Typed

-----------------------------------------------------------------------------
(* The handlers, the lock and the selections.                              *)

LEMMA ServedStep == ASSUME Typed, Served, Next PROVE Served'
<1> SUFFICES ASSUME NEW q \in Procs, cmd'[q].pc \in InDaemon PROVE daemon'.up
  BY DEF Served
<1>1. ASSUME NEW p \in Procs, Acts(p) PROVE daemon'.up
  <2>1. daemon'.up = daemon.up
    BY <1>1, DaemonTyped
  <2>2. CASE q = p
    BY <1>1, <2>1, <2>2, ActsEnters DEF Served, Enters
  <2>3. CASE q # p
    BY <1>1, <2>1, <2>3, OthersStay DEF Served, Typed
  <2> QED BY <2>2, <2>3
<1>2. CASE Sampler
  BY <1>2 DEF Sampler, SampleBegin, SampleFetch, SampleCompare, SamplePublish, Served
<1>3. CASE Crash
  <2>1. cmd'[q] = Idle \/ (cmd[q].pc \notin InDaemon /\ cmd'[q] = cmd[q])
    BY <1>3 DEF Crash
  <2> QED BY <2>1, IdleCommand DEF InDaemon
<1>4. CASE Boot
  BY <1>4 DEF Boot, Typed, DaemonOK, Daemons
<1> QED BY <1>1, <1>2, <1>3, <1>4, NextCases

\* What is about to be saved changes the groups that the command is about.
LEMMA SaveEffect ==
  ASSUME Typed, Locked, NEW p \in Procs, Acts(p)
  PROVE  \A s \in Subs : user'.pins[s] # user.pins[s] =>
           /\ lock = p /\ s = cmd[p].sub /\ At(p, "save")
           /\ \A h \in Groups \ About(cmd[p]) : Content(user'.pins[s])[h] = Content(user.pins[s])[h]
<1>1. user \in Users /\ cmd[p] \in Commands /\ Carries(cmd[p])
  BY DEF Typed, UserOK, CmdOK
<1>2. CASE UNCHANGED user \/ \E s \in Subs : user' = [user EXCEPT !.active = s, !.config = s]
  BY <1>1, <1>2 DEF Users
<1>3. CASE At(p, "save") /\ user' = [user EXCEPT !.pins[cmd[p].sub] = Edited(cmd[p])]
  <2>1. /\ lock = p /\ cmd[p].sub \in Subs
        /\ cmd[p].file = user.pins[cmd[p].sub]
    BY <1>1, <1>3 DEF Locked, At, Carries, Editing, Owning
  <2>2. /\ user'.pins[cmd[p].sub] = Edited(cmd[p])
        /\ \A s \in Subs \ {cmd[p].sub} : user'.pins[s] = user.pins[s]
    BY <1>1, <1>3, <2>1 DEF Users
  <2>3. Content(Edited(cmd[p])) = Edited(cmd[p])
    BY <1>1, <2>1, EditedTyped, FileFacts
  <2>4. \A h \in Groups \ About(cmd[p]) : Edited(cmd[p])[h] = Content(cmd[p].file)[h]
    BY <1>1, EditedTyped
  <2> QED BY <1>1, <1>3, <2>1, <2>2, <2>3, <2>4
<1> QED BY <1>2, <1>3, UserSteps

LEMMA LockedStep == ASSUME Typed, Locked, Next PROVE Locked'
<1> SUFFICES ASSUME NEW q \in Procs
             PROVE  /\ cmd'[q].pc \in Owning => lock' = q
                    /\ cmd'[q].pc = "save" => cmd'[q].file = user'.pins[cmd'[q].sub]
  BY DEF Locked, At
<1>1. CmdOK /\ user \in Users /\ CmdOK' /\ user' \in Users
  BY TypedStep DEF Typed, UserOK
<1>2. ASSUME NEW p \in Procs, Acts(p)
      PROVE  /\ cmd'[q].pc \in Owning => lock' = q
             /\ cmd'[q].pc = "save" => cmd'[q].file = user'.pins[cmd'[q].sub]
  <2>1. CASE q = p
    <3>1. cmd'[q].pc \in Owning => lock' = q
      BY <1>2, <2>1, ActsEnters DEF Locked, Enters
    <3>2. ASSUME cmd'[q].pc = "save" PROVE cmd'[q].file = user'.pins[cmd'[q].sub]
      <4>1. Load(p)
        BY <1>2, <2>1, <3>2, ActsEnters DEF Enters
      <4> QED BY <1>1, <2>1, <4>1 DEF Load, Set, CmdOK, Commands
    <3> QED BY <3>1, <3>2
  <2>2. CASE q # p
    <3>1. cmd'[q] = cmd[q]
      BY <1>1, <1>2, <2>2, OthersStay
    <3>2. ASSUME cmd'[q].pc \in Owning PROVE lock = q /\ lock' = q
      <4>1. lock = q /\ LockMoves(p) /\ ~(lock = p) /\ lock # None
        BY <1>2, <2>2, <3>1, <3>2, LockTyped, NoneAssumption DEF Locked
      <4>2. ~At(p, "save")
        BY <4>1 DEF Locked, At, Owning
      <4> QED BY <4>1, <4>2 DEF LockMoves
    <3>3. ASSUME cmd'[q].pc = "save" PROVE cmd'[q].file = user'.pins[cmd'[q].sub]
      <4>1. lock = q /\ cmd[q].file = user.pins[cmd[q].sub] /\ cmd[q].sub \in Subs
        BY <1>1, <3>1, <3>2, <3>3 DEF Locked, At, Owning, CmdOK, Carries, Editing
      <4>2. user'.pins[cmd[q].sub] = user.pins[cmd[q].sub]
        BY <1>2, <2>2, <4>1, SaveEffect
      <4> QED BY <3>1, <4>1, <4>2
    <3> QED BY <3>2, <3>3
  <2> QED BY <2>1, <2>2
<1>3. CASE Sampler \/ Boot
  <2>1. UNCHANGED <<cmd, lock, user>>
    BY <1>3 DEF Sampler, SampleBegin, SampleFetch, SampleCompare, SamplePublish, Boot
  <2> QED BY <2>1 DEF Locked, At
<1>4. CASE Crash
  <2>1. cmd'[q] = Idle \/ cmd'[q] = cmd[q]
    BY <1>4 DEF Crash
  <2>2. UNCHANGED user /\ lock' = IF lock # None /\ cmd'[lock] = Idle THEN None ELSE lock
    BY <1>4 DEF Crash
  <2>3. ASSUME cmd'[q].pc \in Owning PROVE lock' = q /\ cmd'[q] = cmd[q]
    BY <2>1, <2>2, <2>3, IdleCommand DEF Locked, Owning
  <2> QED BY <2>2, <2>3 DEF Locked, At, Owning
<1> QED BY <1>2, <1>3, <1>4, NextCases

-----------------------------------------------------------------------------
(* The sampler.                                                            *)

\* Outside of the handlers nothing that a sample compares changes unnoticed.
LEMMA UnmovedKeeps ==
  ASSUME NEW p \in Procs, Acts(p), ~Moved, cmd[p].pc \notin InDaemon
  PROVE  UNCHANGED <<mirror, sample>> /\ (UNCHANGED core \/ ~core'.up)
<1>1. UNCHANGED sample
  BY SampleStep
<1>2. CASE Stop(p)
  <2>1. core' = [core EXCEPT !.up = FALSE] /\ UNCHANGED mirror
    BY <1>2 DEF Stop
  <2> QED BY <1>1, <2>1
<1>3. CASE ~Stop(p)
  BY <1>1, <1>3 DEF Acts, Invoked, SelectCommand, Select, Unpin, Restart, Probe, Switch, CommandStep,
     SelectOpen, SelectPut, SelectAttest, UnpinLock, Load, Save, Undo, ReadActive, RecordActive,
     Push, Record, Reconcile, Payload, Request, Promote, Start, Replay, ReplayPut, Finish,
     ProbeRestore, Kill, At, InDaemon
<1> QED BY <1>2, <1>3

LEMMA SampledStep == ASSUME Typed, Sampled, Next PROVE Sampled'
<1>1. ASSUME sample'.pc = "idle" PROVE Sampled'
  BY <1>1 DEF Sampled
<1>2. ASSUME NEW p \in Procs, Acts(p) PROVE Sampled'
  <2>1. CASE Moved
    BY <1>1, <2>1, NoSampleTyped DEF Moved
  <2>2. CASE ~Moved /\ cmd[p].pc \notin InDaemon
    <3>1. UNCHANGED <<mirror, sample>> /\ (UNCHANGED core \/ ~core'.up) /\ daemon'.up = daemon.up
      BY <1>2, <2>2, UnmovedKeeps, DaemonTyped
    <3>2. InFlight' => InFlight
      <4> SUFFICES ASSUME NEW q \in Procs, cmd'[q].pc \in InDaemon PROVE cmd[q].pc \in InDaemon
        BY DEF InFlight
      <4>1. CASE q = p
        BY <1>2, <2>2, <4>1, ActsEnters DEF Enters
      <4>2. CASE q # p
        BY <1>2, <4>2, OthersStay DEF Typed
      <4> QED BY <4>1, <4>2
    <3>3. (InFlight \/ ~daemon.up => sample.pc = "idle")'
      BY <3>1, <3>2 DEF Sampled
    <3>4. (sample.pc = "compare" /\ core.up => core.now = sample.now)'
      BY <3>1 DEF Sampled
    <3>5. (sample.pc = "publish" => \A d \in sample.drifts :
             /\ Content(mirror.map[mirror.active])[d.group] = d.intent
             /\ core.up => core.now[d.group] = d.runtime)'
      BY <3>1 DEF Sampled
    <3> QED BY <3>3, <3>4, <3>5 DEF Sampled
  <2>3. CASE ~Moved /\ cmd[p].pc \in InDaemon
    <3>1. sample.pc = "idle"
      BY <2>3 DEF Sampled, InFlight
    <3>2. UNCHANGED sample
      BY <1>2, <2>3, SampleStep
    <3> QED BY <1>1, <3>1, <3>2
  <2> QED BY <2>1, <2>2, <2>3
<1>3. CASE Sampler
  <2>1. UNCHANGED <<mirror, core, daemon, cmd>> /\ sample \in Samples
    BY <1>3 DEF Sampler, SampleBegin, SampleFetch, SampleCompare, SamplePublish, Typed, SampleOK
  <2>2. InFlight' = InFlight
    BY <2>1 DEF InFlight
  <2>3. CASE SampleBegin
    <3>1. sample'.pc = "fetch" /\ ~InFlight /\ daemon.up
      BY <2>3 DEF SampleBegin, NoSample
    <3> QED BY <2>1, <2>2, <3>1 DEF Sampled
  <2>4. CASE SampleFetch
    <3>1. sample.pc = "fetch" /\ ~InFlight /\ daemon.up
      BY <2>4 DEF SampleFetch, Sampled
    <3>2. sample'.pc = "idle" \/ (sample'.pc = "compare" /\ sample'.now = core.now)
      BY <2>1, <2>4, NoSampleTyped DEF SampleFetch, Samples
    <3> QED BY <1>1, <2>1, <2>2, <3>1, <3>2 DEF Sampled
  <2>5. CASE SampleCompare
    <3>1. sample.pc = "compare" /\ ~InFlight /\ daemon.up /\ (core.up => core.now = sample.now)
      BY <2>5 DEF SampleCompare, Sampled
    <3>2. \/ sample'.pc = "idle"
          \/ /\ sample'.pc = "publish"
             /\ sample'.drifts = Differences(mirror.map[mirror.active], sample.now)
      BY <2>1, <2>5, NoSampleTyped DEF SampleCompare, Samples
    <3>3. \A d \in Differences(mirror.map[mirror.active], sample.now) :
            /\ Content(mirror.map[mirror.active])[d.group] = d.intent
            /\ core.up => core.now[d.group] = d.runtime
      BY <3>1 DEF Differences
    <3> QED BY <1>1, <2>1, <2>2, <3>1, <3>2, <3>3 DEF Sampled
  <2>6. CASE SamplePublish
    BY <1>1, <2>6, NoSampleTyped DEF SamplePublish
  <2> QED BY <1>3, <2>3, <2>4, <2>5, <2>6 DEF Sampler
<1>4. CASE Crash
  BY <1>1, <1>4, NoSampleTyped DEF Crash
<1>5. CASE Boot
  BY <1>1, <1>5 DEF Boot, Sampled
<1> QED BY <1>2, <1>3, <1>4, <1>5, NextCases

-----------------------------------------------------------------------------
(* A restart alone.                                                        *)

Ongoing(p) == cmd[p].name = "restart" /\ (~cmd[p].lost => Restores(p))

\* What has been pushed.
LEMMA PushesRestore ==
  ASSUME Typed, NEW p \in Procs, Ongoing(p), ReadActive(p) \/ RecordActive(p) \/ Push(p)
  PROVE  Ongoing(p)'
<1> DEFINE c == cmd[p]
<1>1. user \in Users /\ mirror \in Mirrors /\ CmdOK /\ c \in Commands /\ c.name = "restart" /\ UNCHANGED user
  BY DEF Typed, UserOK, MirrorOK, CmdOK, Ongoing, ReadActive, RecordActive, Push
<1>2. CASE ReadActive(p)
  <2>1. cmd'[p] = [c EXCEPT !.pc = "record active", !.sub = user.active, !.rev = c.rev]
    BY <1>1, <1>2 DEF ReadActive, Set, CmdOK
  <2>2. /\ cmd'[p].pc = "record active" /\ cmd'[p].sub = user.active /\ cmd'[p].name = "restart"
        /\ cmd'[p].checked = c.checked /\ cmd'[p].lost = c.lost /\ c.pc = "read active"
    BY <1>1, <1>2, <2>1 DEF Commands, ReadActive, At
  <2> QED BY <1>1, <2>2 DEF Ongoing, Restores, Late
<1>3. CASE RecordActive(p)
  <2>1. \/ /\ mirror'.active = c.sub
           /\ cmd'[p] = [c EXCEPT !.pc = "push", !.todo = Written]
        \/ cmd'[p] = [c EXCEPT !.pc = "request", !.lost = TRUE]
    BY <1>1, <1>3 DEF RecordActive, Set, CmdOK, Mirrors
  <2>2. CASE cmd'[p] = [c EXCEPT !.pc = "request", !.lost = TRUE]
    BY <1>1, <2>2 DEF Commands, Ongoing
  <2>3. CASE mirror'.active = c.sub /\ cmd'[p] = [c EXCEPT !.pc = "push", !.todo = Written]
    <3>1. /\ cmd'[p].pc = "push" /\ cmd'[p].name = "restart" /\ cmd'[p].checked = c.checked
          /\ cmd'[p].lost = c.lost /\ c.pc = "record active"
      BY <1>1, <1>3, <2>3 DEF Commands, RecordActive, At
    <3> QED BY <1>1, <2>3, <3>1 DEF Ongoing, Restores, Late
  <2> QED BY <2>1, <2>2, <2>3
<1>4. CASE Push(p)
  <2>1. c.pc = "push" /\ UNCHANGED mirror
    BY <1>4 DEF Push, At
  <2>2. CASE c.todo = {}
    <3>1. cmd'[p] = [c EXCEPT !.pc = "reconcile"]
      BY <1>1, <1>4, <2>2, GotoMove DEF Push
    <3>2. /\ cmd'[p].pc = "reconcile" /\ cmd'[p].name = "restart" /\ cmd'[p].checked = c.checked
          /\ cmd'[p].lost = c.lost
      BY <1>1, <3>1 DEF Commands
    <3> QED BY <1>1, <2>1, <3>2 DEF Ongoing, Restores, Late
  <2>3. CASE c.todo # {}
    <3>1. PICK s \in c.todo : Set(p, [c EXCEPT !.pc = "record", !.sub = s, !.todo = @ \ {s},
                                               !.file = user.pins[s]])
      BY <1>1, <1>4, <2>3 DEF Push
    <3>2. /\ cmd'[p].pc = "record" /\ cmd'[p].name = "restart" /\ cmd'[p].checked = c.checked
          /\ cmd'[p].lost = c.lost /\ cmd'[p].sub = s /\ cmd'[p].file = user.pins[s]
      BY <1>1, <3>1 DEF Commands, Set, CmdOK
    <3> QED BY <1>1, <2>1, <3>2 DEF Ongoing, Restores, Late
  <2> QED BY <2>2, <2>3
<1> QED BY <1>2, <1>3, <1>4

\* A recorded file agrees; one that was not is compared once more, or lost.
LEMMA RecordRestores ==
  ASSUME Typed, NEW p \in Procs, Ongoing(p), Record(p)
  PROVE  Ongoing(p)'
<1> DEFINE c == cmd[p]
<1>1. /\ user \in Users /\ mirror \in Mirrors /\ CmdOK /\ c \in Commands /\ c.name = "restart"
      /\ UNCHANGED user /\ c.pc = "record" /\ c.sub \in Subs
  BY DEF Typed, UserOK, MirrorOK, CmdOK, Carries, Ongoing, Record, At
<1>2. PICK failed \in BOOLEAN :
        /\ AfterRecord(p, failed)
        /\ \/ failed /\ mirror' = [mirror EXCEPT !.bind = Bound(c)]
           \/ failed /\ UNCHANGED mirror
           \/ ~failed /\ mirror' = [mirror EXCEPT !.bind = Bound(c), !.map[c.sub] = c.file]
  BY <1>1 DEF Record
<1>3. PICK l \in {"reconcile", "push"}, k \in BOOLEAN :
        l = (IF c.checked THEN "reconcile" ELSE "push") /\ k = (c.lost \/ (failed /\ c.checked))
  OBVIOUS
<1>4. PICK d : d = [c EXCEPT !.pc = l, !.file = Absent, !.lost = k]
  OBVIOUS
<1>5. /\ d.name = "restart" /\ d.pc = l /\ d.lost = k /\ d.checked = c.checked /\ d.todo = c.todo
  BY <1>1, <1>4 DEF Commands
<1>6. cmd'[p] = d
  <2>1. AfterPush(p, d)
    BY <1>1, <1>2, <1>3, <1>4 DEF AfterRecord
  <2> QED BY <1>1, <1>5, <2>1, SetMove DEF AfterPush
<1> SUFFICES ASSUME ~k PROVE Restores(p)'
  BY <1>5, <1>6 DEF Ongoing
<1>7. ~c.lost /\ ~(failed /\ c.checked) /\ Restores(p)
  BY <1>3 DEF Ongoing
<1>8. mirror'.active = mirror.active /\ mirror.active = user.active
  BY <1>1, <1>2, <1>7 DEF Mirrors, Restores
<1>9. CASE ~c.checked
  BY <1>1, <1>3, <1>5, <1>6, <1>8, <1>9 DEF Restores, Late
<1>10. CASE c.checked
  <2>1. /\ c.file = user.pins[c.sub] /\ Drifted \subseteq c.todo \cup {c.sub}
        /\ mirror' = [mirror EXCEPT !.bind = Bound(c), !.map[c.sub] = c.file]
    BY <1>1, <1>2, <1>7, <1>10 DEF Restores
  <2>2. mirror'.map[c.sub] = c.file /\ \A s \in Subs \ {c.sub} : mirror'.map[s] = mirror.map[s]
    BY <1>1, <2>1 DEF Mirrors
  <2>3. Drifted' \subseteq Drifted \ {c.sub}
    BY <1>1, <2>1, <2>2 DEF Drifted, Written
  <2>4. Drifted' \subseteq d.todo
    BY <1>5, <2>1, <2>3
  <2> QED BY <1>1, <1>3, <1>5, <1>6, <1>8, <1>10, <2>4 DEF Restores, Late
<1> QED BY <1>1, <1>9, <1>10 DEF Commands

LEMMA ReconcileRestores ==
  ASSUME Typed, NEW p \in Procs, Ongoing(p), Reconcile(p)
  PROVE  Ongoing(p)'
<1> DEFINE c == cmd[p]
<1>1. /\ CmdOK /\ c \in Commands /\ c.name = "restart" /\ c.pc = "reconcile" /\ c.checked \in BOOLEAN
      /\ UNCHANGED <<user, mirror, core>> /\ Drifted' = Drifted
  BY DEF Typed, CmdOK, Commands, Ongoing, Reconcile, At, Drifted, Written
<1>2. CASE ~c.checked /\ daemon.up
  <2>1. cmd'[p] = [c EXCEPT !.checked = TRUE, !.todo = Drifted]
    BY <1>1, <1>2, SetMove DEF Reconcile
  <2>2. /\ cmd'[p].pc = "reconcile" /\ cmd'[p].name = "restart" /\ cmd'[p].todo = Drifted
        /\ cmd'[p].lost = c.lost
    BY <1>1, <2>1 DEF Commands
  <2> QED BY <1>1, <2>2 DEF Ongoing, Restores, Late
<1>3. CASE ~c.checked /\ ~daemon.up
  <2>1. cmd'[p] = [c EXCEPT !.pc = "request", !.lost = TRUE]
    BY <1>1, <1>3, SetMove DEF Reconcile
  <2> QED BY <1>1, <2>1 DEF Commands, Ongoing
<1>4. CASE c.checked /\ c.todo = {}
  <2>1. cmd'[p] = [c EXCEPT !.pc = "request"]
    BY <1>1, <1>4, GotoMove DEF Reconcile
  <2>2. /\ cmd'[p].pc = "request" /\ cmd'[p].name = "restart" /\ cmd'[p].lost = c.lost
    BY <1>1, <2>1 DEF Commands
  <2> QED BY <1>1, <1>4, <2>2 DEF Ongoing, Restores, Late
<1>5. CASE c.checked /\ c.todo # {}
  <2>1. PICK s \in c.todo : Set(p, [c EXCEPT !.pc = "record", !.sub = s, !.todo = @ \ {s},
                                             !.file = user.pins[s], !.rev = Base(user.config)])
    BY <1>1, <1>5 DEF Reconcile
  <2>2. /\ cmd'[p].pc = "record" /\ cmd'[p].name = "restart" /\ cmd'[p].todo = c.todo \ {s}
        /\ cmd'[p].lost = c.lost /\ cmd'[p].sub = s /\ cmd'[p].file = user.pins[s]
    BY <1>1, <2>1 DEF Commands, Set, CmdOK
  <2>3. Drifted \subseteq c.todo => Drifted \subseteq (c.todo \ {s}) \cup {s}
    OBVIOUS
  <2> QED BY <1>1, <1>5, <2>2, <2>3 DEF Ongoing, Restores, Late
<1> QED BY <1>1, <1>2, <1>3, <1>4, <1>5

\* The configuration is loaded and the mirror replayed.
LEMMA LifecycleRestores ==
  ASSUME Typed, NEW p \in Procs, Ongoing(p), Request(p) \/ Promote(p) \/ Start(p) \/ Replay(p)
  PROVE  cmd'[p].pc = "idle" \/ Ongoing(p)'
<1> DEFINE c == cmd[p]
<1>1. /\ CmdOK /\ c \in Commands /\ c.name = "restart" /\ user \in Users
      /\ UNCHANGED <<user, mirror>> /\ Drifted' = Drifted
  BY DEF Typed, CmdOK, UserOK, Ongoing, Request, Promote, Start, Replay, Drifted, Written
<1>2. CASE Request(p)
  <2>1. cmd'[p] = [c EXCEPT !.pc = "lifecycle", !.sub = user.active, !.rev = None] /\ c.pc = "request"
    BY <1>1, <1>2, SetMove DEF Request, At
  <2>2. /\ cmd'[p].pc = "lifecycle" /\ cmd'[p].name = "restart" /\ cmd'[p].sub = user.active
        /\ cmd'[p].lost = c.lost
    BY <1>1, <2>1 DEF Commands
  <2> QED BY <1>1, <2>1, <2>2 DEF Ongoing, Restores, Late
<1>3. CASE Promote(p)
  <2>1. CASE ~daemon.up
    BY <1>1, <1>3, <2>1, EndMove DEF Promote
  <2>2. CASE daemon.up
    <3>1. PICK s : s = IF mirror.active = c.sub THEN c.sub ELSE None
      OBVIOUS
    <3>2. cmd'[p] = [c EXCEPT !.pc = "start", !.sub = s] /\ c.pc = "lifecycle"
      BY <1>1, <1>3, <2>2, <3>1, SetMove DEF Promote, At
    <3>3. cmd'[p].pc = "start" /\ cmd'[p].name = "restart" /\ cmd'[p].sub = s /\ cmd'[p].lost = c.lost
      BY <1>1, <3>2 DEF Commands
    <3> QED BY <1>1, <3>1, <3>2, <3>3 DEF Ongoing, Restores, Late
  <2> QED BY <2>1, <2>2
<1>4. CASE Start(p)
  <2>1. \/ /\ core'.up /\ (c.sub # None => cmd'[p] = [c EXCEPT !.pc = "replay"])
           /\ (c.sub = None => cmd'[p] = [c EXCEPT !.pc = "finish"])
        \/ cmd'[p] = [c EXCEPT !.pc = "finish", !.lost = TRUE]
    <3>1. \/ /\ core'.up
             /\ Goto(p, IF c.sub = None THEN "finish" ELSE "replay")
          \/ Set(p, [c EXCEPT !.pc = "finish", !.lost = TRUE])
      <4>1. PICK S : S = IF c.name = "restart" \/ ~core.up THEN [Groups -> Nodes] ELSE {core.now}
        OBVIOUS
      <4>2. \/ /\ \E now \in S : core' = [up |-> TRUE, sub |-> c.load, now |-> now]
               /\ Goto(p, IF c.sub = None THEN "finish" ELSE "replay")
            \/ Set(p, [c EXCEPT !.pc = "finish", !.lost = TRUE])
        BY <1>4, <4>1 DEF Start
      <4> QED BY <4>2
    <3> QED BY <1>1, <3>1, GotoMove, SetMove
  <2>2. CASE cmd'[p] = [c EXCEPT !.pc = "finish", !.lost = TRUE]
    BY <1>1, <2>2 DEF Commands, Ongoing
  <2>3. CASE /\ core'.up /\ (c.sub # None => cmd'[p] = [c EXCEPT !.pc = "replay"])
             /\ (c.sub = None => cmd'[p] = [c EXCEPT !.pc = "finish"])
    <3>1. c.pc = "start" /\ (~c.lost => c.sub = user.active)
      BY <1>4 DEF Start, At, Ongoing, Restores
    <3>2. CASE c.sub = None
      <4>1. c.lost
        BY <1>1, <3>1, <3>2, NoneAssumption DEF Users
      <4> QED BY <1>1, <2>3, <3>2, <4>1 DEF Commands, Ongoing
    <3>3. CASE c.sub # None
      <4>1. cmd'[p].pc = "replay" /\ cmd'[p].name = "restart" /\ cmd'[p].sub = c.sub /\ cmd'[p].lost = c.lost
        BY <1>1, <2>3, <3>3 DEF Commands
      <4> QED BY <1>1, <2>3, <3>1, <4>1 DEF Ongoing, Restores, Late
    <3> QED BY <3>2, <3>3
  <2> QED BY <2>1, <2>2, <2>3
<1>5. CASE Replay(p)
  <2>1. UNCHANGED core /\ c.pc = "replay"
    BY <1>5 DEF Replay, At
  <2>2. PICK l : l = IF core.up THEN "replay put" ELSE "finish"
    OBVIOUS
  <2>3. cmd'[p] = [c EXCEPT !.pc = l, !.file = mirror.map[c.sub], !.todo = Pinned(mirror.map[c.sub])]
    BY <1>1, <1>5, <2>2, SetMove DEF Replay
  <2>4. /\ cmd'[p].pc = l /\ cmd'[p].name = "restart" /\ cmd'[p].sub = c.sub /\ cmd'[p].lost = c.lost
        /\ cmd'[p].file = mirror.map[c.sub] /\ cmd'[p].todo = Pinned(mirror.map[c.sub])
    BY <1>1, <2>3 DEF Commands
  <2>5. ASSUME ~c.lost
        PROVE  /\ c.sub = user.active /\ core.up /\ mirror.active = user.active /\ Drifted = {}
               /\ l = "replay put"
    BY <2>1, <2>2, <2>5 DEF Ongoing, Restores, Late
  <2>6. ASSUME ~c.lost PROVE Restores(p)'
    BY <1>1, <2>1, <2>4, <2>5, <2>6 DEF Restores, Late
  <2> QED BY <2>4, <2>6 DEF Ongoing
<1> QED BY <1>2, <1>3, <1>4, <1>5

LEMMA ReplayRestores ==
  ASSUME Typed, NEW p \in Procs, Ongoing(p), ReplayPut(p)
  PROVE  Ongoing(p)'
<1> DEFINE c == cmd[p]
<1>1. /\ CmdOK /\ c \in Commands /\ c.name = "restart" /\ user \in Users /\ core \in Cores
      /\ UNCHANGED <<user, mirror>> /\ Drifted' = Drifted /\ c.pc = "replay put"
      /\ c.todo \subseteq Pinned(c.file) /\ Pinned(c.file) \subseteq Groups
  BY FileFacts DEF Typed, CmdOK, Carries, UserOK, CoreOK, Ongoing, ReplayPut, At, Drifted, Written, Pinned
<1>2. CASE c.todo = {}
  <2>1. cmd'[p] = [c EXCEPT !.pc = "finish"] /\ UNCHANGED core
    BY <1>1, <1>2, GotoMove DEF ReplayPut
  <2>2. cmd'[p].pc = "finish" /\ cmd'[p].name = "restart" /\ cmd'[p].lost = c.lost
    BY <1>1, <2>1 DEF Commands
  <2>3. ASSUME ~c.lost, NEW g \in Pinned(user.pins[user.active])
        PROVE  core.now[g] = user.pins[user.active][g]
    <3>1. /\ c.file = mirror.map[user.active] /\ Drifted = {} /\ user.active \in Subs
          /\ \A h \in Pinned(c.file) : core.now[h] = c.file[h]
      BY <1>1, <1>2, <2>3 DEF Ongoing, Restores, Late, Users
    <3>2. user.pins[user.active] # Absent
      BY <2>3, FileFacts
    <3>3. mirror.map[user.active] = user.pins[user.active]
      BY <3>1, <3>2 DEF Drifted, Written
    <3> QED BY <2>3, <3>1, <3>3
  <2>4. ASSUME ~c.lost PROVE Restores(p)'
    BY <1>1, <2>1, <2>2, <2>3, <2>4 DEF Ongoing, Restores, Late
  <2> QED BY <2>2, <2>4 DEF Ongoing
<1>3. CASE c.todo # {}
  <2>1. PICK g \in c.todo :
          \/ core' = [core EXCEPT !.now[g] = c.file[g]] /\ Set(p, [c EXCEPT !.todo = @ \ {g}])
          \/ Set(p, [c EXCEPT !.todo = @ \ {g}, !.lost = TRUE])
    BY <1>1, <1>3 DEF ReplayPut
  <2>2. CASE Set(p, [c EXCEPT !.todo = @ \ {g}, !.lost = TRUE])
    <3>1. cmd'[p] = [c EXCEPT !.todo = @ \ {g}, !.lost = TRUE]
      BY <1>1, <2>2 DEF Set, CmdOK
    <3> QED BY <1>1, <3>1 DEF Commands, Ongoing
  <2>3. CASE core' = [core EXCEPT !.now[g] = c.file[g]] /\ Set(p, [c EXCEPT !.todo = @ \ {g}])
    <3>1. cmd'[p] = [c EXCEPT !.todo = @ \ {g}]
      BY <1>1, <2>3 DEF Set, CmdOK
    <3>2. /\ cmd'[p].pc = "replay put" /\ cmd'[p].name = "restart" /\ cmd'[p].sub = c.sub
          /\ cmd'[p].lost = c.lost /\ cmd'[p].file = c.file /\ cmd'[p].todo = c.todo \ {g}
      BY <1>1, <3>1 DEF Commands
    <3>3. /\ core'.up = core.up /\ core'.now[g] = c.file[g]
          /\ \A h \in Groups \ {g} : core'.now[h] = core.now[h]
      BY <1>1, <2>1, <2>3 DEF Cores
    <3>4. ASSUME ~c.lost, NEW h \in Pinned(c.file) \ (c.todo \ {g}) PROVE core'.now[h] = c.file[h]
      BY <1>1, <3>3, <3>4 DEF Ongoing, Restores
    <3>5. ASSUME ~c.lost PROVE Restores(p)'
      BY <1>1, <3>2, <3>3, <3>4, <3>5 DEF Ongoing, Restores, Late
    <3> QED BY <3>2, <3>5 DEF Ongoing
  <2> QED BY <2>1, <2>2, <2>3
<1> QED BY <1>2, <1>3

LEMMA RestartGoesOn ==
  ASSUME Typed, NEW p \in Procs, Ongoing(p), CommandStep(p) \/ Kill(p)
  PROVE  cmd'[p].pc = "idle" \/ Ongoing(p)'
<1>1. CmdOK /\ Carries(cmd[p]) /\ cmd[p].name = "restart"
  BY DEF Typed, CmdOK, Ongoing
<1>2. /\ ~SelectOpen(p) /\ ~SelectPut(p) /\ ~SelectAttest(p) /\ ~UnpinLock(p) /\ ~Load(p)
      /\ ~Save(p) /\ ~Undo(p) /\ ~Payload(p)
  BY <1>1 DEF Carries, Editing, SelectOpen, SelectPut, SelectAttest, UnpinLock, Load, Save, Undo,
              Payload, At
<1>3. Finish(p) \/ ProbeRestore(p) \/ Kill(p) => cmd'[p].pc = "idle"
  BY <1>1, EndMove DEF Finish, ProbeRestore, Kill
<1> QED BY <1>2, <1>3, PushesRestore, RecordRestores, ReconcileRestores, LifecycleRestores,
           ReplayRestores DEF CommandStep

LEMMA RestartBegins ==
  ASSUME Typed, NEW p \in Procs, NEW r \in Procs, Invoked(r), history'.alone[p]
  PROVE  /\ r = p /\ Ongoing(p)'
         /\ \A q \in Procs \ {p} : At(q, "idle")
<1>1. CmdOK /\ history \in Histories
  BY DEF Typed, HistoryOK
<1>2. ASSUME NEW c, Begin(r, c)
      PROVE  /\ cmd'[r] = c /\ c.name = "restart" /\ r = p
             /\ \A q \in Procs \ {p} : At(q, "idle")
  <2>1. cmd'[r] = c
    BY <1>1, <1>2, SetMove DEF Begin
  <2>2. PICK others \in BOOLEAN : others = \E q \in Procs \ {r} : ~At(q, "idle")
    OBVIOUS
  <2>3. history'.alone = [q \in Procs |-> c.name = "restart" /\ q = r /\ ~others]
    BY <1>1, <1>2, <2>2 DEF Begin, Histories
  <2> QED BY <2>1, <2>2, <2>3
<1>3. ASSUME ~Restart(r) PROVE \E c : Begin(r, c) /\ c.name # "restart"
  <2>1. CASE \E g \in Groups \cup {None} : Unpin(r, g)
    <3>1. PICK g \in Groups \cup {None} : Unpin(r, g)
      BY <2>1
    <3>2. PICK c : c = [Idle EXCEPT !.pc = "lock", !.name = "unpin", !.sub = user.active, !.group = g]
      OBVIOUS
    <3>3. Begin(r, c) /\ c.name # "restart"
      BY <3>1, <3>2 DEF Unpin, Idle
    <3> QED BY <3>3
  <2>2. CASE \E g \in Groups, n \in Nodes : Select(r, g, n)
    <3>1. PICK g \in Groups, n \in Nodes : Select(r, g, n)
      BY <2>2
    <3>2. PICK c : c = [Idle EXCEPT !.pc = "open", !.name = "select", !.sub = user.active,
                                    !.group = g, !.node = n]
      OBVIOUS
    <3>3. Begin(r, c) /\ c.name # "restart"
      BY <3>1, <3>2 DEF Select, Idle
    <3> QED BY <3>3
  <2>3. CASE \E s \in Subs : Switch(r, s)
    <3>1. PICK c : c = [Idle EXCEPT !.pc = "read active", !.name = "switch"]
      OBVIOUS
    <3>2. Begin(r, c) /\ c.name # "restart"
      BY <2>3, <3>1 DEF Switch, Idle
    <3> QED BY <3>2
  <2>4. CASE Stop(r)
    BY <2>4, IdleCommand DEF Stop, Idle
  <2>5. CASE \E g \in Groups, n \in Nodes : Probe(r, g, n)
    <3>1. PICK g \in Groups, n \in Nodes : Probe(r, g, n)
      BY <2>5
    <3>2. PICK c : c = [Idle EXCEPT !.pc = "probe", !.name = "probe", !.group = g, !.node = core.now[g]]
      OBVIOUS
    <3>3. Begin(r, c) /\ c.name # "restart"
      BY <3>1, <3>2 DEF Probe, Idle
    <3> QED BY <3>3
  <2> QED BY <1>3, <2>1, <2>2, <2>3, <2>4, <2>5 DEF Invoked, SelectCommand
<1>4. Restart(r)
  BY <1>2, <1>3
<1>5. PICK c : c = [Idle EXCEPT !.pc = "read active", !.name = "restart", !.load = user.config,
                                !.rev = Merged(user.config)]
  OBVIOUS
<1>6. Begin(r, c) /\ c.pc = "read active" /\ c.name = "restart" /\ ~c.checked
  BY <1>4, <1>5 DEF Restart, Idle
<1>7. r = p /\ cmd'[p] = c /\ \A q \in Procs \ {p} : At(q, "idle")
  BY <1>2, <1>6
<1> QED BY <1>6, <1>7 DEF Ongoing, Restores, Late

LEMMA AloneStep == ASSUME Typed, Served, Alone, Next PROVE Alone'
<1> SUFFICES ASSUME NEW p \in Procs, history'.alone[p], cmd'[p].pc # "idle"
             PROVE  Ongoing(p)' /\ \A q \in Procs \ {p} : cmd'[q].pc = "idle"
  BY DEF Alone, Ongoing, At
<1>1. CmdOK
  BY DEF Typed
<1>2. ASSUME history.alone[p], cmd[p].pc # "idle"
      PROVE  Ongoing(p) /\ \A q \in Procs \ {p} : cmd[q].pc = "idle"
  BY <1>2 DEF Alone, Ongoing, At
<1>3. ASSUME NEW r \in Procs, Invoked(r)
      PROVE  Ongoing(p)' /\ \A q \in Procs \ {p} : cmd'[q].pc = "idle"
  <2>1. r = p /\ Ongoing(p)' /\ \A q \in Procs \ {p} : At(q, "idle")
    BY <1>3, RestartBegins
  <2>2. \A q \in Procs \ {p} : cmd'[q] = cmd[q]
    BY <1>1, <1>3, <2>1, OthersStay DEF Acts
  <2> QED BY <2>1, <2>2 DEF At
<1>4. ASSUME NEW r \in Procs, CommandStep(r) \/ Kill(r)
      PROVE  Ongoing(p)' /\ \A q \in Procs \ {p} : cmd'[q].pc = "idle"
  <2>1. Acts(r) /\ \A q \in Procs \ {r} : cmd'[q] = cmd[q]
    BY <1>1, <1>4, OthersStay DEF Acts
  <2>2. cmd[r].pc # "idle"
    BY <1>4 DEF CommandStep, SelectOpen, SelectPut, SelectAttest, UnpinLock, Load, Save, Undo,
       ReadActive, RecordActive, Push, Record, Reconcile, Payload, Request, Promote, Start, Replay,
       ReplayPut, Finish, ProbeRestore, Kill, At
  <2>3. history.alone[p]
    <3>1. CASE Invoked(r)
      BY <2>1, <2>2, <3>1, RestartBegins DEF Invoked, SelectCommand, Unpin, Select, Restart, Stop, Probe, Switch, Begin, At
    <3>2. CASE ~Invoked(r)
      BY <2>1, <3>2, HistoryTyped
    <3> QED BY <3>1, <3>2
  <2>4. cmd[p].pc # "idle"
    BY <2>1, <2>2
  <2>5. Ongoing(p) /\ \A q \in Procs \ {p} : cmd[q].pc = "idle"
    BY <1>2, <2>3, <2>4
  <2>6. r = p
    BY <2>2, <2>5
  <2>7. Ongoing(p)'
    BY <1>4, <2>5, <2>6, RestartGoesOn
  <2> QED BY <2>1, <2>5, <2>6, <2>7
<1>5. CASE Sampler
  <2>1. UNCHANGED <<user, mirror, core, cmd, history>>
    BY <1>5 DEF Sampler, SampleBegin, SampleFetch, SampleCompare, SamplePublish
  <2>2. Ongoing(p)' <=> Ongoing(p)
    BY <2>1 DEF Ongoing, Restores, Drifted, Written
  <2> QED BY <1>2, <2>1, <2>2
<1>6. CASE Crash
  <2>1. /\ UNCHANGED <<user, mirror>> /\ history'.alone = history.alone
        /\ \A q \in Procs : cmd'[q] = Idle \/ (cmd[q].pc \notin InDaemon /\ cmd'[q] = cmd[q])
    BY <1>6 DEF Crash, Fault, Typed, HistoryOK, Histories
  <2>2. cmd[p].pc \notin InDaemon /\ cmd'[p] = cmd[p]
    BY <2>1, IdleCommand
  <2>3. Ongoing(p) /\ \A q \in Procs \ {p} : cmd[q].pc = "idle"
    BY <1>2, <2>1, <2>2
  <2>4. Ongoing(p)'
    BY <2>1, <2>2, <2>3 DEF Ongoing, Restores, Drifted, Written, InDaemon, Late
  <2> QED BY <2>1, <2>3, <2>4, IdleCommand
<1>7. CASE Boot
  <2>1. UNCHANGED <<user, mirror, cmd, history>> /\ ~daemon.up
    BY <1>7 DEF Boot
  <2>2. cmd[p].pc \notin InDaemon
    BY <2>1 DEF Served
  <2>3. Ongoing(p) /\ \A q \in Procs \ {p} : cmd[q].pc = "idle"
    BY <1>2, <2>1
  <2>4. Ongoing(p)'
    BY <2>1, <2>2, <2>3 DEF Ongoing, Restores, Drifted, Written, InDaemon, Late
  <2> QED BY <2>1, <2>3, <2>4
<1> QED BY <1>3, <1>4, <1>5, <1>6, <1>7, NextCases DEF Acts

-----------------------------------------------------------------------------
(* The invariant, and the theorems.                                        *)

LEMMA InvInit == Init => Inv
<1> SUFFICES ASSUME Init PROVE Inv
  OBVIOUS
<1>1. PICK s \in Subs, now \in [Groups -> Nodes], tun \in BOOLEAN :
        /\ user = [active |-> s, config |-> s, pins |-> [t \in Subs |-> Absent]]
        /\ core = [up |-> TRUE, sub |-> s, now |-> now]
        /\ history = [tun |-> tun, alone |-> [p \in Procs |-> FALSE], commands |-> 0, faults |-> 0]
  BY DEF Init
<1>2. \A p \in Procs : cmd[p] = Idle
  BY DEF Init
<1>3. UserOK /\ CoreOK /\ MirrorOK
  BY <1>1, FileFacts DEF Init, UserOK, Users, CoreOK, Cores, MirrorOK, Mirrors
<1>4. HistoryOK
  <2>1. [p \in Procs |-> FALSE] \in [Procs -> BOOLEAN] /\ 0 \in 0..MaxCommands /\ 0 \in 0..MaxFaults
    BY BoundsAssumption
  <2> QED BY <1>1, <2>1 DEF HistoryOK, Histories
<1>5. LockOK /\ DaemonOK /\ SampleOK /\ CmdOK
  BY NoSampleTyped, IdleCommand DEF Init, LockOK, DaemonOK, Daemons, NoSegment, SampleOK, CmdOK
<1>6. Served /\ Locked
  BY <1>2, IdleCommand DEF Served, Locked, At, Owning, InDaemon
<1>7. Sampled
  BY NoSampleTyped DEF Init, Sampled
<1>8. Alone
  BY <1>2, IdleCommand DEF Alone, At
<1> QED BY <1>3, <1>4, <1>5, <1>6, <1>7, <1>8 DEF Inv, Typed

LEMMA InvStep == Inv /\ [Next]_vars => Inv'
<1>1. ASSUME Inv, Next PROVE Inv'
  BY <1>1, TypedStep, ServedStep, LockedStep, SampledStep, AloneStep DEF Inv
<1>2. ASSUME Inv, UNCHANGED vars PROVE Inv'
  <2>1. Typed' /\ Served' /\ Locked'
    BY <1>2 DEF Inv, vars, Typed, UserOK, LockOK, MirrorOK, CoreOK, DaemonOK, SampleOK, CmdOK,
                HistoryOK, Served, Locked, At
  <2>2. Sampled'
    BY <1>2 DEF Inv, vars, Sampled, InFlight
  <2>3. Alone'
    <3>1. UNCHANGED <<user, mirror, core, cmd, history>>
      BY <1>2 DEF vars
    <3>2. Drifted' = Drifted
      BY <3>1 DEF Drifted, Written
    <3>3. ASSUME NEW p \in Procs PROVE Restores(p)' <=> Restores(p)
      BY <3>1, <3>2 DEF Restores
    <3>4. \A p \in Procs, l \in PCs : At(p, l)' <=> At(p, l)
      BY <3>1 DEF At
    <3>5. "idle" \in PCs
      BY DEF PCs
    <3> QED BY <1>2, <3>1, <3>3, <3>4, <3>5 DEF Inv, Alone
  <2> QED BY <2>1, <2>2, <2>3 DEF Inv
<1> QED BY <1>1, <1>2

LEMMA AlwaysInv == Spec => []Inv
BY InvInit, InvStep, PTL DEF Spec

\* Every part of the state keeps its type: a node is put to the Core only for a
\* group that the replayed file pins, and what is loaded is a subscription.
THEOREM SelectionTypeCorrect == Spec => []TypeOK
<1>1. Inv => TypeOK
  BY DEF Inv, Typed, UserOK, Users, LockOK, MirrorOK, Mirrors, CoreOK, Cores, DaemonOK, Daemons,
         SampleOK, Samples, CmdOK, Commands, Names, HistoryOK, Histories, TypeOK
<1> QED BY <1>1, AlwaysInv, PTL

\* A published drift is one: the brackets of the handlers and the sampler's
\* look at them leave no sample that something has changed under.
THEOREM DriftsAreReal == Spec => []DriftIsSimultaneous
<1>1. Inv => DriftIsSimultaneous
  BY DEF Inv, Sampled, DriftIsSimultaneous, Published
<1> QED BY <1>1, AlwaysInv, PTL

\* Selections and removals of any number of commands, of one group or of all, change the
\* groups they are about and no other, because each works on the file under the
\* selection lock.
THEOREM SelectionsAreKept == Spec => NoLostSelection
<1> DEFINE Kept(s) ==
      \E p \in Procs :
         /\ At(p, "save") /\ cmd[p].sub = s /\ cmd'[p] # cmd[p]
         /\ \A g \in Groups \ About(cmd[p]) :
              Content(user'.pins[s])[g] = Content(user.pins[s])[g]
<1>1. ASSUME Inv, Next, NEW s \in Subs, user'.pins[s] # user.pins[s]
      PROVE  Kept(s)
  <2>1. PICK p \in Procs : Acts(p)
    BY <1>1, NextCases DEF Sampler, SampleBegin, SampleFetch, SampleCompare, SamplePublish, Crash, Boot
  <2>2. At(p, "save") /\ cmd[p].sub = s
    BY <1>1, <2>1, SaveEffect DEF Inv
  <2>3. ASSUME cmd'[p] = cmd[p] PROVE FALSE
    <3>1. Load(p)
      BY <1>1, <2>1, <2>2, <2>3, ActsEnters DEF Inv, Enters, At
    <3> QED BY <2>2, <3>1 DEF Load, At
  <2>4. \A g \in Groups \ About(cmd[p]) : Content(user'.pins[s])[g] = Content(user.pins[s])[g]
    BY <1>1, <2>1, SaveEffect DEF Inv
  <2> QED BY <2>2, <2>3, <2>4
<1>2. Inv /\ [Next]_vars => [\A s \in Subs : user'.pins[s] # user.pins[s] => Kept(s)]_vars
  BY <1>1
<1> QED BY <1>2, AlwaysInv, PTL DEF Spec, NoLostSelection

\* However many subscriptions, groups and nodes there are, and whatever the
\* Core's own cache came up with, a restart alone whose calls all succeeded has
\* put the Core on every pinned node by the time it ends.
THEOREM RestartsRestore == Spec => RestartRestores
<1>1. ASSUME Inv, NEW p \in Procs, At(p, "finish"), cmd[p].name = "restart", history.alone[p],
             ~cmd[p].lost, core.up
      PROVE  \A g \in Pinned(user.pins[user.active]) : core.now[g] = user.pins[user.active][g]
  BY <1>1 DEF Inv, Alone, Restores, At
<1>2. Inv /\ [Next]_vars
        => [\A p \in Procs :
              At(p, "finish") /\ cmd[p].name = "restart" /\ history.alone[p] /\ ~cmd[p].lost /\ core.up
                => \A g \in Pinned(user.pins[user.active]) :
                     core.now[g] = user.pins[user.active][g]]_vars
  BY <1>1
<1> QED BY <1>2, AlwaysInv, PTL DEF Spec, RestartRestores

=============================================================================
