------------------------ MODULE InstanceModesProofs ------------------------
(***************************************************************************)
(* The two installations exclude each other, leave no orphan and run when  *)
(* an installation says so, for any number of processes, commands, faults  *)
(* and reboots.  The second part is about the downloads of an installation *)
(* (Downloads): they heal and install what was asked for.                  *)
(***************************************************************************)
EXTENDS InstanceModes, DownloadPromises, Sequences, TLAPS

Services == [unit : SUBSET Modes, torn : SUBSET Modes, enabled : SUBSET Modes,
             active : SUBSET Modes, core : BOOLEAN, auto : BOOLEAN]

SvcOK == svc \in Services

Files == [binary : [Modes -> Binaries], bak : Binaries, config : Modes \cup {"none"},
          leftovers : BOOLEAN, pref : Modes \cup {"auto"}]

FilesOK == files \in Files

HistOK ==
  hist \in [clash : SUBSET {"modes", "removal", "hidden"}, commands : 0..MaxCommands,
            faults : 0..MaxFaults]

Commands ==
  [pc : PCs \cup Results, mode : Modes, force : BOOLEAN,
   op : {"none", "install", "start", "uninstall", "purge", "update"},
   seen : SUBSET (Components \cup Modes)]

\* The step a command is at belongs to its kind.
Steps(op) ==
  {l \in PCs \cup Results :
     /\ op = "none" => l \in Results \cup {"idle"}
     /\ op = "install" => l \in {"drop", "drop unit", "check", "payload", "unit", "config",
                                 "activate", "post"}
     /\ op = "start" => l = "run"
     /\ op = "uninstall" => l \in {"stop", "remove unit", "remove"}
     /\ op = "purge" => l \in {"stop", "remove"}
     /\ op = "update" => l \in {"replace", "rename", "download", "clean"}}

CmdOK == cmd \in [Procs -> Commands] /\ \A p \in Procs : cmd[p].pc \in Steps(cmd[p].op)

Typed == SvcOK /\ FilesOK /\ HistOK /\ CmdOK

LEMMA TypedIsTypeOK == Typed => TypeOK
BY DEF Typed, SvcOK, Services, FilesOK, Files, HistOK, CmdOK, Commands, TypeOK

-----------------------------------------------------------------------------
(* The ways a command moves.                                               *)

LEMMA BeginTyped ==
  ASSUME CmdOK, NEW p \in Procs, NEW c \in Commands, c.pc \in Steps(c.op), Begin(p, c)
  PROVE  CmdOK'
BY DEF CmdOK, Begin

LEMMA GotoTyped ==
  ASSUME CmdOK, NEW p \in Procs, NEW l \in Steps(cmd[p].op), Goto(p, l)
  PROVE  CmdOK'
<1>1. cmd[p] \in Commands /\ l \in PCs \cup Results
  BY DEF CmdOK, Steps
<1>2. [cmd[p] EXCEPT !.pc = l] \in Commands
  BY <1>1 DEF Commands
<1>3. cmd' = [cmd EXCEPT ![p] = [cmd[p] EXCEPT !.pc = l]]
  BY DEF Goto
<1>4. [cmd[p] EXCEPT !.pc = l].pc \in Steps([cmd[p] EXCEPT !.pc = l].op)
  BY <1>1 DEF Commands
<1> QED BY <1>2, <1>3, <1>4 DEF CmdOK

LEMMA EndTyped ==
  ASSUME CmdOK, NEW p \in Procs, NEW r \in Results, End(p, r)
  PROVE  CmdOK'
BY DEF CmdOK, End, Idle, Commands, Steps, PCs, Results, Modes

LEMMA FaultTyped == ASSUME HistOK, Fault PROVE HistOK'
BY BoundsAssumption DEF HistOK, Fault, Faulted

LEMMA ModesTyped ==
  /\ \A m \in Modes : Other(m) \in Modes /\ Other(m) # m /\ Modes = {m, Other(m)}
  /\ "system" \in Modes /\ "user" \in Modes
BY DEF Modes, Other

\* What a service manager makes of a service is a state of the services.
LEMMA ServiceTyped ==
  ASSUME SvcOK, NEW m \in Modes
  PROVE  /\ Started(m) \in Services /\ Activated(m) \in Services /\ Stopped(m) \in Services
         /\ [svc EXCEPT !.unit = @ \ {m}, !.torn = @ \ {m}] \in Services
         /\ \A on \in BOOLEAN :
              Written(m, on) \in Services /\ Marked(on) \in Services /\ Linked(on) \in Services
<1>1. Started(m) \in Services
  BY DEF SvcOK, Services, Started
<1>2. Activated(m) \in Services
  BY <1>1 DEF Services, Activated
<1>3. Stopped(m) \in Services
  BY DEF SvcOK, Services, Stopped
<1>4. [svc EXCEPT !.unit = @ \ {m}, !.torn = @ \ {m}] \in Services
  BY DEF SvcOK, Services
<1>5. ASSUME NEW on \in BOOLEAN
      PROVE  Written(m, on) \in Services /\ Marked(on) \in Services /\ Linked(on) \in Services
  <2>1. Written(m, on) \in Services
    <3>1. on \in {TRUE, FALSE}
      BY <1>5
    <3>2. [svc EXCEPT !.unit = @ \cup {m}, !.torn = @ \cup {m}] \in Services
      BY DEF SvcOK, Services
    <3>3. [svc EXCEPT !.unit = @ \cup {m}, !.torn = @ \ {m}] \in Services
      BY DEF SvcOK, Services
    <3> QED BY <3>1, <3>2, <3>3 DEF Written
  <2>2. Marked(on) \in Services
    BY <1>5 DEF SvcOK, Services, Marked
  <2>3. Linked(on) \in Services
    <3>1. [svc EXCEPT !.enabled = @ \cup {"user"}] \in Services
      BY ModesTyped DEF SvcOK, Services
    <3>2. [svc EXCEPT !.enabled = @ \ {"user"}] \in Services
      BY DEF SvcOK, Services
    <3> QED BY <1>5, <3>1, <3>2 DEF Linked
  <2> QED BY <2>1, <2>2, <2>3
<1> QED BY <1>1, <1>2, <1>3, <1>4, <1>5

LEMMA BootedTyped ==
  ASSUME NEW s \in Services, NEW t \in Booted(s)
  PROVE  t \in Services
BY DEF Booted, Services

LEMMA SvcStep ==
  ASSUME Typed, NEW p \in Procs, Step(p)
  PROVE  SvcOK'
<1> DEFINE m == cmd[p].mode
<1>1. m \in Modes /\ SvcOK
  BY DEF Typed, CmdOK, Commands
<1>2. CASE UNCHANGED svc
  BY <1>1, <1>2 DEF SvcOK
<1>3. CASE InstallUnit(p)
  BY <1>1, <1>2, <1>3, ServiceTyped DEF InstallUnit, SvcOK
<1>4. CASE InstallActivate(p)
  BY <1>1, <1>2, <1>4, ServiceTyped, BootedTyped DEF InstallActivate, SvcOK
<1>5. CASE InstallPost(p)
  BY <1>1, <1>2, <1>5 DEF InstallPost, SvcOK, Services
<1>6. CASE DropService(p) \/ DropUnit(p)
  BY <1>1, <1>2, <1>6, ServiceTyped, ModesTyped DEF DropService, DropUnit, SvcOK
<1>7. CASE RunStart(p)
  <2>1. Started(m) \in Services
    BY <1>1, ServiceTyped
  <2>2. \E b \in BOOLEAN : svc' = [Started(m) EXCEPT !.core = b]
    BY <1>7, <2>1 DEF RunStart, Services
  <2> QED BY <2>1, <2>2 DEF SvcOK, Services
<1>8. CASE StopCommand(p)
  BY <1>1, <1>8 DEF StopCommand, SvcOK, Services
<1>9. CASE UninstallStop(p) \/ UninstallUnit(p)
  BY <1>1, <1>2, <1>9, ServiceTyped DEF UninstallStop, UninstallUnit, SvcOK
<1>10. CASE PurgeStop(p) \/ PurgeRemove(p)
  BY <1>1, <1>2, <1>10, ServiceTyped DEF PurgeStop, PurgeRemove, SvcOK
<1>11. CASE AutostartCommand(p)
  BY <1>1, <1>11, ServiceTyped, ModesTyped DEF AutostartCommand, SvcOK
<1>12. CASE \/ InstallCommand(p) \/ CheckInstall(p) \/ InstallPayload(p) \/ InstallConfig(p)
            \/ TunCommand(p) \/ StartCommand(p) \/ UninstallCommand(p) \/ UninstallFiles(p)
            \/ PurgeCommand(p) \/ UpdateCommand(p) \/ UpdateReplace(p) \/ UpdateRename(p)
            \/ UpdateDownload(p) \/ UpdateClean(p) \/ UseCommand(p) \/ RemoveLeftovers(p)
            \/ Kill(p)
  <2>1. UNCHANGED svc
    BY <1>12 DEF InstallCommand, CheckInstall, InstallPayload, InstallConfig, TunCommand,
                 StartCommand, UninstallCommand, UninstallFiles, PurgeCommand, UpdateCommand,
                 UpdateReplace, UpdateRename, UpdateDownload, UpdateClean, UseCommand,
                 RemoveLeftovers, Kill
  <2> QED BY <1>2, <2>1
<1> QED
  BY <1>3, <1>4, <1>5, <1>6, <1>7, <1>8, <1>9, <1>10, <1>11, <1>12 DEF Step

LEMMA FileTyped ==
  ASSUME FilesOK, NEW m \in Modes
  PROVE  /\ \A b \in Binaries : [files EXCEPT !.binary[m] = b] \in Files
         /\ ConfigFor(m) \in Files
         /\ \A what : Removed(m, what) \in Files
         /\ Restored \in Files
<1>1. \A b \in Binaries : [files EXCEPT !.binary[m] = b] \in Files
  BY DEF FilesOK, Files
<1>2. ConfigFor(m) \in Files
  BY DEF FilesOK, Files, ConfigFor
<1>3. ASSUME NEW what PROVE Removed(m, what) \in Files
  <2> DEFINE all == "config" \in what
             b == IF "binary" \in what THEN "none" ELSE files.binary[m]
             c == IF all THEN "none" ELSE files.config
             r == IF all THEN "auto" ELSE files.pref
  <2>1. /\ b \in Binaries /\ c \in Modes \cup {"none"} /\ r \in Modes \cup {"auto"}
        /\ (files.leftovers /\ ~all) \in BOOLEAN
    BY DEF FilesOK, Files, Binaries
  <2>2. Removed(m, what) = [[files EXCEPT !.binary[m] = b]
                              EXCEPT !.config = c, !.leftovers = files.leftovers /\ ~all, !.pref = r]
    BY DEF Removed, FilesOK, Files
  <2> HIDE DEF b, c, r, all
  <2>3. [files EXCEPT !.binary[m] = b] \in Files
    BY <1>1, <2>1
  <2> QED BY <2>1, <2>2, <2>3 DEF Files
<1>4. Restored \in Files
  BY ModesTyped DEF FilesOK, Files, Restored, Binaries
<1> QED BY <1>1, <1>2, <1>3, <1>4

LEMMA FilesStep ==
  ASSUME Typed, NEW p \in Procs, Step(p)
  PROVE  FilesOK'
<1> DEFINE m == cmd[p].mode
<1>1. m \in Modes /\ FilesOK /\ {"none", "torn", "good"} = Binaries
  BY DEF Typed, CmdOK, Commands, Binaries
<1>2. CASE UNCHANGED files
  BY <1>1, <1>2 DEF FilesOK
<1>3. CASE InstallPayload(p)
  BY <1>1, <1>2, <1>3, FileTyped DEF InstallPayload, Binary, FilesOK
<1>4. CASE InstallConfig(p) \/ InstallPost(p)
  BY <1>1, <1>2, <1>4, FileTyped DEF InstallConfig, InstallPost, FilesOK
<1>5. CASE RunStart(p)
  BY <1>1, <1>5 DEF RunStart, FilesOK, Files
<1>6. CASE UninstallFiles(p) \/ PurgeRemove(p)
  BY <1>1, <1>6, FileTyped DEF UninstallFiles, PurgeRemove, FilesOK
<1>7. CASE UpdateReplace(p) \/ UpdateDownload(p)
  BY <1>1, <1>2, <1>7, FileTyped, ModesTyped DEF UpdateReplace, UpdateDownload, Binary, FilesOK
<1>8. CASE UpdateRename(p)
  <2>1. "user" \in Modes /\ files.binary["user"] \in Binaries /\ "none" \in Binaries
    BY <1>1, ModesTyped DEF FilesOK, Files
  <2>2. [files EXCEPT !.bak = files.binary["user"], !.binary["user"] = "none"] \in Files
    BY <1>1, <2>1 DEF FilesOK, Files
  <2> QED BY <1>1, <1>2, <1>8, <2>2 DEF UpdateRename, FilesOK
<1>9. CASE UpdateClean(p)
  BY <1>1, <1>9 DEF UpdateClean, FilesOK, Files
<1>10. CASE UseCommand(p) \/ RemoveLeftovers(p)
  BY <1>1, <1>10 DEF UseCommand, RemoveLeftovers, FilesOK, Files
<1>11. CASE \/ InstallCommand(p) \/ CheckInstall(p) \/ InstallUnit(p) \/ InstallActivate(p)
            \/ TunCommand(p) \/ DropService(p) \/ DropUnit(p) \/ StartCommand(p) \/ StopCommand(p)
            \/ UninstallCommand(p) \/ UninstallStop(p) \/ UninstallUnit(p) \/ PurgeCommand(p)
            \/ PurgeStop(p) \/ UpdateCommand(p) \/ AutostartCommand(p) \/ Kill(p)
  <2>1. UNCHANGED files
    BY <1>11 DEF InstallCommand, CheckInstall, InstallUnit, InstallActivate, TunCommand,
                 DropService, DropUnit, StartCommand, StopCommand, UninstallCommand,
                 UninstallStop, UninstallUnit, PurgeCommand, PurgeStop, UpdateCommand,
                 AutostartCommand, Kill
  <2> QED BY <1>2, <2>1
<1> QED
  BY <1>3, <1>4, <1>5, <1>6, <1>7, <1>8, <1>9, <1>10, <1>11 DEF Step

\* The record of which commands met only grows.
LEMMA HistStep ==
  ASSUME Typed, NEW p \in Procs, Step(p)
  PROVE  HistOK' /\ hist.clash \subseteq hist'.clash
<1>1. HistOK
  BY DEF Typed
<1>2. CASE UNCHANGED hist \/ Fault
  BY <1>1, <1>2, BoundsAssumption DEF HistOK, Fault, Faulted
<1>3. CASE CheckInstall(p)
  BY <1>1, <1>2, <1>3 DEF CheckInstall, Note, Meets, HistOK
<1>4. \A ms, starts : /\ hist.clash \subseteq Note(p, ms, starts)
                      /\ Note(p, ms, starts) \subseteq {"modes", "removal", "hidden"}
  BY <1>1 DEF Note, Meets, HistOK
<1>5. ASSUME hist.commands < MaxCommands,
             NEW met \in SUBSET {"modes", "removal", "hidden"}, hist.clash \subseteq met,
             hist' = [hist EXCEPT !.commands = @ + 1, !.clash = met]
      PROVE  HistOK' /\ hist.clash \subseteq hist'.clash
  <2>1. hist.commands + 1 \in 0..MaxCommands
    BY <1>1, <1>5, BoundsAssumption DEF HistOK
  <2> QED BY <1>1, <1>5, <2>1 DEF HistOK
<1>6. CASE \/ TunCommand(p) \/ StartCommand(p) \/ UninstallCommand(p) \/ PurgeCommand(p)
           \/ UpdateCommand(p)
  <2>1. CASE TunCommand(p)
    <3> DEFINE met == IF "user" \in Presence THEN Note(p, {"user"}, FALSE) ELSE hist.clash
    <3>1. met \in SUBSET {"modes", "removal", "hidden"} /\ hist.clash \subseteq met
      BY <1>1, <1>4 DEF HistOK
    <3>2. hist.commands < MaxCommands /\ hist' = [hist EXCEPT !.commands = @ + 1, !.clash = met]
      BY <2>1 DEF TunCommand, Begin
    <3> HIDE DEF met
    <3> QED BY <1>5, <3>1, <3>2
  <2>2. CASE StartCommand(p) \/ UninstallCommand(p) \/ PurgeCommand(p) \/ UpdateCommand(p)
    <3>1. /\ hist.commands < MaxCommands
          /\ \E ms, starts :
               hist' = [hist EXCEPT !.commands = @ + 1, !.clash = Note(p, ms, starts)]
      BY <2>2 DEF StartCommand, UninstallCommand, PurgeCommand, UpdateCommand, Begin
    <3> QED BY <1>4, <1>5, <3>1
  <2> QED BY <1>6, <2>1, <2>2
<1>7. CASE \/ InstallCommand(p) \/ StopCommand(p) \/ UseCommand(p) \/ AutostartCommand(p)
           \/ RemoveLeftovers(p)
  <2>1. hist.commands < MaxCommands /\ hist' = [hist EXCEPT !.commands = @ + 1]
    BY <1>7 DEF InstallCommand, StopCommand, UseCommand, AutostartCommand, RemoveLeftovers, Begin
  <2> QED BY <1>1, <2>1, BoundsAssumption DEF HistOK
<1>8. CASE InstallPayload(p)
  <2>1. UNCHANGED hist \/ FaultTaking(p)
    BY <1>8 DEF InstallPayload
  <2>2. CASE FaultTaking(p)
    <3>1. Taken(p) \subseteq {"modes", "removal"}
      BY DEF Taken, Meets
    <3>2. hist' = [[hist EXCEPT !.faults = @ + 1] EXCEPT !.clash = @ \cup Taken(p)]
      BY <2>2 DEF FaultTaking, Faulted
    <3>3. hist.faults + 1 \in 0..MaxFaults
      BY <1>1, <2>2, BoundsAssumption DEF FaultTaking, HistOK
    <3> QED BY <1>1, <3>1, <3>2, <3>3 DEF HistOK
  <2> QED BY <1>2, <2>1, <2>2
<1>9. CASE \/ InstallUnit(p) \/ InstallConfig(p) \/ InstallActivate(p)
           \/ InstallPost(p) \/ DropService(p) \/ DropUnit(p) \/ RunStart(p) \/ UninstallStop(p)
           \/ UninstallUnit(p) \/ UninstallFiles(p) \/ PurgeStop(p) \/ PurgeRemove(p)
           \/ UpdateReplace(p) \/ UpdateRename(p) \/ UpdateDownload(p) \/ UpdateClean(p) \/ Kill(p)
  <2>1. UNCHANGED hist \/ Fault
    BY <1>9 DEF InstallUnit, InstallConfig, InstallActivate, InstallPost,
                DropService, DropUnit, RunStart, UninstallStop, UninstallUnit, UninstallFiles,
                PurgeStop, PurgeRemove, UpdateReplace, UpdateRename, UpdateDownload, UpdateClean,
                Kill
  <2> QED BY <1>2, <2>1
<1> QED
  BY <1>3, <1>6, <1>7, <1>8, <1>9 DEF Step

LEMMA ResolvedTyped ==
  ASSUME Typed, NEW request \in Requests, NEW intent
  PROVE  Resolved(request, intent) \subseteq Modes
<1>1. Unflagged(intent) \subseteq Modes
  BY ModesTyped DEF Typed, SvcOK, Services, Unflagged
<1> QED BY <1>1 DEF Resolved

\* A command begins at the first step of its kind.
LEMMA FirstTyped ==
  ASSUME NEW m \in Modes, NEW force \in BOOLEAN, NEW seen \in SUBSET (Components \cup Modes)
  PROVE  /\ \A r \in Results : [Idle EXCEPT !.pc = r] \in Commands
         /\ [Idle EXCEPT !.op = "install", !.mode = m, !.force = force, !.pc = "check"] \in Commands
         /\ [Idle EXCEPT !.op = "start", !.mode = m, !.pc = "run"] \in Commands
         /\ [Idle EXCEPT !.op = "uninstall", !.mode = m, !.seen = seen, !.pc = "stop"] \in Commands
         /\ [Idle EXCEPT !.op = "purge", !.mode = m, !.pc = "stop", !.seen = seen] \in Commands
         /\ \A l \in {"replace", "rename"} :
               [Idle EXCEPT !.op = "update", !.mode = m, !.pc = l] \in Commands
<1> USE DEF Idle, Commands, PCs
<1>1. \A r \in Results : [Idle EXCEPT !.pc = r] \in Commands
  BY ModesTyped
<1>2. [Idle EXCEPT !.op = "install", !.mode = m, !.force = force, !.pc = "check"] \in Commands
  OBVIOUS
<1>3. [Idle EXCEPT !.op = "start", !.mode = m, !.pc = "run"] \in Commands
  OBVIOUS
<1>4. [Idle EXCEPT !.op = "uninstall", !.mode = m, !.seen = seen, !.pc = "stop"] \in Commands
  OBVIOUS
<1>5. [Idle EXCEPT !.op = "purge", !.mode = m, !.pc = "stop", !.seen = seen] \in Commands
  OBVIOUS
<1>6. \A l \in {"replace", "rename"} : [Idle EXCEPT !.op = "update", !.mode = m, !.pc = l] \in Commands
  OBVIOUS
<1> QED BY <1>1, <1>2, <1>3, <1>4, <1>5, <1>6

\* Between two steps a command stays what it is.
LEMMA MoveTyped ==
  ASSUME CmdOK, NEW p \in Procs, NEW l, Goto(p, l),
         \/ cmd[p].op = "install" /\ l \in {"drop unit", "check", "payload", "unit", "config",
                                          "activate", "post"}
         \/ cmd[p].op = "uninstall" /\ l \in {"remove unit", "remove"}
         \/ cmd[p].op = "purge" /\ l = "remove"
         \/ cmd[p].op = "update" /\ l \in {"download", "clean"}
  PROVE  CmdOK'
<1>1. l \in Steps(cmd[p].op)
  BY DEF Steps, PCs
<1> QED BY <1>1, GotoTyped

LEMMA CmdStep ==
  ASSUME Typed, NEW p \in Procs, Step(p)
  PROVE  CmdOK'
<1> DEFINE m == cmd[p].mode
<1>1. /\ CmdOK /\ m \in Modes /\ cmd[p] \in Commands /\ cmd[p].pc \in Steps(cmd[p].op)
      /\ cmd[p].op \in {"none", "install", "start", "uninstall", "purge", "update"}
  BY DEF Typed, CmdOK, Commands
<1>2. ASSUME NEW r \in Results, End(p, r) PROVE CmdOK'
  BY <1>1, <1>2, EndTyped
<1>3. ASSUME NEW r \in Results, Begin(p, [Idle EXCEPT !.pc = r]) PROVE CmdOK'
  BY <1>1, <1>3, FirstTyped, BeginTyped, ModesTyped DEF Idle, Steps
<1>4. CASE InstallCommand(p)
  <2>1. PICK mode \in Modes, force \in BOOLEAN :
          Begin(p, [Idle EXCEPT !.op = "install", !.mode = mode, !.force = force, !.pc = "check"])
    BY <1>4 DEF InstallCommand
  <2> DEFINE c == [Idle EXCEPT !.op = "install", !.mode = mode, !.force = force, !.pc = "check"]
  <2>2. c \in Commands /\ c.pc \in Steps(c.op)
    BY FirstTyped DEF Idle, Steps, PCs
  <2> QED BY <1>1, <2>1, <2>2, BeginTyped
<1>5. CASE CheckInstall(p)
  <2>1. CASE End(p, "refused") \/ End(p, "ok")
    BY <1>2, <2>1 DEF Results
  <2>2. CASE cmd' = [cmd EXCEPT ![p].pc = "payload", ![p].seen = Found(m)]
    <3>1. cmd[p].op = "install"
      BY <1>1, <1>5 DEF CheckInstall, Steps, Results
    <3>2. Found(m) \subseteq Components
      BY DEF Found
    <3>3. [cmd[p] EXCEPT !.pc = "payload", !.seen = Found(m)] \in Commands
      BY <1>1, <3>2 DEF Commands, PCs
    <3>4. cmd' = [cmd EXCEPT ![p] = [cmd[p] EXCEPT !.pc = "payload", !.seen = Found(m)]]
      BY <1>1, <2>2 DEF CmdOK, Commands
    <3> QED BY <1>1, <3>1, <3>3, <3>4 DEF CmdOK, Steps, PCs, Commands
  <2> QED BY <1>5, <2>1, <2>2 DEF CheckInstall
<1>6. CASE InstallPayload(p) \/ InstallUnit(p) \/ InstallConfig(p) \/ InstallActivate(p)
  <2>1. cmd[p].op = "install"
    BY <1>1, <1>6 DEF InstallPayload, InstallUnit, InstallConfig, InstallActivate, Steps, Results
  <2>2. \/ \E l \in {"unit", "config", "activate", "post"} : Goto(p, l)
        \/ \E r \in Results : End(p, r)
    BY <1>6 DEF InstallPayload, InstallUnit, InstallConfig, InstallActivate, Results
  <2> QED BY <1>1, <1>2, <2>1, <2>2, MoveTyped
<1>7. CASE InstallPost(p)
  BY <1>2, <1>7 DEF InstallPost, Results
<1>8. CASE TunCommand(p)
  <2> DEFINE c == [Idle EXCEPT !.op = "install", !.mode = "system", !.force = TRUE, !.pc = "check"]
             d == [c EXCEPT !.pc = "drop"]
  <2>1. Begin(p, c) \/ Begin(p, d)
    BY <1>8 DEF TunCommand, ForcedInstall
  <2>2. c \in Commands /\ c.pc \in Steps(c.op)
    BY FirstTyped, ModesTyped DEF Idle, Steps, PCs
  <2>3. d \in Commands /\ d.pc \in Steps(d.op)
    BY <2>2 DEF Idle, Commands, Steps, PCs
  <2> QED BY <1>1, <2>1, <2>2, <2>3, BeginTyped
<1>9. CASE DropService(p) \/ DropUnit(p)
  <2>1. cmd[p].op = "install"
    BY <1>1, <1>9 DEF DropService, DropUnit, Steps, Results
  <2> QED BY <1>1, <1>9, <2>1, MoveTyped DEF DropService, DropUnit
<1>10. CASE StartCommand(p)
  <2>1. PICK mode \in Modes : Begin(p, [Idle EXCEPT !.op = "start", !.mode = mode, !.pc = "run"])
    BY <1>10, ResolvedTyped DEF StartCommand
  <2> DEFINE c == [Idle EXCEPT !.op = "start", !.mode = mode, !.pc = "run"]
  <2>2. c \in Commands /\ c.pc \in Steps(c.op)
    BY FirstTyped DEF Idle, Steps, PCs
  <2> QED BY <1>1, <2>1, <2>2, BeginTyped
<1>11. CASE RunStart(p) \/ Kill(p)
  BY <1>2, <1>11 DEF RunStart, Kill, Results
<1>12. CASE StopCommand(p) \/ UseCommand(p) \/ AutostartCommand(p) \/ RemoveLeftovers(p)
  BY <1>3, <1>12 DEF StopCommand, UseCommand, AutostartCommand, RemoveLeftovers, Results
<1>13. CASE UninstallCommand(p)
  <2>1. PICK mode \in Modes, chosen \in SUBSET {"binary", "config"} :
          Begin(p, [Idle EXCEPT !.op = "uninstall", !.mode = mode, !.seen = chosen, !.pc = "stop"])
    BY <1>13, ResolvedTyped DEF UninstallCommand
  <2> DEFINE c == [Idle EXCEPT !.op = "uninstall", !.mode = mode, !.seen = chosen, !.pc = "stop"]
  <2>2. c \in Commands
    <3>1. chosen \in SUBSET (Components \cup Modes)
      BY DEF Components
    <3> QED BY <3>1, FirstTyped
  <2>3. c.pc \in Steps(c.op)
    BY DEF Idle, Steps, PCs
  <2> QED BY <1>1, <2>1, <2>2, <2>3, BeginTyped
<1>14. CASE UninstallStop(p) \/ UninstallUnit(p) \/ UninstallFiles(p)
  <2>1. cmd[p].op = "uninstall"
    BY <1>1, <1>14 DEF UninstallStop, UninstallUnit, UninstallFiles, Steps, Results
  <2>2. \/ \E l \in {"remove unit", "remove"} : Goto(p, l)
        \/ \E r \in Results : End(p, r)
    BY <1>14 DEF UninstallStop, UninstallUnit, UninstallFiles, Results
  <2> QED BY <1>1, <1>2, <2>1, <2>2, MoveTyped
<1>15. CASE PurgeCommand(p)
  <2> DEFINE c == [Idle EXCEPT !.op = "purge", !.mode = "system", !.pc = "stop",
                               !.seen = Presence \cup svc.active]
  <2>1. Begin(p, c)
    BY <1>15 DEF PurgeCommand
  <2>2. c \in Commands
    <3>1. Presence \cup svc.active \in SUBSET (Components \cup Modes)
      BY DEF Typed, SvcOK, Services, Presence, Inventory
    <3> QED BY <3>1, FirstTyped, ModesTyped
  <2>3. c.pc \in Steps(c.op)
    BY DEF Idle, Steps, PCs
  <2> QED BY <1>1, <2>1, <2>2, <2>3, BeginTyped
<1>16. CASE PurgeStop(p)
  BY <1>1, <1>2, <1>16, MoveTyped DEF PurgeStop, Results
<1>17. CASE PurgeRemove(p)
  <2>1. CASE End(p, "ok")
    BY <1>2, <2>1 DEF Results
  <2>2. CASE cmd' = [cmd EXCEPT ![p].mode = "user", ![p].pc = "stop"]
    <3>1. [cmd[p] EXCEPT !.mode = "user", !.pc = "stop"] \in Commands
      BY <1>1, ModesTyped DEF Commands, PCs
    <3>2. cmd' = [cmd EXCEPT ![p] = [cmd[p] EXCEPT !.mode = "user", !.pc = "stop"]]
      BY <1>1, <2>2 DEF CmdOK, Commands
    <3>3. cmd[p].op = "purge"
      BY <1>17 DEF PurgeRemove
    <3> QED BY <1>1, <3>1, <3>2, <3>3 DEF CmdOK, Steps, PCs, Commands
  <2> QED BY <1>17, <2>1, <2>2 DEF PurgeRemove
<1>18. CASE UpdateCommand(p)
  <2>1. PICK mode \in Modes, l \in {"replace", "rename"} :
          Begin(p, [Idle EXCEPT !.op = "update", !.mode = mode, !.pc = l])
    BY <1>18, ResolvedTyped DEF UpdateCommand
  <2> DEFINE c == [Idle EXCEPT !.op = "update", !.mode = mode, !.pc = l]
  <2>2. c \in Commands /\ c.pc \in Steps(c.op)
    BY FirstTyped DEF Idle, Steps, PCs
  <2> QED BY <1>1, <2>1, <2>2, BeginTyped
<1>19. CASE UpdateReplace(p) \/ UpdateRename(p) \/ UpdateDownload(p) \/ UpdateClean(p)
  <2>1. cmd[p].op = "update"
    BY <1>1, <1>19 DEF UpdateReplace, UpdateRename, UpdateDownload, UpdateClean, Steps, Results
  <2>2. \/ \E l \in {"download", "clean"} : Goto(p, l)
        \/ \E r \in Results : End(p, r)
    BY <1>19 DEF UpdateReplace, UpdateRename, UpdateDownload, UpdateClean, Results
  <2> QED BY <1>1, <1>2, <2>1, <2>2, MoveTyped
<1> QED
  BY <1>4, <1>5, <1>6, <1>7, <1>8, <1>9, <1>10, <1>11, <1>12, <1>13, <1>14, <1>15, <1>16, <1>17,
     <1>18, <1>19 DEF Step

-----------------------------------------------------------------------------
(* Which steps begin a start or a removal, and what services and unit      *)
(* files come and go with.                                                 *)

LEMMA OthersStay ==
  ASSUME Typed, NEW p \in Procs, Step(p), NEW q \in Procs \ {p}
  PROVE  cmd'[q] = cmd[q]
<1>1. cmd \in [Procs -> Commands]
  BY DEF Typed, CmdOK
<1>2. \/ \E c : cmd' = [cmd EXCEPT ![p] = c]
      \/ \E l : Goto(p, l)
      \/ \E l, s : cmd' = [cmd EXCEPT ![p].pc = l, ![p].seen = s]
      \/ \E l, m : cmd' = [cmd EXCEPT ![p].mode = m, ![p].pc = l]
  <2> USE DEF Begin, End
  <2>1. CASE \/ InstallCommand(p) \/ TunCommand(p) \/ StartCommand(p) \/ StopCommand(p)
             \/ UninstallCommand(p) \/ PurgeCommand(p) \/ UpdateCommand(p) \/ UseCommand(p)
             \/ AutostartCommand(p) \/ RemoveLeftovers(p) \/ Kill(p) \/ RunStart(p)
    BY <2>1 DEF InstallCommand, TunCommand, StartCommand, StopCommand, UninstallCommand,
                PurgeCommand, UpdateCommand, UseCommand, AutostartCommand, RemoveLeftovers,
                Kill, RunStart
  <2>2. CASE \/ CheckInstall(p) \/ InstallPayload(p) \/ InstallUnit(p) \/ InstallConfig(p)
             \/ InstallActivate(p) \/ InstallPost(p) \/ DropService(p) \/ DropUnit(p)
    BY <2>2 DEF CheckInstall, InstallPayload, InstallUnit, InstallConfig, InstallActivate,
                InstallPost, DropService, DropUnit
  <2>3. CASE \/ UninstallStop(p) \/ UninstallUnit(p) \/ UninstallFiles(p) \/ PurgeStop(p)
             \/ PurgeRemove(p) \/ UpdateReplace(p) \/ UpdateRename(p) \/ UpdateDownload(p)
             \/ UpdateClean(p)
    BY <2>3 DEF UninstallStop, UninstallUnit, UninstallFiles, PurgeStop, PurgeRemove,
                UpdateReplace, UpdateRename, UpdateDownload, UpdateClean
  <2> QED BY <2>1, <2>2, <2>3 DEF Step
<1> QED BY <1>1, <1>2 DEF Goto

LEMMA OpOf ==
  ASSUME CmdOK, NEW p \in Procs
  PROVE  LET c == cmd[p] IN
         /\ c.pc \in {"drop", "drop unit", "check", "payload", "unit", "config", "activate", "post"}
              <=> c.op = "install"
         /\ c.pc = "run" <=> c.op = "start"
         /\ c.pc \in Results \cup {"idle"} <=> c.op = "none"
         /\ c.pc \in {"replace", "rename", "download", "clean"} <=> c.op = "update"
         /\ c.pc = "remove unit" => c.op = "uninstall"
         /\ c.pc \in {"stop", "remove"} => c.op \in {"uninstall", "purge"}
BY DEF CmdOK, Commands, Steps, Results

\* A removal begins with a record of what it met.
LEMMA RemovalCommand ==
  ASSUME Typed, NEW p \in Procs, UninstallCommand(p) \/ PurgeCommand(p) \/ UpdateCommand(p)
  PROVE  \E mode \in Modes :
           /\ cmd'[p].op \in {"uninstall", "purge", "update"} /\ cmd'[p].mode = mode
           /\ cmd'[p].pc \in {"stop", "replace", "rename"}
           /\ hist'.clash = Note(p, IF cmd'[p].op = "purge" THEN Modes ELSE {mode}, FALSE)
<1>1. cmd \in [Procs -> Commands] /\ HistOK
  BY DEF Typed, CmdOK
<1>2. CASE UninstallCommand(p)
  <2>1. PICK mode \in Modes, chosen \in SUBSET {"binary", "config"} :
          /\ Begin(p, [Idle EXCEPT !.op = "uninstall", !.mode = mode, !.seen = chosen, !.pc = "stop"])
          /\ hist' = [hist EXCEPT !.commands = @ + 1, !.clash = Note(p, {mode}, FALSE)]
    BY <1>2, ResolvedTyped DEF UninstallCommand
  <2>2. cmd'[p].op = "uninstall" /\ cmd'[p].mode = mode /\ cmd'[p].pc = "stop"
    BY <1>1, <2>1 DEF Begin, Idle
  <2> QED BY <1>1, <2>1, <2>2 DEF HistOK
<1>3. CASE PurgeCommand(p)
  <2>1. cmd'[p].op = "purge" /\ cmd'[p].mode = "system" /\ cmd'[p].pc = "stop"
    BY <1>1, <1>3 DEF PurgeCommand, Begin, Idle
  <2> QED BY <1>1, <1>3, <2>1, ModesTyped DEF PurgeCommand, HistOK
<1>4. CASE UpdateCommand(p)
  <2>1. PICK mode \in Modes, l \in {"replace", "rename"} :
          /\ Begin(p, [Idle EXCEPT !.op = "update", !.mode = mode, !.pc = l])
          /\ hist' = [hist EXCEPT !.commands = @ + 1, !.clash = Note(p, {mode}, FALSE)]
    BY <1>4, ResolvedTyped DEF UpdateCommand
  <2>2. cmd'[p].op = "update" /\ cmd'[p].mode = mode /\ cmd'[p].pc = l
    BY <1>1, <2>1 DEF Begin, Idle
  <2> QED BY <1>1, <2>1, <2>2 DEF HistOK
<1> QED BY <1>2, <1>3, <1>4

\* A start, or an installation past its check, begins beside nothing of the other
\* mode that it could see, and with a record of what it met.
Admitted(p, m) ==
  /\ Meets(p, {m}, TRUE) \subseteq hist'.clash
  /\ UNCHANGED <<svc, files>>
  /\ Other(m) \notin svc.active
  /\ cmd'[p].op = "install" =>
       /\ Other(m) \notin svc.unit \/ "hidden" \in hist'.clash
       /\ cmd'[p].pc = "payload" /\ cmd'[p].seen = Found(m)

LEMMA StartBegins ==
  ASSUME Typed, NEW p \in Procs, Step(p), NEW m \in Modes, Starting(p, m)', ~Starting(p, m)
  PROVE  Admitted(p, m)
<1>1. /\ cmd \in [Procs -> Commands] /\ cmd[p].pc \in Steps(cmd[p].op) /\ cmd[p] \in Commands
      /\ hist.clash \subseteq hist'.clash
  BY HistStep DEF Typed, CmdOK
<1>2. cmd'[p].op \in {"install", "start"} /\ cmd'[p].mode = m
      /\ cmd'[p].pc \notin {"drop", "drop unit", "check"}
  BY DEF Starting, Dropping
<1>3. ~ \E r \in Results : End(p, r)
  BY <1>1, <1>2 DEF End, Idle
<1>4. ~ \E r \in Results : Begin(p, [Idle EXCEPT !.pc = r])
  BY <1>1, <1>2 DEF Begin, Idle
<1>5. ASSUME NEW l, Goto(p, l)
      PROVE  cmd[p].op = "install" /\ cmd[p].pc \in {"drop", "drop unit", "check"} /\ l # "check"
             /\ l # "drop unit"
  BY <1>1, <1>2, <1>5 DEF Goto, Starting, Dropping, Commands, Steps, PCs, Results
<1>6. CASE StartCommand(p)
  <2>1. PICK mode \in Modes :
          /\ Other(mode) \notin svc.active
          /\ Begin(p, [Idle EXCEPT !.op = "start", !.mode = mode, !.pc = "run"])
          /\ hist' = [hist EXCEPT !.commands = @ + 1, !.clash = Note(p, {mode}, TRUE)]
          /\ UNCHANGED <<svc, files>>
    BY <1>6, ResolvedTyped DEF StartCommand
  <2>2. mode = m /\ cmd'[p].op = "start"
    BY <1>1, <1>2, <2>1 DEF Begin, Idle
  <2>3. hist'.clash = Note(p, {m}, TRUE)
    BY <2>1, <2>2 DEF Typed, HistOK
  <2> QED BY <2>1, <2>2, <2>3 DEF Admitted, Note
<1>7. CASE CheckInstall(p)
  <2>1. /\ ~ModeConflict(cmd[p].mode)
        /\ cmd' = [cmd EXCEPT ![p].pc = "payload", ![p].seen = Found(cmd[p].mode)]
        /\ hist' = [hist EXCEPT !.clash = Note(p, {cmd[p].mode}, TRUE) \cup
                       IF Other(cmd[p].mode) \in svc.unit \ Presence THEN {"hidden"} ELSE {}]
        /\ UNCHANGED <<svc, files>>
    BY <1>3, <1>7 DEF CheckInstall, Results
  <2>2. cmd[p].mode = m /\ cmd'[p].pc = "payload" /\ cmd'[p].seen = Found(m)
    BY <1>1, <1>2, <2>1 DEF Commands
  <2>3. hist'.clash = Note(p, {m}, TRUE) \cup
                        IF Other(m) \in svc.unit \ Presence THEN {"hidden"} ELSE {}
    BY <2>1, <2>2 DEF Typed, HistOK
  <2>4. Other(m) \notin Presence \cup svc.active
    BY <2>1, <2>2 DEF ModeConflict
  <2> QED BY <2>1, <2>2, <2>3, <2>4 DEF Admitted, Note
<1>8. CASE \/ StopCommand(p) \/ UseCommand(p) \/ AutostartCommand(p) \/ RemoveLeftovers(p)
           \/ RunStart(p) \/ Kill(p) \/ InstallPost(p)
  BY <1>3, <1>4, <1>8
  DEF StopCommand, UseCommand, AutostartCommand, RemoveLeftovers, RunStart, Kill, InstallPost,
      Results
<1>9. CASE InstallCommand(p) \/ TunCommand(p)
  BY <1>1, <1>2, <1>9 DEF InstallCommand, TunCommand, Begin, ForcedInstall, Idle
<1>10. CASE UninstallCommand(p) \/ PurgeCommand(p) \/ UpdateCommand(p)
  BY <1>2, <1>10, RemovalCommand
<1>11. CASE InstallPayload(p) \/ InstallUnit(p) \/ InstallConfig(p) \/ InstallActivate(p)
  BY <1>3, <1>5, <1>11
  DEF InstallPayload, InstallUnit, InstallConfig, InstallActivate, Results
<1>12. CASE DropService(p) \/ DropUnit(p)
  BY <1>5, <1>12 DEF DropService, DropUnit
<1>13. CASE UninstallStop(p) \/ UninstallUnit(p) \/ UninstallFiles(p) \/ PurgeStop(p)
  BY <1>3, <1>5, <1>13 DEF UninstallStop, UninstallUnit, UninstallFiles, PurgeStop, Results
<1>14. CASE PurgeRemove(p)
  BY <1>1, <1>2, <1>3, <1>14 DEF PurgeRemove, Results, Commands
<1>15. CASE UpdateReplace(p) \/ UpdateRename(p) \/ UpdateDownload(p) \/ UpdateClean(p)
  BY <1>3, <1>5, <1>15 DEF UpdateReplace, UpdateRename, UpdateDownload, UpdateClean, Results
<1> QED
  BY <1>6, <1>7, <1>8, <1>9, <1>10, <1>11, <1>12, <1>13, <1>14, <1>15 DEF Step

Recorded(p, m) == Meets(p, {m}, FALSE) \subseteq hist'.clash

LEMMA RemovalBegins ==
  ASSUME Typed, NEW p \in Procs, Step(p), NEW m \in Modes, Removing(p, m)', ~Removing(p, m)
  PROVE  Recorded(p, m)
<1>1. /\ cmd \in [Procs -> Commands] /\ cmd[p] \in Commands /\ HistOK /\ CmdOK
  BY DEF Typed, CmdOK
<1>2. \/ cmd'[p].op \in {"uninstall", "update"} /\ cmd'[p].mode = m
      \/ cmd'[p].op = "purge"
      \/ cmd'[p].pc \in {"drop", "drop unit"} /\ m = "user"
  BY DEF Removing, Dropping
<1>3. /\ cmd[p].op \in {"uninstall", "update"} => cmd[p].mode # m
      /\ cmd[p].op # "purge"
      /\ cmd[p].pc \in {"drop", "drop unit"} => m # "user"
  BY DEF Removing, Dropping
<1>4. ~ \E r \in Results : End(p, r)
  BY <1>1, <1>2 DEF End, Idle, Results
<1>5. ~ \E r \in Results : Begin(p, [Idle EXCEPT !.pc = r])
  BY <1>1, <1>2 DEF Begin, Idle, Results
<1>6. ASSUME NEW l, Goto(p, l) PROVE l \in {"drop", "drop unit"} /\ cmd[p].pc # "drop"
  BY <1>1, <1>2, <1>3, <1>6 DEF Goto, Commands
<1>7. ASSUME NEW ms \in SUBSET Modes, m \in ms, hist'.clash = Note(p, ms, FALSE)
      PROVE  Recorded(p, m)
  BY <1>7 DEF Note, Meets, Recorded
<1>8. CASE TunCommand(p)
  <2>1. m = "user" /\ "user" \in Presence
    BY <1>1, <1>2, <1>8 DEF TunCommand, Begin, ForcedInstall, Idle
  <2>2. hist'.clash = Note(p, {"user"}, FALSE)
    BY <1>1, <1>8, <2>1 DEF TunCommand, HistOK
  <2> QED BY <2>1, <2>2 DEF Note, Meets, Recorded
<1>9. CASE UninstallCommand(p) \/ PurgeCommand(p) \/ UpdateCommand(p)
  <2>1. PICK mode \in Modes :
          /\ cmd'[p].op \in {"uninstall", "purge", "update"} /\ cmd'[p].mode = mode
          /\ cmd'[p].pc \in {"stop", "replace", "rename"}
          /\ hist'.clash = Note(p, IF cmd'[p].op = "purge" THEN Modes ELSE {mode}, FALSE)
    BY <1>9, RemovalCommand
  <2>2. CASE cmd'[p].op = "purge"
    BY <1>7, <2>1, <2>2
  <2>3. CASE cmd'[p].op # "purge"
    BY <1>2, <1>7, <2>1, <2>3
  <2> QED BY <2>2, <2>3
<1>10. CASE InstallCommand(p)
  BY <1>1, <1>2, <1>10 DEF InstallCommand, Begin, Idle
<1>11. CASE StartCommand(p)
  BY <1>1, <1>2, <1>11 DEF StartCommand, Begin, Idle
<1>12. CASE \/ StopCommand(p) \/ UseCommand(p) \/ AutostartCommand(p) \/ RemoveLeftovers(p)
            \/ RunStart(p) \/ Kill(p) \/ InstallPost(p)
  BY <1>4, <1>5, <1>12
  DEF StopCommand, UseCommand, AutostartCommand, RemoveLeftovers, RunStart, Kill, InstallPost,
      Results
<1>13. CASE \/ InstallPayload(p) \/ InstallUnit(p) \/ InstallConfig(p) \/ InstallActivate(p)
            \/ DropService(p) \/ DropUnit(p)
  <2>1. \/ \E l \in {"unit", "config", "activate", "post", "check"} : Goto(p, l)
        \/ \E r \in Results : End(p, r)
        \/ cmd[p].pc = "drop" /\ Goto(p, "drop unit")
    BY <1>13
    DEF InstallPayload, InstallUnit, InstallConfig, InstallActivate, DropService, DropUnit, Results
  <2> QED BY <1>4, <1>6, <2>1
<1>14. CASE CheckInstall(p)
  <2>1. cmd[p].op = "install"
    BY <1>1, <1>14, OpOf DEF CheckInstall
  <2>2. cmd' = [cmd EXCEPT ![p].pc = "payload", ![p].seen = Found(cmd[p].mode)]
    BY <1>4, <1>14 DEF CheckInstall, Results
  <2> QED BY <1>1, <1>2, <2>1, <2>2 DEF Commands
<1>15. CASE UninstallStop(p) \/ UninstallUnit(p) \/ UninstallFiles(p)
  <2>1. \/ \E l \in {"remove unit", "remove"} : Goto(p, l)
        \/ \E r \in Results : End(p, r)
    BY <1>15 DEF UninstallStop, UninstallUnit, UninstallFiles, Results
  <2> QED BY <1>4, <1>6, <2>1
<1>16. CASE PurgeStop(p) \/ PurgeRemove(p)
  BY <1>3, <1>16 DEF PurgeStop, PurgeRemove
<1>17. CASE UpdateReplace(p) \/ UpdateRename(p) \/ UpdateDownload(p) \/ UpdateClean(p)
  <2>1. \/ \E l \in {"download", "clean"} : Goto(p, l)
        \/ \E r \in Results : End(p, r)
    BY <1>17 DEF UpdateReplace, UpdateRename, UpdateDownload, UpdateClean, Results
  <2> QED BY <1>4, <1>6, <2>1
<1> QED
  BY <1>8, <1>9, <1>10, <1>11, <1>12, <1>13, <1>14, <1>15, <1>16, <1>17 DEF Step

\* Whatever begins to run is started by a command past its check, from a unit file.
LEMMA ActiveGrows ==
  ASSUME Typed, NEW p \in Procs, Step(p), NEW m \in Modes, m \in svc'.active, m \notin svc.active
  PROVE  Starting(p, m) /\ m \in svc.unit
<1>1. /\ cmd[p] \in Commands /\ cmd[p].pc \in Steps(cmd[p].op) /\ svc \in Services
  BY DEF Typed, CmdOK, SvcOK
<1>2. CASE InstallActivate(p)
  <2>1. cmd[p].op = "install"
    BY <1>2, OpOf DEF Typed, InstallActivate
  <2>2. /\ cmd[p].mode \in svc.unit
        /\ svc' \in {Activated(cmd[p].mode)} \cup Booted(Activated(cmd[p].mode))
    BY <1>1, <1>2 DEF InstallActivate, Booted
  <2>3. svc'.active \subseteq svc.active \cup {cmd[p].mode}
    BY <1>1, <2>2 DEF Booted, Activated, Started, Services
  <2> QED BY <1>2, <2>1, <2>2, <2>3 DEF InstallActivate, Starting, Dropping
<1>3. CASE RunStart(p)
  <2>1. cmd[p].op = "start"
    BY <1>3, OpOf DEF Typed, RunStart
  <2>2. svc'.active = Started(cmd[p].mode).active
    BY <1>1, <1>3 DEF RunStart, Started, Services
  <2>3. cmd[p].mode = m /\ m \in svc.unit
    BY <1>1, <2>2 DEF Started, Services, Startable
  <2> QED BY <1>3, <2>1, <2>3 DEF RunStart, Starting, Dropping
<1>4. ASSUME svc'.active \subseteq svc.active PROVE FALSE
  BY <1>4
<1>5. CASE InstallUnit(p) \/ InstallPost(p) \/ AutostartCommand(p)
  BY <1>1, <1>4, <1>5
  DEF InstallUnit, InstallPost, AutostartCommand, Written, Marked, Linked, Services
<1>6. CASE DropService(p) \/ DropUnit(p) \/ UninstallStop(p) \/ UninstallUnit(p)
  BY <1>1, <1>4, <1>6
  DEF DropService, DropUnit, UninstallStop, UninstallUnit, Stopped, Services
<1>7. CASE StopCommand(p) \/ PurgeStop(p) \/ PurgeRemove(p)
  BY <1>1, <1>4, <1>7 DEF StopCommand, PurgeStop, PurgeRemove, Stopped, Services
<1>8. CASE \/ InstallCommand(p) \/ CheckInstall(p) \/ InstallPayload(p) \/ InstallConfig(p)
           \/ TunCommand(p) \/ StartCommand(p) \/ UninstallCommand(p) \/ UninstallFiles(p)
           \/ PurgeCommand(p) \/ UpdateCommand(p) \/ UpdateReplace(p) \/ UpdateRename(p)
           \/ UpdateDownload(p) \/ UpdateClean(p) \/ UseCommand(p) \/ RemoveLeftovers(p)
           \/ Kill(p)
  BY <1>4, <1>8
  DEF InstallCommand, CheckInstall, InstallPayload, InstallConfig, TunCommand, StartCommand,
      UninstallCommand, UninstallFiles, PurgeCommand, UpdateCommand, UpdateReplace, UpdateRename,
      UpdateDownload, UpdateClean, UseCommand, RemoveLeftovers, Kill
<1> QED BY <1>2, <1>3, <1>5, <1>6, <1>7, <1>8 DEF Step

LEMMA UnitGrows ==
  ASSUME Typed, NEW p \in Procs, Step(p), NEW m \in Modes, m \in svc'.unit, m \notin svc.unit
  PROVE  Starting(p, m) /\ cmd[p].op = "install"
<1>1. /\ cmd[p] \in Commands /\ svc \in Services /\ CmdOK
  BY DEF Typed, CmdOK, SvcOK
<1>2. CASE InstallUnit(p)
  <2>1. cmd[p].op = "install"
    BY <1>1, <1>2, OpOf DEF InstallUnit
  <2>2. svc'.unit \subseteq svc.unit \cup {cmd[p].mode}
    BY <1>1, <1>2 DEF InstallUnit, Written, Services
  <2> QED BY <1>2, <2>1, <2>2 DEF InstallUnit, Starting, Dropping
<1>3. ASSUME svc'.unit \subseteq svc.unit PROVE FALSE
  BY <1>3
<1>4. CASE InstallActivate(p)
  BY <1>1, <1>3, <1>4 DEF InstallActivate, Activated, Started, Booted, Services
<1>5. CASE InstallPost(p) \/ RunStart(p) \/ AutostartCommand(p)
  BY <1>1, <1>3, <1>5 DEF InstallPost, RunStart, AutostartCommand, Started, Marked, Linked, Services
<1>6. CASE DropService(p) \/ DropUnit(p) \/ UninstallStop(p) \/ UninstallUnit(p)
  BY <1>1, <1>3, <1>6
  DEF DropService, DropUnit, UninstallStop, UninstallUnit, Stopped, Services
<1>7. CASE StopCommand(p) \/ PurgeStop(p) \/ PurgeRemove(p)
  BY <1>1, <1>3, <1>7 DEF StopCommand, PurgeStop, PurgeRemove, Stopped, Services
<1>8. CASE \/ InstallCommand(p) \/ CheckInstall(p) \/ InstallPayload(p) \/ InstallConfig(p)
           \/ TunCommand(p) \/ StartCommand(p) \/ UninstallCommand(p) \/ UninstallFiles(p)
           \/ PurgeCommand(p) \/ UpdateCommand(p) \/ UpdateReplace(p) \/ UpdateRename(p)
           \/ UpdateDownload(p) \/ UpdateClean(p) \/ UseCommand(p) \/ RemoveLeftovers(p)
           \/ Kill(p)
  BY <1>3, <1>8
  DEF InstallCommand, CheckInstall, InstallPayload, InstallConfig, TunCommand, StartCommand,
      UninstallCommand, UninstallFiles, PurgeCommand, UpdateCommand, UpdateReplace, UpdateRename,
      UpdateDownload, UpdateClean, UseCommand, RemoveLeftovers, Kill
<1> QED BY <1>2, <1>4, <1>5, <1>6, <1>7, <1>8 DEF Step

\* A unit file goes with the step of a removal that comes after the stop.
Withdraws(p, m) ==
  \/ Dropping(p) /\ m = "user"
  \/ cmd[p].pc = "remove unit" /\ cmd[p].mode = m
  \/ cmd[p].op = "purge" /\ cmd[p].pc = "remove" /\ cmd[p].mode = m

LEMMA UnitShrinks ==
  ASSUME Typed, NEW p \in Procs, Step(p), NEW m \in Modes, m \in svc.unit, m \notin svc'.unit
  PROVE  Withdraws(p, m)
<1>1. cmd[p] \in Commands /\ svc \in Services
  BY DEF Typed, CmdOK, SvcOK
<1>2. CASE DropUnit(p) \/ UninstallUnit(p) \/ PurgeRemove(p)
  BY <1>1, <1>2 DEF DropUnit, UninstallUnit, PurgeRemove, Withdraws, Dropping, Services
<1>3. ASSUME svc.unit \subseteq svc'.unit PROVE FALSE
  BY <1>3
<1>4. CASE InstallActivate(p)
  BY <1>1, <1>3, <1>4 DEF InstallActivate, Activated, Started, Booted, Services
<1>5. CASE InstallPost(p) \/ RunStart(p) \/ AutostartCommand(p) \/ InstallUnit(p)
  BY <1>1, <1>3, <1>5
  DEF InstallPost, RunStart, AutostartCommand, InstallUnit, Written, Started, Marked, Linked,
      Services
<1>6. CASE DropService(p) \/ UninstallStop(p) \/ StopCommand(p) \/ PurgeStop(p)
  BY <1>1, <1>3, <1>6 DEF DropService, UninstallStop, StopCommand, PurgeStop, Stopped, Services
<1>7. CASE \/ InstallCommand(p) \/ CheckInstall(p) \/ InstallPayload(p) \/ InstallConfig(p)
           \/ TunCommand(p) \/ StartCommand(p) \/ UninstallCommand(p) \/ UninstallFiles(p)
           \/ PurgeCommand(p) \/ UpdateCommand(p) \/ UpdateReplace(p) \/ UpdateRename(p)
           \/ UpdateDownload(p) \/ UpdateClean(p) \/ UseCommand(p) \/ RemoveLeftovers(p)
           \/ Kill(p)
  BY <1>3, <1>7
  DEF InstallCommand, CheckInstall, InstallPayload, InstallConfig, TunCommand, StartCommand,
      UninstallCommand, UninstallFiles, PurgeCommand, UpdateCommand, UpdateReplace, UpdateRename,
      UpdateDownload, UpdateClean, UseCommand, RemoveLeftovers, Kill
<1> QED BY <1>2, <1>4, <1>5, <1>6, <1>7 DEF Step

\* Between two steps of a start nothing of the command changes but where it is, and
\* only the payload comes after the check.
LEMMA StartGoesOn ==
  ASSUME Typed, NEW p \in Procs, Step(p), NEW m \in Modes, Starting(p, m), Starting(p, m)'
  PROVE  /\ cmd'[p].op = cmd[p].op /\ cmd'[p].seen = cmd[p].seen
         /\ cmd'[p].pc # "payload"
         /\ cmd[p].pc = "payload" => InstallPayload(p)
<1>1. /\ cmd \in [Procs -> Commands] /\ cmd[p] \in Commands /\ CmdOK
  BY DEF Typed, CmdOK
<1>2. /\ cmd[p].op \in {"install", "start"}
      /\ cmd[p].pc \notin {"drop", "drop unit", "check"}
      /\ cmd'[p].op \in {"install", "start"}
  BY DEF Starting, Dropping
<1>3. cmd[p].pc \in {"payload", "unit", "config", "activate", "post", "run"}
  BY <1>1, <1>2, OpOf
<1>4. ~ \E r \in Results : End(p, r)
  BY <1>1, <1>2 DEF End, Idle
<1>5. ~Free(p)
  BY <1>3 DEF Free, Results
<1>6. CASE \/ InstallPayload(p) \/ InstallUnit(p) \/ InstallConfig(p) \/ InstallActivate(p)
           \/ InstallPost(p)
  <2>1. (cmd[p].pc = "payload" => InstallPayload(p)) /\ \E l \in {"unit", "config", "activate", "post"} : Goto(p, l)
    BY <1>4, <1>6
    DEF InstallPayload, InstallUnit, InstallConfig, InstallActivate, InstallPost, Results
  <2> QED BY <1>1, <2>1 DEF Goto, Commands
<1>7. CASE RunStart(p) \/ Kill(p)
  BY <1>4, <1>7 DEF RunStart, Kill, Results
<1>8. CASE \/ InstallCommand(p) \/ TunCommand(p) \/ StartCommand(p) \/ StopCommand(p)
           \/ UninstallCommand(p) \/ PurgeCommand(p) \/ UpdateCommand(p) \/ UseCommand(p)
           \/ AutostartCommand(p) \/ RemoveLeftovers(p)
  BY <1>5, <1>8
  DEF InstallCommand, TunCommand, StartCommand, StopCommand, UninstallCommand, PurgeCommand,
      UpdateCommand, UseCommand, AutostartCommand, RemoveLeftovers, Begin
<1>9. CASE \/ CheckInstall(p) \/ DropService(p) \/ DropUnit(p) \/ UninstallStop(p)
           \/ UninstallUnit(p) \/ UninstallFiles(p) \/ PurgeStop(p) \/ PurgeRemove(p)
           \/ UpdateReplace(p) \/ UpdateRename(p) \/ UpdateDownload(p) \/ UpdateClean(p)
  BY <1>3, <1>9
  DEF CheckInstall, DropService, DropUnit, UninstallStop, UninstallUnit, UninstallFiles, PurgeStop,
      PurgeRemove, UpdateReplace, UpdateRename, UpdateDownload, UpdateClean
<1> QED BY <1>6, <1>7, <1>8, <1>9 DEF Step

-----------------------------------------------------------------------------
(* One installation at a time.                                             *)

Strict == hist.clash \cap {"modes", "hidden"} = {}

OneSide ==
  \A p, q \in Procs, m \in Modes : p # q /\ Starting(p, m) => ~Starting(q, Other(m))

\* A command past its check has the other mode neither running nor, when it
\* installs, installed.
Alone ==
  \A p \in Procs, m \in Modes :
    Starting(p, m) => /\ Other(m) \notin svc.active
                      /\ cmd[p].op = "install" => Other(m) \notin svc.unit

Sided == Strict => OneSide /\ Alone /\ svc.unit # Modes /\ svc.active # Modes

LEMMA OneMode ==
  ASSUME NEW p \in Procs, NEW m \in Modes
  PROVE  Starting(p, m) => ~Starting(p, Other(m))
BY ModesTyped DEF Starting

LEMMA SidedStep ==
  ASSUME Typed, Sided, NEW p \in Procs, Step(p)
  PROVE  Sided'
<1> SUFFICES ASSUME Strict' PROVE (OneSide /\ Alone /\ svc.unit # Modes /\ svc.active # Modes)'
  BY DEF Sided
<1>1. /\ Strict /\ OneSide /\ Alone /\ svc.unit # Modes /\ svc.active # Modes
      /\ svc.unit \subseteq Modes /\ svc.active \subseteq Modes
  BY HistStep DEF Sided, Strict, Typed, SvcOK, Services
<1>2. ASSUME NEW q \in Procs \ {p}, NEW m \in Modes
      PROVE  Starting(q, m)' <=> Starting(q, m)
  BY OthersStay DEF Starting, Dropping
<1>3. ASSUME NEW q \in Procs \ {p}, NEW m \in Modes, Starting(p, m)', Starting(q, Other(m))
      PROVE  FALSE
  <2>1. CASE Starting(p, m)
    BY <1>1, <1>3, <2>1 DEF OneSide
  <2>2. CASE ~Starting(p, m)
    <3>1. Meets(p, {m}, TRUE) \subseteq hist'.clash
      BY <1>3, <2>2, StartBegins DEF Admitted
    <3>2. "modes" \in Meets(p, {m}, TRUE)
      BY <1>3 DEF Meets
    <3> QED BY <3>1, <3>2 DEF Strict
  <2> QED BY <2>1, <2>2
<1>4. OneSide'
  <2> SUFFICES ASSUME NEW a \in Procs, NEW b \in Procs, NEW m \in Modes, a # b,
                      Starting(a, m)', Starting(b, Other(m))'
               PROVE  FALSE
    BY DEF OneSide
  <2>1. CASE a = p
    BY <1>2, <1>3, <2>1, ModesTyped
  <2>2. CASE b = p
    <3>1. Other(m) \in Modes /\ Other(Other(m)) = m
      BY DEF Modes, Other
    <3> QED BY <1>2, <1>3, <2>2, <3>1
  <2>3. CASE a # p /\ b # p
    BY <1>1, <1>2, <2>3, ModesTyped DEF OneSide
  <2> QED BY <2>1, <2>2, <2>3
\* What grows beside a command past its check would have to be of its own mode.
<1>5. ASSUME NEW a \in Procs, NEW m \in Modes, Starting(a, m) PROVE ~Starting(p, Other(m))
  BY <1>1, <1>5, OneMode DEF OneSide
<1>6. Alone'
  <2> SUFFICES ASSUME NEW a \in Procs, NEW m \in Modes, Starting(a, m)'
               PROVE  /\ Other(m) \notin svc'.active
                      /\ cmd'[a].op = "install" => Other(m) \notin svc'.unit
    BY DEF Alone
  <2>1. Other(m) \in Modes
    BY ModesTyped
  <2>2. CASE Starting(a, m)
    <3>1. cmd'[a].op = cmd[a].op
      BY <2>2, OthersStay, StartGoesOn
    <3>2. Other(m) \notin svc.active /\ (cmd[a].op = "install" => Other(m) \notin svc.unit)
      BY <1>1, <2>2 DEF Alone
    <3>3. ~Starting(p, Other(m))
      BY <1>5, <2>2
    <3> QED BY <2>1, <3>1, <3>2, <3>3, ActiveGrows, UnitGrows
  <2>3. CASE ~Starting(a, m)
    <3>1. a = p
      BY <1>2, <2>3
    <3>2. Admitted(p, m)
      BY <2>3, <3>1, StartBegins
    <3> QED BY <3>1, <3>2 DEF Admitted, Strict
  <2> QED BY <2>2, <2>3
<1>7. ASSUME NEW m \in Modes, Starting(p, m) PROVE Other(m) \notin svc'.active
  <2>1. Other(m) \in Modes /\ Other(m) \notin svc.active
    BY <1>1, <1>7, ModesTyped DEF Alone
  <2> QED BY <1>5, <1>7, <2>1, ActiveGrows
<1>8. svc'.active # Modes
  <2> SUFFICES ASSUME svc'.active = Modes PROVE FALSE
    OBVIOUS
  <2>1. PICK m \in Modes : m \notin svc.active
    BY <1>1
  <2>2. Starting(p, m)
    BY <2>1, ActiveGrows
  <2> QED BY <1>7, <2>2, ModesTyped
<1>9. svc'.unit # Modes
  <2> SUFFICES ASSUME svc'.unit = Modes PROVE FALSE
    OBVIOUS
  <2>1. PICK m \in Modes : m \notin svc.unit
    BY <1>1
  <2>2. Starting(p, m) /\ cmd[p].op = "install"
    BY <2>1, UnitGrows
  <2>3. Other(m) \in Modes /\ Other(m) \notin svc.unit
    BY <1>1, <2>2, ModesTyped DEF Alone
  <2>4. Starting(p, Other(m))
    BY <2>3, UnitGrows
  <2> QED BY <2>2, <2>4, OneMode
<1> QED BY <1>4, <1>6, <1>8, <1>9

-----------------------------------------------------------------------------
(* No removal beside a start.                                              *)

Calm == "removal" \notin hist.clash

Apart == \A p, q \in Procs, m \in Modes : p # q /\ Starting(p, m) => ~Removing(q, m)

\* What a removal is about to take away does not run any more.
Quiet ==
  \A p \in Procs :
    /\ Dropping(p) => "user" \notin svc.active
    /\ cmd[p].pc = "remove unit" => cmd[p].mode \notin svc.active
    /\ cmd[p].op = "purge" => /\ svc.active \subseteq cmd[p].seen
                              /\ cmd[p].pc = "remove" => cmd[p].mode \notin svc.active

\* The binary that an installation of the user mode found or put there stays.
Whole ==
  \A p \in Procs :
    /\ Starting(p, "user") /\ cmd[p].op = "install"
    /\ cmd[p].pc = "payload" => "binary" \in cmd[p].seen
    => files.binary["user"] = "good"

Owned == Calm => Apart /\ Quiet /\ Whole /\ svc.active \subseteq svc.unit

OfUser == \A p \in Procs : cmd[p].pc \in {"rename", "download", "clean"} => cmd[p].mode = "user"

LEMMA NotBoth ==
  ASSUME CmdOK, NEW p \in Procs, NEW m \in Modes, Starting(p, m)
  PROVE  ~Removing(p, m) /\ ~Dropping(p) /\ cmd[p].pc # "remove unit" /\ cmd[p].op # "purge"
BY OpOf DEF Starting, Removing, Dropping

LEMMA ApartStep ==
  ASSUME Typed, Owned, NEW p \in Procs, Step(p), Calm'
  PROVE  Apart'
<1>1. Calm /\ Apart
  BY HistStep DEF Calm, Owned
<1>2. ASSUME NEW q \in Procs \ {p}, NEW m \in Modes
      PROVE  (Starting(q, m)' <=> Starting(q, m)) /\ (Removing(q, m)' <=> Removing(q, m))
  BY OthersStay DEF Starting, Removing, Dropping
<1> SUFFICES ASSUME NEW a \in Procs, NEW b \in Procs, NEW m \in Modes, a # b,
                    Starting(a, m)', Removing(b, m)'
             PROVE  FALSE
  BY DEF Apart
<1>3. CASE a = p
  <2>1. Removing(b, m)
    BY <1>2, <1>3
  <2>2. ~Starting(p, m)
    BY <1>1, <1>3, <2>1 DEF Apart
  <2>3. Meets(p, {m}, TRUE) \subseteq hist'.clash
    BY <1>3, <2>2, StartBegins DEF Admitted
  <2>4. "removal" \in Meets(p, {m}, TRUE)
    BY <1>3, <2>1 DEF Meets
  <2> QED BY <2>3, <2>4 DEF Calm
<1>4. CASE b = p
  <2>1. Starting(a, m)
    BY <1>2, <1>4
  <2>2. ~Removing(p, m)
    BY <1>1, <1>4, <2>1 DEF Apart
  <2>3. Meets(p, {m}, FALSE) \subseteq hist'.clash
    BY <1>4, <2>2, RemovalBegins DEF Recorded
  <2>4. "removal" \in Meets(p, {m}, FALSE)
    BY <1>4, <2>1 DEF Meets
  <2> QED BY <2>3, <2>4 DEF Calm
<1>5. CASE a # p /\ b # p
  BY <1>1, <1>2, <1>5 DEF Apart
<1> QED BY <1>3, <1>4, <1>5

LEMMA QuietStep ==
  ASSUME Typed, Owned, NEW p \in Procs, Step(p), Calm'
  PROVE  Quiet'
<1>1. Calm /\ Apart /\ Quiet /\ CmdOK /\ svc \in Services /\ svc' \in Services
  BY HistStep, SvcStep DEF Calm, Owned, Typed, SvcOK
<1>2. /\ cmd \in [Procs -> Commands] /\ cmd[p] \in Commands /\ cmd[p].mode \in Modes
      /\ svc.active \subseteq Modes /\ svc'.active \subseteq Modes
  BY <1>1 DEF CmdOK, Commands, Services
\* Nothing that is being removed begins to run.
<1>3. ASSUME NEW a \in Procs, NEW m \in Modes, Removing(a, m), m \notin svc.active
      PROVE  m \notin svc'.active
  <2>1. ~Starting(p, m)
    BY <1>1, <1>3, NotBoth DEF Apart
  <2> QED BY <1>3, <2>1, ActiveGrows
<1>4. ASSUME NEW a \in Procs
      PROVE  /\ Dropping(a) => "user" \notin svc'.active
             /\ cmd[a].pc = "remove unit" => cmd[a].mode \notin svc'.active
             /\ cmd[a].op = "purge" => /\ svc'.active \subseteq cmd[a].seen
                                       /\ cmd[a].pc = "remove" => cmd[a].mode \notin svc'.active
  <2>1. cmd[a].mode \in Modes /\ "user" \in Modes
    BY <1>2, ModesTyped DEF Commands
  <2>2. Dropping(a) => "user" \notin svc'.active
    BY <1>1, <1>3, <2>1 DEF Quiet, Removing
  <2>3. cmd[a].pc = "remove unit" => cmd[a].mode \notin svc'.active
    BY <1>1, <1>3, <2>1, OpOf DEF Quiet, Removing
  <2>4. ASSUME cmd[a].op = "purge"
        PROVE  /\ svc'.active \subseteq cmd[a].seen
               /\ cmd[a].pc = "remove" => cmd[a].mode \notin svc'.active
    <3>1. \A m \in Modes : Removing(a, m)
      BY <2>4 DEF Removing
    <3> QED BY <1>1, <1>2, <1>3, <2>1, <2>4, <3>1 DEF Quiet
  <2> QED BY <2>2, <2>3, <2>4
<1> SUFFICES /\ Dropping(p)' => "user" \notin svc'.active
             /\ cmd'[p].pc = "remove unit" => cmd'[p].mode \notin svc'.active
             /\ cmd'[p].op = "purge" => /\ svc'.active \subseteq cmd'[p].seen
                                        /\ cmd'[p].pc = "remove" => cmd'[p].mode \notin svc'.active
  BY <1>4, OthersStay DEF Quiet, Dropping
<1> DEFINE Goal == /\ Dropping(p)' => "user" \notin svc'.active
                   /\ cmd'[p].pc = "remove unit" => cmd'[p].mode \notin svc'.active
                   /\ cmd'[p].op = "purge" => /\ svc'.active \subseteq cmd'[p].seen
                                              /\ cmd'[p].pc = "remove" => cmd'[p].mode \notin svc'.active
<1>5. ASSUME NEW c, cmd' = [cmd EXCEPT ![p] = c], c.op # "purge",
             c.pc \notin {"drop", "drop unit", "remove unit"}
      PROVE  Goal
  BY <1>2, <1>5 DEF Dropping
<1>6. ASSUME NEW l, Goto(p, l), l \notin {"drop", "drop unit", "remove unit", "remove"}
      PROVE  Goal
  <2>1. cmd'[p].pc = l /\ cmd'[p].op = cmd[p].op /\ cmd'[p].seen = cmd[p].seen
    BY <1>2, <1>6 DEF Goto, Commands
  <2> QED BY <1>4, <1>6, <2>1 DEF Dropping
<1>7. ASSUME NEW r \in Results, End(p, r) \/ Begin(p, [Idle EXCEPT !.pc = r]) PROVE Goal
  <2>1. [Idle EXCEPT !.pc = r].op # "purge" /\ [Idle EXCEPT !.pc = r].pc = r
    BY DEF Idle
  <2>2. r \notin {"drop", "drop unit", "remove unit"}
    BY DEF Results
  <2> QED BY <1>5, <1>7, <2>1, <2>2 DEF End, Begin
<1>8. CASE TunCommand(p)
  <2>1. svc'.active = {} /\ cmd'[p].op = "install" /\ cmd'[p].pc \in {"drop", "check"}
    BY <1>2, <1>8 DEF TunCommand, Begin, ForcedInstall, Idle
  <2> QED BY <2>1 DEF Dropping
<1>9. CASE DropService(p) \/ DropUnit(p)
  <2>1. Dropping(p) /\ \E l \in {"drop unit", "check"} : cmd' = [cmd EXCEPT ![p].pc = l]
    BY <1>9 DEF DropService, DropUnit, Dropping, Goto
  <2>2. cmd'[p].op # "purge" /\ cmd'[p].pc # "remove unit"
    <3>1. cmd[p].op = "install"
      BY <1>1, <2>1, OpOf DEF Dropping
    <3>2. PICK l \in {"drop unit", "check"} : cmd' = [cmd EXCEPT ![p].pc = l]
      BY <2>1
    <3>3. cmd'[p].op = cmd[p].op /\ cmd'[p].pc = l
      BY <1>2, <3>2 DEF Commands
    <3> QED BY <3>1, <3>2, <3>3
  <2>3. "user" \notin svc'.active
    BY <1>4, <2>1
  <2> QED BY <2>2, <2>3
<1>10. CASE UninstallStop(p)
  <2>1. CASE End(p, "failed")
    BY <1>7, <2>1 DEF Results
  <2>2. CASE svc' = Stopped(cmd[p].mode) /\ Goto(p, "remove unit")
    <3>1. cmd[p].mode \notin svc'.active
      BY <1>1, <2>2 DEF Stopped, Services
    <3>2. cmd'[p].mode = cmd[p].mode /\ cmd'[p].op = "uninstall" /\ cmd'[p].pc = "remove unit"
      BY <1>2, <1>10, <2>2 DEF UninstallStop, Goto, Commands
    <3> QED BY <3>1, <3>2 DEF Dropping
  <2> QED BY <1>10, <2>1, <2>2 DEF UninstallStop
<1>11. CASE UninstallUnit(p)
  <2>1. cmd[p].op = "uninstall"
    BY <1>1, <1>11, OpOf DEF UninstallUnit
  <2> QED BY <1>2, <1>11, <2>1 DEF UninstallUnit, Goto, Commands, Dropping
<1>12. CASE PurgeCommand(p)
  <2>1. /\ svc'.active = svc.active /\ cmd'[p].seen = Presence \cup svc.active
        /\ cmd'[p].pc = "stop"
    BY <1>2, <1>12 DEF PurgeCommand, Begin, Idle
  <2> QED BY <2>1 DEF Dropping
<1>13. CASE PurgeStop(p)
  <2>1. CASE End(p, "failed")
    BY <1>7, <2>1 DEF Results
  <2>2. CASE Goto(p, "remove")
    <3>1. /\ cmd'[p].mode = cmd[p].mode /\ cmd'[p].pc = "remove" /\ cmd'[p].seen = cmd[p].seen
          /\ cmd[p].op = "purge"
      BY <1>2, <1>13, <2>2 DEF PurgeStop, Goto, Commands
    <3>2. CASE svc' = Stopped(cmd[p].mode)
      <4>1. cmd[p].mode \notin svc'.active
        BY <1>1, <3>2 DEF Stopped, Services
      <4> QED BY <1>4, <3>1, <4>1 DEF Dropping
    <3>3. CASE cmd[p].mode \notin cmd[p].seen
      BY <1>4, <3>1, <3>3 DEF Dropping
    <3>4. ~ End(p, "failed")
      BY <1>2, <2>2 DEF End, Goto, Idle, Commands
    <3>5. svc' = Stopped(cmd[p].mode) \/ cmd[p].mode \notin cmd[p].seen
      BY <1>13, <3>4 DEF PurgeStop
    <3> QED BY <3>2, <3>3, <3>5
  <2> QED BY <1>13, <2>1, <2>2 DEF PurgeStop
<1>14. CASE PurgeRemove(p)
  <2>1. CASE End(p, "ok")
    BY <1>7, <2>1 DEF Results
  <2>2. CASE cmd' = [cmd EXCEPT ![p].mode = "user", ![p].pc = "stop"]
    <3>1. cmd'[p].pc = "stop" /\ cmd'[p].seen = cmd[p].seen /\ cmd[p].op = "purge"
      BY <1>2, <1>14, <2>2 DEF PurgeRemove, Commands
    <3> QED BY <1>4, <3>1 DEF Dropping
  <2> QED BY <1>14, <2>1, <2>2 DEF PurgeRemove
<1>15. CASE UninstallCommand(p) \/ UpdateCommand(p)
  <2>1. CASE UninstallCommand(p)
    <3>1. cmd'[p].op = "uninstall" /\ cmd'[p].pc = "stop"
      BY <1>2, <2>1 DEF UninstallCommand, Begin, Idle
    <3> QED BY <3>1 DEF Dropping
  <2>2. CASE UpdateCommand(p)
    <3>1. cmd'[p].op = "update" /\ cmd'[p].pc \in {"replace", "rename"}
      BY <1>2, <2>2 DEF UpdateCommand, Begin, Idle
    <3> QED BY <3>1 DEF Dropping
  <2> QED BY <1>15, <2>1, <2>2
<1>16. CASE InstallCommand(p) \/ StartCommand(p)
  <2>1. CASE InstallCommand(p)
    <3>1. cmd'[p].op = "install" /\ cmd'[p].pc = "check"
      BY <1>2, <2>1 DEF InstallCommand, Begin, Idle
    <3> QED BY <3>1 DEF Dropping
  <2>2. CASE StartCommand(p)
    <3>1. cmd'[p].op = "start" /\ cmd'[p].pc = "run"
      BY <1>2, <2>2 DEF StartCommand, Begin, Idle
    <3> QED BY <3>1 DEF Dropping
  <2> QED BY <1>16, <2>1, <2>2
<1>17. CASE CheckInstall(p)
  <2>1. CASE End(p, "refused") \/ End(p, "ok")
    BY <1>7, <2>1 DEF Results
  <2>2. CASE cmd' = [cmd EXCEPT ![p].pc = "payload", ![p].seen = Found(cmd[p].mode)]
    <3>1. cmd'[p].op = "install" /\ cmd'[p].pc = "payload"
      BY <1>1, <1>2, <1>17, <2>2, OpOf DEF CheckInstall, Commands
    <3> QED BY <3>1 DEF Dropping
  <2> QED BY <1>17, <2>1, <2>2 DEF CheckInstall
<1>18. CASE \/ InstallPayload(p) \/ InstallUnit(p) \/ InstallConfig(p) \/ InstallActivate(p)
            \/ InstallPost(p) \/ UninstallFiles(p)
  <2>1. \/ \E l \in {"unit", "config", "activate", "post"} : Goto(p, l)
        \/ \E r \in Results : End(p, r)
    BY <1>18 DEF InstallPayload, InstallUnit, InstallConfig, InstallActivate, InstallPost,
                 UninstallFiles, Results
  <2> QED BY <1>6, <1>7, <2>1
<1>19. CASE \/ UpdateReplace(p) \/ UpdateRename(p) \/ UpdateDownload(p) \/ UpdateClean(p)
            \/ RunStart(p) \/ Kill(p)
  <2>1. \/ \E l \in {"download", "clean"} : Goto(p, l)
        \/ \E r \in Results : End(p, r)
    BY <1>19 DEF UpdateReplace, UpdateRename, UpdateDownload, UpdateClean, RunStart, Kill, Results
  <2> QED BY <1>6, <1>7, <2>1
<1>20. CASE StopCommand(p) \/ UseCommand(p) \/ AutostartCommand(p) \/ RemoveLeftovers(p)
  BY <1>7, <1>20 DEF StopCommand, UseCommand, AutostartCommand, RemoveLeftovers, Results
<1> QED
  BY <1>8, <1>9, <1>10, <1>11, <1>12, <1>13, <1>14, <1>15, <1>16, <1>17, <1>18, <1>19, <1>20
  DEF Step

\* The user's binary is lost to a removal, an update or an installation through sudo of
\* the user mode only, and the installation is recorded with whatever it met.
LEMMA BinaryStays ==
  ASSUME Typed, OfUser, NEW p \in Procs, Step(p),
         files.binary["user"] = "good", files'.binary["user"] # "good"
  PROVE  Removing(p, "user") \/ (Meets(p, {"user"}, FALSE) \subseteq hist'.clash /\ \E r \in Results : End(p, r))
<1>1. /\ cmd[p] \in Commands /\ cmd[p].mode \in Modes /\ CmdOK /\ files \in Files
      /\ "user" \in Modes
  BY ModesTyped DEF Typed, CmdOK, Commands, FilesOK
<1>2. CASE InstallPayload(p)
  <2>1. CASE cmd[p].mode = "user"
    <3>1. FaultTaking(p) /\ \E r \in Results : End(p, r)
      BY <1>1, <1>2, <2>1 DEF InstallPayload, Binary, Files, Results
    <3>2. Taken(p) = Meets(p, {"user"}, FALSE) /\ Taken(p) \subseteq hist'.clash
      BY <2>1, <3>1 DEF Taken, FaultTaking, Faulted, Typed, HistOK
    <3> QED BY <3>1, <3>2
  <2>2. CASE cmd[p].mode # "user"
    BY <1>1, <1>2, <2>2 DEF InstallPayload, Binary, Files
  <2> QED BY <2>1, <2>2
<1>3. CASE UninstallFiles(p)
  <2>1. cmd[p].mode = "user"
    BY <1>1, <1>3 DEF UninstallFiles, Removed, Files
  <2> QED BY <1>3, <2>1 DEF UninstallFiles, Removing
<1>4. CASE PurgeRemove(p)
  BY <1>4 DEF PurgeRemove, Removing
<1>5. CASE UpdateReplace(p)
  BY <1>1, <1>5 DEF UpdateReplace, Binary, Files
<1>6. CASE UpdateRename(p) \/ UpdateDownload(p) \/ UpdateClean(p)
  <2>1. cmd[p].op = "update" /\ cmd[p].mode = "user"
    BY <1>1, <1>6, OpOf DEF UpdateRename, UpdateDownload, UpdateClean, OfUser
  <2> QED BY <2>1 DEF Removing
<1>7. CASE \/ InstallConfig(p) \/ InstallPost(p) \/ RunStart(p) \/ UseCommand(p)
           \/ RemoveLeftovers(p)
  BY <1>1, <1>7
  DEF InstallConfig, InstallPost, RunStart, UseCommand, RemoveLeftovers, ConfigFor, Files
<1>8. CASE \/ InstallCommand(p) \/ CheckInstall(p) \/ InstallUnit(p) \/ InstallActivate(p)
           \/ TunCommand(p) \/ DropService(p) \/ DropUnit(p) \/ StartCommand(p) \/ StopCommand(p)
           \/ UninstallCommand(p) \/ UninstallStop(p) \/ UninstallUnit(p) \/ PurgeCommand(p)
           \/ PurgeStop(p) \/ UpdateCommand(p) \/ AutostartCommand(p) \/ Kill(p)
  BY <1>8
  DEF InstallCommand, CheckInstall, InstallUnit, InstallActivate, TunCommand, DropService, DropUnit,
      StartCommand, StopCommand, UninstallCommand, UninstallStop, UninstallUnit, PurgeCommand,
      PurgeStop, UpdateCommand, AutostartCommand, Kill
<1> QED BY <1>2, <1>3, <1>4, <1>5, <1>6, <1>7, <1>8 DEF Step

LEMMA WholeStep ==
  ASSUME Typed, Owned, OfUser, NEW p \in Procs, Step(p), Calm'
  PROVE  Whole'
<1>1. Calm /\ Apart /\ Whole /\ CmdOK /\ "user" \in Modes
  BY HistStep, ModesTyped DEF Calm, Owned, Typed
<1> SUFFICES ASSUME NEW a \in Procs, Starting(a, "user")', cmd'[a].op = "install",
                    cmd'[a].pc = "payload" => "binary" \in cmd'[a].seen
             PROVE  files'.binary["user"] = "good"
  BY DEF Whole
<1>2. CASE ~Starting(a, "user")
  <2>1. a = p
    BY <1>2, OthersStay DEF Starting, Dropping
  <2>2. Admitted(p, "user")
    BY <1>1, <1>2, <2>1, StartBegins
  <2> QED BY <2>1, <2>2 DEF Admitted, Found
<1>3. CASE Starting(a, "user")
  <2>1. ~Removing(p, "user")
    BY <1>1, <1>3, NotBoth DEF Apart
  <2>2. files.binary["user"] = "good" => files'.binary["user"] = "good"
    <3>1. SUFFICES ASSUME Meets(p, {"user"}, FALSE) \subseteq hist'.clash, \E r \in Results : End(p, r)
                   PROVE  FALSE
      BY <2>1, BinaryStays
    <3>2. a # p
      BY <1>1, <3>1 DEF Starting, End, Idle, CmdOK
    <3>3. "removal" \in Meets(p, {"user"}, FALSE)
      BY <1>3, <3>2 DEF Meets
    <3> QED BY <3>1, <3>3 DEF Calm
  <2>3. CASE a # p
    BY <1>1, <1>3, <2>2, <2>3, OthersStay DEF Whole
  <2>4. CASE a = p
    <3>1. /\ cmd[p].op = "install" /\ cmd'[p].seen = cmd[p].seen
          /\ cmd[p].pc = "payload" => InstallPayload(p)
      BY <1>1, <1>3, <2>4, StartGoesOn
    <3>2. CASE cmd[p].pc = "payload" => "binary" \in cmd[p].seen
      BY <1>1, <1>3, <2>2, <2>4, <3>1, <3>2 DEF Whole
    <3>3. CASE cmd[p].pc = "payload" /\ "binary" \notin cmd[p].seen
      <4>1. cmd[p].mode = "user" /\ ~ \E r \in Results : End(p, r)
        BY <1>1, <1>3, <2>4 DEF Starting, End, Idle, CmdOK
      <4>2. \/ files.binary["user"] = "good"
            \/ files' = [files EXCEPT !.binary["user"] = "good"]
        <5>1. ~End(p, "failed") /\ ~End(p, "killed") /\ ~End(p, "staged")
          BY <4>1 DEF Results
        <5>2. InstallPayload(p) /\ cmd[p].mode = "user" /\ "user" # "system"
          BY <3>1, <3>3, <4>1
        <5> QED BY <3>3, <5>1, <5>2 DEF InstallPayload, Binary
      <4> QED BY <1>1, <2>2, <4>2 DEF Typed, FilesOK, Files
    <3> QED BY <3>2, <3>3
  <2> QED BY <2>3, <2>4
<1> QED BY <1>2, <1>3

LEMMA UnitHeld ==
  ASSUME Typed, Owned, NEW p \in Procs, Step(p), Calm'
  PROVE  svc'.active \subseteq svc'.unit
<1>1. Calm /\ Quiet /\ svc.active \subseteq svc.unit /\ CmdOK /\ svc'.active \subseteq Modes
  BY HistStep, SvcStep DEF Calm, Owned, Typed, SvcOK, Services
<1> SUFFICES ASSUME NEW m \in Modes, m \in svc'.active, m \notin svc'.unit PROVE FALSE
  BY <1>1
<1>2. m \in svc.unit
  BY <1>1, ActiveGrows
<1>3. Withdraws(p, m)
  BY <1>2, UnitShrinks
<1>4. m \notin svc.active
  BY <1>1, <1>3 DEF Withdraws, Quiet
<1>5. Starting(p, m)
  BY <1>4, ActiveGrows
<1> QED BY <1>1, <1>3, <1>5, NotBoth DEF Withdraws, Removing

LEMMA OfUserStep ==
  ASSUME Typed, OfUser, NEW p \in Procs, Step(p)
  PROVE  OfUser'
<1>1. cmd \in [Procs -> Commands] /\ cmd[p] \in Commands /\ CmdOK
  BY DEF Typed, CmdOK
<1> DEFINE Later == {"rename", "download", "clean"}
<1> SUFFICES ASSUME cmd'[p].pc \in Later PROVE cmd'[p].mode = "user"
  BY OthersStay DEF OfUser
<1>2. ~ \E r \in Results : End(p, r) \/ Begin(p, [Idle EXCEPT !.pc = r])
  BY <1>1 DEF End, Begin, Idle, Results
<1>3. ASSUME NEW l, Goto(p, l) PROVE l \in Later /\ cmd'[p].mode = cmd[p].mode
  BY <1>1, <1>3 DEF Goto, Commands
<1>4. CASE UpdateCommand(p)
  <2>1. PICK mode \in Modes :
          Begin(p, [Idle EXCEPT !.op = "update", !.mode = mode,
                                !.pc = IF mode = "system" THEN "replace" ELSE "rename"])
    BY <1>4, ResolvedTyped DEF UpdateCommand
  <2>2. cmd'[p].mode = mode /\ cmd'[p].pc = IF mode = "system" THEN "replace" ELSE "rename"
    BY <1>1, <2>1 DEF Begin, Idle
  <2> QED BY <2>2 DEF Modes
<1>5. CASE UpdateRename(p) \/ UpdateDownload(p)
  <2>1. cmd[p].pc \in Later
    BY <1>5 DEF UpdateRename, UpdateDownload
  <2>2. \E l : Goto(p, l)
    BY <1>2, <1>5 DEF UpdateRename, UpdateDownload, Results
  <2> QED BY <1>3, <2>1, <2>2 DEF OfUser
<1>6. CASE InstallCommand(p) \/ TunCommand(p)
  <2>1. CASE InstallCommand(p)
    BY <1>1, <2>1 DEF InstallCommand, Begin, Idle
  <2>2. CASE TunCommand(p)
    BY <1>1, <2>2 DEF TunCommand, ForcedInstall, Begin, Idle
  <2> QED BY <1>6, <2>1, <2>2
<1>7. CASE StartCommand(p)
  BY <1>1, <1>7 DEF StartCommand, Begin, Idle
<1>8. CASE UninstallCommand(p)
  BY <1>1, <1>8 DEF UninstallCommand, Begin, Idle
<1>9. CASE PurgeCommand(p)
  BY <1>1, <1>9 DEF PurgeCommand, Begin, Idle
<1>10. CASE PurgeRemove(p)
  BY <1>1, <1>2, <1>10 DEF PurgeRemove, Results, Commands
<1>11. CASE CheckInstall(p)
  BY <1>1, <1>2, <1>11 DEF CheckInstall, Results, Commands
<1>12. CASE \/ InstallPayload(p) \/ InstallUnit(p) \/ InstallConfig(p) \/ InstallActivate(p)
            \/ InstallPost(p) \/ DropService(p) \/ DropUnit(p) \/ UninstallStop(p)
            \/ UninstallUnit(p) \/ UninstallFiles(p) \/ PurgeStop(p)
  <2>1. \/ \E l \in {"unit", "config", "activate", "post", "drop unit", "check", "remove unit",
                    "remove"} : Goto(p, l)
        \/ \E r \in Results : End(p, r)
    BY <1>12 DEF InstallPayload, InstallUnit, InstallConfig, InstallActivate, InstallPost,
                 DropService, DropUnit, UninstallStop, UninstallUnit, UninstallFiles, PurgeStop,
                 Results
  <2> QED BY <1>2, <1>3, <2>1
<1>13. CASE \/ UpdateReplace(p) \/ UpdateClean(p) \/ RunStart(p) \/ Kill(p) \/ StopCommand(p)
            \/ UseCommand(p) \/ AutostartCommand(p) \/ RemoveLeftovers(p)
  BY <1>2, <1>13
  DEF UpdateReplace, UpdateClean, RunStart, Kill, StopCommand, UseCommand, AutostartCommand,
      RemoveLeftovers, Results
<1> QED
  BY <1>4, <1>5, <1>6, <1>7, <1>8, <1>9, <1>10, <1>11, <1>12, <1>13 DEF Step

-----------------------------------------------------------------------------
(* The system's Core.                                                      *)

CoreOwned ==
  svc.core => /\ "system" \in svc.active
              /\ Strict => files.config \in {"system", "none"}

\* A Core comes to run under its service, on a configuration that is not the user's.
LEMMA CoreStarts ==
  ASSUME Typed, NEW p \in Procs, Step(p), svc'.core, ~svc.core
  PROVE  "system" \in svc'.active /\ files'.config \in {"system", "none"}
<1>1. /\ cmd[p] \in Commands /\ cmd[p].mode \in Modes /\ svc \in Services /\ files \in Files
  BY DEF Typed, CmdOK, Commands, SvcOK, FilesOK
<1>2. CASE InstallActivate(p)
  BY <1>1, <1>2 DEF InstallActivate, Activated, Started, Booted, Services
<1>3. CASE InstallPost(p)
  BY <1>1, <1>3 DEF InstallPost, Ready, ConfigFor, Services, Files
<1>4. CASE RunStart(p)
  <2>1. /\ cmd[p].mode = "system" /\ ("system" \in svc.active \/ Startable("system"))
        /\ svc'.active = Started("system").active
    BY <1>1, <1>4 DEF RunStart, Started, Services
  <2>2. "system" \in svc'.active
    BY <1>1, <2>1 DEF Started, Services
  <2>3. files'.config \in {"system", "none"}
    BY <1>1, <1>4, <2>1 DEF RunStart, Files
  <2> QED BY <2>2, <2>3
<1>5. ASSUME svc'.core => svc.core PROVE FALSE
  BY <1>5
<1>6. CASE InstallUnit(p) \/ AutostartCommand(p)
  BY <1>1, <1>5, <1>6 DEF InstallUnit, AutostartCommand, Written, Marked, Linked, Services
<1>7. CASE DropService(p) \/ DropUnit(p) \/ UninstallStop(p) \/ UninstallUnit(p)
  BY <1>1, <1>5, <1>7
  DEF DropService, DropUnit, UninstallStop, UninstallUnit, Stopped, Services
<1>8. CASE StopCommand(p) \/ PurgeStop(p) \/ PurgeRemove(p)
  BY <1>1, <1>5, <1>8 DEF StopCommand, PurgeStop, PurgeRemove, Stopped, Services
<1>9. CASE \/ InstallCommand(p) \/ CheckInstall(p) \/ InstallPayload(p) \/ InstallConfig(p)
           \/ TunCommand(p) \/ StartCommand(p) \/ UninstallCommand(p) \/ UninstallFiles(p)
           \/ PurgeCommand(p) \/ UpdateCommand(p) \/ UpdateReplace(p) \/ UpdateRename(p)
           \/ UpdateDownload(p) \/ UpdateClean(p) \/ UseCommand(p) \/ RemoveLeftovers(p)
           \/ Kill(p)
  BY <1>5, <1>9
  DEF InstallCommand, CheckInstall, InstallPayload, InstallConfig, TunCommand, StartCommand,
      UninstallCommand, UninstallFiles, PurgeCommand, UpdateCommand, UpdateReplace, UpdateRename,
      UpdateDownload, UpdateClean, UseCommand, RemoveLeftovers, Kill
<1> QED BY <1>2, <1>3, <1>4, <1>6, <1>7, <1>8, <1>9 DEF Step

\* The system's service does not stop without its Core.
LEMMA CoreStops ==
  ASSUME Typed, NEW p \in Procs, Step(p), "system" \in svc.active, "system" \notin svc'.active
  PROVE  ~svc'.core
<1>1. /\ cmd[p] \in Commands /\ cmd[p].mode \in Modes /\ svc \in Services
  BY DEF Typed, CmdOK, Commands, SvcOK
<1>2. CASE UninstallStop(p) \/ PurgeStop(p)
  BY <1>1, <1>2 DEF UninstallStop, PurgeStop, Stopped, Services
<1>3. ASSUME svc.active \cap {"system"} \subseteq svc'.active PROVE FALSE
  BY <1>3
<1>4. CASE InstallActivate(p)
  BY <1>1, <1>3, <1>4 DEF InstallActivate, Activated, Started, Booted, Services
<1>5. CASE InstallPost(p) \/ RunStart(p) \/ InstallUnit(p) \/ AutostartCommand(p)
  BY <1>1, <1>3, <1>5
  DEF InstallPost, RunStart, InstallUnit, AutostartCommand, Written, Started, Marked, Linked, Services
<1>6. CASE DropService(p) \/ DropUnit(p) \/ UninstallUnit(p) \/ StopCommand(p) \/ PurgeRemove(p)
  BY <1>1, <1>3, <1>6
  DEF DropService, DropUnit, UninstallUnit, StopCommand, PurgeRemove, Stopped, Services
<1>7. CASE \/ InstallCommand(p) \/ CheckInstall(p) \/ InstallPayload(p) \/ InstallConfig(p)
           \/ TunCommand(p) \/ StartCommand(p) \/ UninstallCommand(p) \/ UninstallFiles(p)
           \/ PurgeCommand(p) \/ UpdateCommand(p) \/ UpdateReplace(p) \/ UpdateRename(p)
           \/ UpdateDownload(p) \/ UpdateClean(p) \/ UseCommand(p) \/ RemoveLeftovers(p)
           \/ Kill(p)
  BY <1>3, <1>7
  DEF InstallCommand, CheckInstall, InstallPayload, InstallConfig, TunCommand, StartCommand,
      UninstallCommand, UninstallFiles, PurgeCommand, UpdateCommand, UpdateReplace, UpdateRename,
      UpdateDownload, UpdateClean, UseCommand, RemoveLeftovers, Kill
<1> QED BY <1>2, <1>4, <1>5, <1>6, <1>7 DEF Step

\* The configuration becomes the user's by an installation of the user mode.
LEMMA ConfigTurns ==
  ASSUME Typed, NEW p \in Procs, Step(p), files.config # "user", files'.config = "user"
  PROVE  Starting(p, "user") /\ cmd[p].op = "install"
<1>1. /\ cmd[p] \in Commands /\ CmdOK /\ files \in Files
  BY DEF Typed, CmdOK, FilesOK
<1>2. CASE InstallConfig(p) \/ InstallPost(p)
  <2>1. cmd[p].mode = "user" /\ cmd[p].pc \in {"config", "post"}
    BY <1>1, <1>2 DEF InstallConfig, InstallPost, ConfigFor, Files
  <2> QED BY <1>1, <2>1, OpOf DEF Starting, Dropping
<1>3. ASSUME files'.config \in {files.config, "none", "system"} PROVE FALSE
  BY <1>3
<1>4. CASE InstallPayload(p) \/ UpdateReplace(p) \/ UpdateDownload(p)
  BY <1>1, <1>3, <1>4 DEF InstallPayload, UpdateReplace, UpdateDownload, Binary, Restored, Files
<1>5. CASE RunStart(p) \/ UpdateRename(p) \/ UpdateClean(p) \/ UseCommand(p) \/ RemoveLeftovers(p)
  BY <1>1, <1>3, <1>5
  DEF RunStart, UpdateRename, UpdateClean, UseCommand, RemoveLeftovers, Files
<1>6. CASE UninstallFiles(p) \/ PurgeRemove(p)
  BY <1>1, <1>3, <1>6 DEF UninstallFiles, PurgeRemove, Removed, Files
<1>7. CASE \/ InstallCommand(p) \/ CheckInstall(p) \/ InstallUnit(p) \/ InstallActivate(p)
           \/ TunCommand(p) \/ DropService(p) \/ DropUnit(p) \/ StartCommand(p) \/ StopCommand(p)
           \/ UninstallCommand(p) \/ UninstallStop(p) \/ UninstallUnit(p) \/ PurgeCommand(p)
           \/ PurgeStop(p) \/ UpdateCommand(p) \/ AutostartCommand(p) \/ Kill(p)
  BY <1>3, <1>7
  DEF InstallCommand, CheckInstall, InstallUnit, InstallActivate, TunCommand, DropService, DropUnit,
      StartCommand, StopCommand, UninstallCommand, UninstallStop, UninstallUnit, PurgeCommand,
      PurgeStop, UpdateCommand, AutostartCommand, Kill
<1> QED BY <1>2, <1>4, <1>5, <1>6, <1>7 DEF Step

LEMMA CoreOwnedStep ==
  ASSUME Typed, Sided, CoreOwned, NEW p \in Procs, Step(p)
  PROVE  CoreOwned'
<1> SUFFICES ASSUME svc'.core
             PROVE  "system" \in svc'.active /\ (Strict' => files'.config \in {"system", "none"})
  BY DEF CoreOwned
<1>1. CASE ~svc.core
  BY <1>1, CoreStarts
<1>2. CASE svc.core
  <2>1. "system" \in svc.active /\ "system" \in svc'.active
    BY <1>2, CoreStops DEF CoreOwned
  <2>2. ASSUME Strict' PROVE files'.config \in {"system", "none"}
    <3>1. Strict /\ Alone
      BY <2>2, HistStep DEF Strict, Sided
    <3>2. files.config \in {"system", "none"}
      BY <1>2, <3>1 DEF CoreOwned
    <3>3. ~Starting(p, "user")
      BY <2>1, <3>1, ModesTyped DEF Alone, Other
    <3>4. files'.config # "user"
      BY <3>2, <3>3, ConfigTurns
    <3> QED BY <3>4, FilesStep DEF FilesOK, Files, Modes
  <2> QED BY <2>1, <2>2
<1> QED BY <1>1, <1>2

-----------------------------------------------------------------------------
(* The invariant, and the host.                                            *)

Inv == Typed /\ Sided /\ CoreOwned /\ Owned /\ OfUser

LEMMA InvInit == Init => Inv
<1> SUFFICES ASSUME Init PROVE Inv
  OBVIOUS
<1>1. PICK on \in {{}, {"system"}, {"user"}}, leftovers \in BOOLEAN :
        /\ svc = [unit |-> on, torn |-> {}, enabled |-> on, active |-> on, core |-> "system" \in on,
                  auto |-> FALSE]
        /\ files = [binary |-> [m \in Modes |-> IF m \in on THEN "good" ELSE "none"], bak |-> "none",
                    config |-> IF on = {} THEN "none" ELSE CHOOSE m \in on : TRUE,
                    leftovers |-> leftovers, pref |-> "auto"]
  BY DEF Init
<1>2. \/ on = {} /\ files.config = "none"
      \/ \E m \in Modes : on = {m} /\ files.config = m
  <2>1. \A m : (CHOOSE n \in {m} : TRUE) = m
    OBVIOUS
  <2> QED BY <1>1, <2>1, ModesTyped
<1>3. SvcOK
  BY <1>1, <1>2 DEF SvcOK, Services
<1>4. FilesOK
  <2>1. files.config \in Modes \cup {"none"}
    BY <1>2
  <2> QED BY <1>1, <2>1 DEF FilesOK, Files, Binaries
<1>5. HistOK /\ hist.clash = {}
  BY BoundsAssumption DEF Init, HistOK
<1>6. CmdOK /\ \A p \in Procs : cmd[p].op = "none" /\ cmd[p].pc = "idle"
  BY ModesTyped DEF Init, CmdOK, Idle, Commands, Steps, PCs
<1>7. /\ \A p \in Procs, m \in Modes : ~Starting(p, m) /\ ~Removing(p, m)
      /\ \A p \in Procs : ~Dropping(p)
  BY <1>6 DEF Starting, Removing, Dropping
<1>8. svc.unit # Modes /\ svc.active # Modes /\ svc.active = svc.unit
  BY <1>1, <1>2 DEF Modes
<1>9. Sided
  BY <1>7, <1>8 DEF Sided, OneSide, Alone
<1>10. CoreOwned
  BY <1>1, <1>2 DEF CoreOwned
<1>11. Owned /\ OfUser
  BY <1>6, <1>7, <1>8 DEF Owned, Apart, Quiet, Whole, OfUser
<1> QED BY <1>3, <1>4, <1>5, <1>6, <1>9, <1>10, <1>11 DEF Inv, Typed

LEMMA ServiceDiesStep ==
  ASSUME Inv, NEW m \in Modes, ServiceDies(m)
  PROVE  Inv'
<1>1. /\ svc \in Services /\ HistOK /\ UNCHANGED <<files, cmd>> /\ Fault
      /\ \/ svc' = [svc EXCEPT !.active = @ \ {m}, !.core = @ /\ m # "system"]
         \/ svc' = [svc EXCEPT !.core = FALSE]
  BY DEF Inv, Typed, SvcOK, ServiceDies
<1>2. /\ SvcOK' /\ svc'.unit = svc.unit /\ svc'.active \subseteq svc.active
      /\ svc'.core => svc.core /\ (m = "system" => svc'.active = svc.active)
      /\ svc'.active \subseteq Modes /\ svc.active \subseteq Modes /\ svc.unit \subseteq Modes
      /\ m # "system" => ("system" \in svc'.active <=> "system" \in svc.active)
  BY <1>1 DEF SvcOK, Services
<1>3. HistOK' /\ hist'.clash = hist.clash
  BY <1>1, FaultTyped DEF HistOK, Fault, Faulted
<1>4. Typed'
  BY <1>1, <1>2, <1>3 DEF Inv, Typed, FilesOK, CmdOK
<1>5. Sided'
  <2>1. svc.active # Modes => svc'.active # Modes
    BY <1>2
  <2> QED BY <1>1, <1>2, <1>3, <2>1 DEF Inv, Sided, Strict, OneSide, Alone, Starting, Dropping
<1>6. CoreOwned'
  BY <1>1, <1>2, <1>3 DEF Inv, CoreOwned, Strict
<1>7. Owned'
  <2> SUFFICES ASSUME Calm' PROVE (Apart /\ Quiet /\ Whole /\ svc.active \subseteq svc.unit)'
    BY DEF Owned
  <2>1. Apart /\ Quiet /\ Whole /\ svc.active \subseteq svc.unit
    BY <1>3 DEF Inv, Owned, Calm
  <2>2. Apart' /\ Whole'
    BY <1>1, <2>1 DEF Apart, Whole, Starting, Removing, Dropping
  <2>3. Quiet'
    BY <1>1, <1>2, <2>1 DEF Quiet, Dropping
  <2> QED BY <1>2, <2>1, <2>2, <2>3
<1>8. OfUser'
  BY <1>1 DEF Inv, OfUser
<1> QED BY <1>4, <1>5, <1>6, <1>7, <1>8 DEF Inv

LEMMA RebootStep == ASSUME Inv, Reboot PROVE Inv'
<1> DEFINE up == {m \in svc.enabled : Startable(m)}
<1>1. /\ svc \in Services /\ HistOK /\ CmdOK /\ files' = files /\ Fault
      /\ cmd' = [p \in Procs |-> IF Free(p) THEN cmd[p] ELSE [Idle EXCEPT !.pc = "killed"]]
      /\ svc' \in Booted([svc EXCEPT !.active = up, !.core = FALSE])
  BY DEF Inv, Typed, SvcOK, Reboot
<1>2. up \subseteq svc.unit /\ up \subseteq Modes
  BY <1>1 DEF Startable, Services
<1>3. [svc EXCEPT !.active = up, !.core = FALSE] \in Services
  BY <1>1, <1>2 DEF Services
<1>4. /\ svc'.active = up /\ svc'.unit = svc.unit
      /\ svc'.core => "system" \in up /\ files.config = "system"
  BY <1>1, <1>3 DEF Booted, Services
<1>5. SvcOK'
  BY <1>1, <1>3, BootedTyped DEF SvcOK
<1>6. HistOK' /\ hist'.clash = hist.clash
  BY <1>1, FaultTyped DEF HistOK, Fault, Faulted
<1>7. \A p \in Procs : cmd'[p].op = "none" /\ cmd'[p].pc \in Results \cup {"idle"}
  <2>1. \A p \in Procs : Free(p) => cmd[p].op = "none"
    BY <1>1, OpOf DEF Free
  <2> QED BY <1>1, <2>1 DEF Free, Idle, Results
<1>8. CmdOK'
  <2>1. [Idle EXCEPT !.pc = "killed"] \in Commands
    BY FirstTyped, ModesTyped DEF Results
  <2>2. cmd' \in [Procs -> Commands]
    BY <1>1, <2>1 DEF CmdOK
  <2>3. \A p \in Procs : cmd'[p].pc \in Steps(cmd'[p].op)
    BY <1>7 DEF Steps, PCs
  <2> QED BY <2>2, <2>3 DEF CmdOK
<1>9. /\ \A p \in Procs, m \in Modes : ~Starting(p, m)' /\ ~Removing(p, m)'
      /\ \A p \in Procs : ~Dropping(p)'
  BY <1>7 DEF Starting, Removing, Dropping, Results
<1>10. Typed'
  BY <1>1, <1>5, <1>6, <1>8 DEF Inv, Typed, FilesOK
\* Both services cannot come up: both unit files would have to be there.
<1>11. Sided'
  <2>1. svc.unit # Modes => svc'.active # Modes
    <3>1. svc'.active \subseteq svc.unit /\ svc.unit \subseteq Modes
      BY <1>1, <1>2, <1>4 DEF Services
    <3> QED BY <3>1
  <2>2. Strict' => Strict
    BY <1>6 DEF Strict
  <2> QED BY <1>4, <1>9, <2>1, <2>2 DEF Inv, Sided, OneSide, Alone
<1>12. CoreOwned'
  BY <1>1, <1>4 DEF CoreOwned
<1>13. Owned' /\ OfUser'
  BY <1>2, <1>4, <1>7, <1>9 DEF Owned, Apart, Quiet, Whole, OfUser, Results
<1> QED BY <1>10, <1>11, <1>12, <1>13 DEF Inv

LEMMA InvStep == ASSUME Inv, [Next]_vars PROVE Inv'
<1>1. ASSUME NEW p \in Procs, Step(p) PROVE Inv'
  <2>1. Typed'
    BY <1>1, SvcStep, FilesStep, HistStep, CmdStep DEF Inv, Typed
  <2>2. Sided' /\ CoreOwned' /\ OfUser'
    BY <1>1, SidedStep, CoreOwnedStep, OfUserStep DEF Inv
  <2>3. Owned'
    BY <1>1, ApartStep, QuietStep, WholeStep, UnitHeld DEF Inv, Owned
  <2> QED BY <2>1, <2>2, <2>3 DEF Inv
<1>2. CASE UNCHANGED vars
  BY <1>2
  DEF vars, Inv, Typed, SvcOK, FilesOK, HistOK, CmdOK, Sided, Strict, OneSide, Alone, CoreOwned,
      Owned, Calm, Apart, Quiet, Whole, OfUser, Starting, Removing, Dropping
<1> QED BY <1>1, <1>2, ServiceDiesStep, RebootStep DEF Next

LEMMA AlwaysInv == Spec => []Inv
BY InvInit, InvStep, PTL DEF Spec

\* Every variable keeps its type, whatever the processes, the faults and the reboots.
THEOREM ModesTypeCorrect == Spec => []TypeOK
<1>1. Inv => TypeOK
  BY TypedIsTypeOK DEF Inv
<1> QED BY AlwaysInv, <1>1, PTL

\* Both services run only after two commands of different modes met, or an installation
\* met a service that leftovers hid.
THEOREM ModesExclude == Spec => []OneRuntime
<1>1. Inv => OneRuntime
  BY DEF Inv, Sided, Strict, OneRuntime
<1> QED BY AlwaysInv, <1>1, PTL

\* No service outlives its unit file, unless a start met a removal.
THEOREM NoOrphans == Spec => []NoOrphan
<1>1. Inv => NoOrphan
  BY DEF Inv, Owned, Calm, NoOrphan
<1> QED BY AlwaysInv, <1>1, PTL

\* What a step of an installation that reports success leaves behind.
LEMMA ReportsTruly ==
  ASSUME Inv, NEW p \in Procs, Step(p), cmd[p].op = "install", cmd'[p].pc = "ok",
         hist'.clash = {}
  PROVE  LET m == cmd[p].mode IN
         /\ m \in svc'.active \cap svc'.unit
         /\ files'.binary[m] = "good" /\ files'.config = m
         /\ m = "system" => svc'.core
<1> DEFINE m == cmd[p].mode
<1>1. /\ cmd \in [Procs -> Commands] /\ cmd[p] \in Commands /\ CmdOK /\ m \in Modes
      /\ svc \in Services /\ files \in Files /\ hist.clash = {}
  BY HistStep DEF Inv, Typed, SvcOK, FilesOK, CmdOK, Commands
<1>2. Strict /\ Calm /\ svc.active \subseteq svc.unit
  BY <1>1 DEF Inv, Owned, Strict, Calm
<1>3. cmd[p].pc \in {"drop", "drop unit", "check", "payload", "unit", "config", "activate", "post"}
  BY <1>1, OpOf
<1>4. ASSUME NEW l, Goto(p, l) PROVE l = "ok"
  BY <1>1, <1>4 DEF Goto, Commands
<1>5. ASSUME NEW r, End(p, r) PROVE r = "ok"
  BY <1>1, <1>5 DEF End, Idle
<1>6. CASE InstallPost(p)
  <2>1. Ready(m) /\ svc' = [svc EXCEPT !.core = @ \/ m = "system"] /\ files' = ConfigFor(m)
    BY <1>5, <1>6 DEF InstallPost
  <2>2. files.binary[m] = "good"
    <3>1. CASE m = "system"
      BY <2>1, <3>1 DEF Ready, CoreStartable
    <3>2. CASE m = "user"
      <4>1. cmd[p].pc = "post" /\ Whole
        BY <1>2, <1>6 DEF InstallPost, Inv, Owned
      <4> QED BY <3>2, <4>1 DEF Whole, Starting, Dropping
    <3> QED BY <1>1, <3>1, <3>2 DEF Modes
  <2> QED BY <1>1, <1>2, <2>1, <2>2 DEF Ready, ConfigFor, Services, Files
<1>7. CASE CheckInstall(p)
  <2>1. UpToDate(p) /\ UNCHANGED <<svc, files>>
    <3>1. cmd' # [cmd EXCEPT ![p].pc = "payload", ![p].seen = Found(m)]
      BY <1>1 DEF Commands
    <3> QED BY <1>5, <1>7, <3>1 DEF CheckInstall
  <2>2. Found(m) = Components /\ Serving(m)
    BY <2>1 DEF UpToDate
  <2>3. files.binary[m] = "good" /\ m \in svc.unit /\ files.config # "none"
    <3>1. "binary" \in Found(m) /\ "unit" \in Found(m) /\ "config" \in Found(m)
      BY <2>2 DEF Components
    <3>2. files.binary[m] = "good"
      BY <3>1 DEF Found
    <3>3. m \in svc.unit
      BY <3>1 DEF Found
    <3>4. files.config # "none"
      BY <3>1 DEF Found
    <3> QED BY <3>2, <3>3, <3>4
  <2>4. m \in svc.active /\ (m = "system" => svc.core) /\ (m = "user" => files.config = "user")
    BY <2>2 DEF Serving
  <2>5. m = "system" => files.config = "system"
    BY <1>2, <2>3, <2>4 DEF Inv, CoreOwned
  <2> QED BY <1>1, <2>1, <2>3, <2>4, <2>5 DEF Modes
<1>8. CASE \/ InstallPayload(p) \/ InstallUnit(p) \/ InstallConfig(p) \/ InstallActivate(p)
           \/ DropService(p) \/ DropUnit(p) \/ Kill(p)
  BY <1>4, <1>5, <1>8
  DEF InstallPayload, InstallUnit, InstallConfig, InstallActivate, DropService, DropUnit, Kill
<1>9. ~Free(p)
  BY <1>3 DEF Free, Results
<1>10. CASE \/ InstallCommand(p) \/ TunCommand(p) \/ StartCommand(p) \/ StopCommand(p)
            \/ UninstallCommand(p) \/ PurgeCommand(p) \/ UpdateCommand(p) \/ UseCommand(p)
            \/ AutostartCommand(p) \/ RemoveLeftovers(p)
  BY <1>9, <1>10
  DEF InstallCommand, TunCommand, StartCommand, StopCommand, UninstallCommand, PurgeCommand,
      UpdateCommand, UseCommand, AutostartCommand, RemoveLeftovers, Begin
<1>11. CASE \/ RunStart(p) \/ UninstallStop(p) \/ UninstallUnit(p) \/ UninstallFiles(p)
            \/ PurgeStop(p) \/ PurgeRemove(p) \/ UpdateReplace(p) \/ UpdateRename(p)
            \/ UpdateDownload(p) \/ UpdateClean(p)
  BY <1>3, <1>11
  DEF RunStart, UninstallStop, UninstallUnit, UninstallFiles, PurgeStop, PurgeRemove, UpdateReplace,
      UpdateRename, UpdateDownload, UpdateClean
<1> QED BY <1>6, <1>7, <1>8, <1>10, <1>11 DEF Step

\* An installation that reports success, and met nothing, runs its mode.
THEOREM InstallationsRun == Spec => InstallRuns
<1>1. ASSUME Inv, [Next]_vars, NEW p \in Procs, cmd[p].op = "install", cmd'[p].pc = "ok",
             hist'.clash = {}
      PROVE  LET m == cmd[p].mode IN
             /\ m \in svc'.active \cap svc'.unit
             /\ files'.binary[m] = "good" /\ files'.config = m
             /\ m = "system" => svc'.core
  <2>1. /\ Typed /\ CmdOK
        /\ cmd[p].pc \in {"drop", "drop unit", "check", "payload", "unit", "config", "activate", "post"}
    BY <1>1, OpOf DEF Inv, Typed
  <2>2. cmd'[p] # cmd[p]
    BY <1>1, <2>1
  <2>3. CASE Step(p)
    BY <1>1, <2>3, ReportsTruly
  <2>4. ASSUME NEW q \in Procs, Step(q), q # p PROVE FALSE
    BY <2>1, <2>2, <2>4, OthersStay
  <2>5. ASSUME NEW m \in Modes, ServiceDies(m) PROVE FALSE
    BY <2>2, <2>5 DEF ServiceDies
  <2>6. ASSUME Reboot PROVE FALSE
    BY <1>1, <2>2, <2>6 DEF Reboot, Idle
  <2> QED BY <1>1, <2>2, <2>3, <2>4, <2>5, <2>6 DEF Next, vars
<1>2. Inv /\ [Next]_vars =>
        [\A p \in Procs :
           cmd[p].op = "install" /\ cmd'[p].pc = "ok" /\ hist.clash' = {} =>
             LET m == cmd[p].mode IN
             /\ m \in svc'.active \cap svc'.unit
             /\ files'.binary[m] = "good" /\ files'.config = m
             /\ m = "system" => svc'.core]_vars
  BY <1>1
<1> QED BY AlwaysInv, <1>2, PTL DEF Spec, InstallRuns
-----------------------------------------------------------------------------
(* The downloads of an installation.  The module Downloads is instantiated *)
(* with the processes above and variables of its own; what it assumes of   *)
(* its constants is a hypothesis of every theorem.                         *)

CONSTANTS Urls, Tries
VARIABLES file, geo, dl, latest

D == INSTANCE Downloads

DownloadsConstants == "part" \notin Procs /\ {Urls, Tries} \subseteq Nat \ {0}

Stages == {"idle", "ask", "answer", "body", "install", "validate", "failed"}

Downloaders ==
  [pc : Stages, op : {"none", "core", "geo"}, version : {1, 2}, alone : BOOLEAN,
   url : 1..Urls, try : 1..Tries, offset : Nat, body : Seq(Nat), open : BOOLEAN,
   bytes : Seq(Nat), staged : Seq(Seq(Nat))]

PastRecords ==
  [what : {"core", "geo"}, commands : Nat, faults : Nat, streak : Nat, left : BOOLEAN,
   wrong : BOOLEAN]

Places == Procs \cup {"part"}
FilesTyped == file \in [Places -> Seq(Nat)]
DlTyped == dl \in [Procs -> Downloaders]
PastTyped == past \in PastRecords
LatestTyped == latest \in [1..Urls -> {1, 2}]

\* The step a command is at belongs to its kind.
StepsFit ==
  \A p \in Procs : /\ dl[p].pc = "idle" <=> dl[p].op = "none"
                   /\ dl[p].pc = "install" => dl[p].op = "core"
                   /\ dl[p].pc = "validate" => dl[p].op = "geo"

DlTypes == FilesTyped /\ DlTyped /\ PastTyped /\ LatestTyped /\ StepsFit

LEMMA DlInitTypes == ASSUME DownloadsConstants PROVE D!Init => DlTypes
<1> SUFFICES ASSUME D!Init PROVE DlTypes
  OBVIOUS
<1>0. Urls \in Nat \ {0} /\ Tries \in Nat \ {0}
  BY DEF DownloadsConstants
<1>1. D!Absent \in Seq(Nat) /\ <<>> \in Seq(Nat)
  BY DEF D!Absent
<1>2. FilesTyped
  BY <1>1 DEF D!Init, FilesTyped, Places
<1>3. <<>> \in Seq(Seq(Nat))
  OBVIOUS
<1>4. D!Idle \in Downloaders
  BY <1>0, <1>1, <1>3 DEF D!Idle, Downloaders, Stages
<1>5. DlTyped
  BY <1>4 DEF D!Init, DlTyped
<1>6. PastTyped
  BY DEF D!Init, PastTyped, PastRecords
<1>7. LatestTyped
  BY DEF D!Init, LatestTyped, D!Mirrors
<1>8. StepsFit
  BY DEF D!Init, StepsFit, D!Idle
<1> QED
  BY <1>2, <1>5, <1>6, <1>7, <1>8 DEF DlTypes


\* What a step of another command leaves of one: all but whether its file has a name.
Alike(s, r) ==
  /\ s.pc = r.pc /\ s.op = r.op /\ s.version = r.version /\ s.alone = r.alone
  /\ s.body = r.body /\ s.bytes = r.bytes

OthersAlike(p) == \A q \in Procs \ {p} : Alike(dl'[q], dl[q])
SameCommand(s, r) == s.op = r.op /\ s.version = r.version /\ s.alone = r.alone

LEMMA ClosedTyped ==
  ASSUME DlTyped, NEW place
  PROVE  /\ D!Closed(dl, place) \in [Procs -> Downloaders]
         /\ \A q \in Procs : /\ Alike(D!Closed(dl, place)[q], dl[q])
                             /\ D!Closed(dl, place)[q].url = dl[q].url
                             /\ D!Closed(dl, place)[q].try = dl[q].try
                             /\ D!Closed(dl, place)[q].offset = dl[q].offset
<1>1. ASSUME NEW q \in Procs
      PROVE  /\ [dl[q] EXCEPT !.open = @ /\ D!Place(q) # place] \in Downloaders
             /\ Alike([dl[q] EXCEPT !.open = @ /\ D!Place(q) # place], dl[q])
             /\ [dl[q] EXCEPT !.open = @ /\ D!Place(q) # place].url = dl[q].url
             /\ [dl[q] EXCEPT !.open = @ /\ D!Place(q) # place].try = dl[q].try
             /\ [dl[q] EXCEPT !.open = @ /\ D!Place(q) # place].offset = dl[q].offset
  <2>1. dl[q] \in Downloaders
    BY DEF DlTyped
  <2>2. PICK b \in BOOLEAN : b = (dl[q].open /\ D!Place(q) # place)
    OBVIOUS
  <2>3. [dl[q] EXCEPT !.open = b] \in Downloaders
    BY <2>1 DEF Downloaders
  <2> QED
    BY <2>1, <2>2, <2>3 DEF Downloaders, Alike
<1> QED
  BY <1>1 DEF D!Closed

\* A step that replaces the record of one command, of the records as they are or closed.
LEMMA RecordReplaced ==
  ASSUME NEW d \in [Procs -> Downloaders], NEW p \in Procs, NEW r \in Downloaders,
         \A q \in Procs : Alike(d[q], dl[q]),
         dl' = [d EXCEPT ![p] = r]
  PROVE  DlTyped' /\ OthersAlike(p) /\ dl'[p] = r
BY DEF DlTyped, OthersAlike

LEMMA ItselfAlike == \A q \in Procs : Alike(dl[q], dl[q])
BY DEF Alike

LEMMA PlaceTyped == ASSUME NEW p \in Procs PROVE D!Place(p) \in Places
BY DEF D!Place, Places

LEMMA AbsentTyped ==
  /\ D!Absent \in Seq(Nat) /\ <<>> \in Seq(Nat) /\ D!Absent # <<>>
  /\ Len(D!Absent) = 1 /\ Len(<<>>) = 0 /\ D!Absent[1] = 9
BY DEF D!Absent

LEMMA AttemptFailedOutline ==
  ASSUME DownloadsConstants, DlTypes, NEW p \in Procs, D!AttemptFailed(p)
  PROVE  /\ FilesTyped' /\ DlTyped' /\ OthersAlike(p) /\ SameCommand(dl'[p], dl[p])
         /\ dl'[p].pc \in {"ask", "failed"} /\ dl'[p].body = <<>>
         /\ file' = file \/ file' = [file EXCEPT ![D!Place(p)] = D!Absent]
         /\ dl'[p].pc = "failed" => file' = [file EXCEPT ![D!Place(p)] = D!Absent]
<1> USE DEF DlTypes
<1>1. PICK d : d = IF D!LastTry(p) THEN D!Closed(dl, D!Place(p)) ELSE dl
  OBVIOUS
<1>2. d \in [Procs -> Downloaders] /\ \A q \in Procs : Alike(d[q], dl[q])
  BY <1>1, ClosedTyped, ItselfAlike DEF DlTyped
<1>2a. d[p].url = dl[p].url /\ d[p].try = dl[p].try
  BY <1>1, ClosedTyped
<1>3. PICK r : r = [d[p] EXCEPT !.open = FALSE, !.body = <<>>,
                     !.pc = IF D!LastTry(p) /\ ~(D!UrlAfter(p) \in D!Mirrors)
                            THEN "failed" ELSE "ask",
                     !.try = IF D!LastTry(p) THEN 1 ELSE @ + 1,
                     !.url = IF D!LastTry(p) /\ D!UrlAfter(p) \in D!Mirrors
                             THEN D!UrlAfter(p) ELSE @]
  OBVIOUS
<1>4. dl' = [d EXCEPT ![p] = r]
  BY <1>1, <1>2, <1>3 DEF D!AttemptFailed
<1>5. r \in Downloaders
  <2>1. d[p] \in Downloaders
    BY <1>2
  <2>2. PICK t, u, l : /\ t = IF D!LastTry(p) THEN 1 ELSE d[p].try + 1
                       /\ u = (IF D!LastTry(p) /\ D!UrlAfter(p) \in D!Mirrors
                               THEN D!UrlAfter(p) ELSE d[p].url)
                       /\ l = (IF D!LastTry(p) /\ ~(D!UrlAfter(p) \in D!Mirrors)
                               THEN "failed" ELSE "ask")
    OBVIOUS
  <2>3. t \in 1..Tries
    BY <2>1, <2>2, <1>2a DEF D!LastTry, Downloaders, DownloadsConstants
  <2>4. u \in 1..Urls
    BY <2>1, <2>2 DEF D!Mirrors, Downloaders
  <2>5. l \in Stages
    BY <2>2 DEF Stages
  <2>6. r = [d[p] EXCEPT !.open = FALSE, !.body = <<>>, !.pc = l, !.try = t, !.url = u]
    BY <1>3, <2>2
  <2> QED
    BY <2>1, <2>3, <2>4, <2>5, <2>6, AbsentTyped DEF Downloaders
<1>6. DlTyped' /\ OthersAlike(p) /\ dl'[p] = r
  BY <1>2, <1>4, <1>5, RecordReplaced
<1>7. SameCommand(r, dl[p]) /\ r.pc \in {"ask", "failed"} /\ r.body = <<>>
      /\ (r.pc = "failed" => D!LastTry(p))
  BY <1>2, <1>3 DEF Downloaders, SameCommand, Alike
<1>8. file' = IF D!LastTry(p) THEN [file EXCEPT ![D!Place(p)] = D!Absent] ELSE file
  BY DEF D!AttemptFailed, D!Switched
<1>9. FilesTyped'
  BY <1>8, AbsentTyped DEF FilesTyped
<1> QED
  BY <1>6, <1>7, <1>8, <1>9

LEMMA ReceiveOutline ==
  ASSUME DlTypes, NEW p \in Procs, NEW from \in Nat, NEW body \in Seq(Nat),
         D!Receive(p, from, body)
  PROVE  /\ FilesTyped' /\ DlTyped' /\ OthersAlike(p) /\ SameCommand(dl'[p], dl[p])
         /\ dl'[p].pc = "body" /\ dl'[p].open /\ dl'[p].body = body
         /\ \E f \in {<<>>, file[D!Place(p)]} :
              /\ f # D!Absent
              /\ file' = [file EXCEPT ![D!Place(p)] = f]
<1> USE DEF DlTypes
<1> DEFINE place == D!Place(p)
<1>1. PICK fresh : fresh = IF dl[p].offset > 0 /\ from = 0 THEN D!Absent ELSE file[place]
  OBVIOUS
<1>2. PICK d : d = IF fresh = file[place] THEN dl ELSE D!Closed(dl, place)
  OBVIOUS
<1>3. d \in [Procs -> Downloaders] /\ \A q \in Procs : Alike(d[q], dl[q])
  BY <1>2, ClosedTyped, ItselfAlike DEF DlTyped
<1>4. PICK r : r = [d[p] EXCEPT !.pc = "body", !.open = TRUE, !.offset = 0, !.body = body]
  OBVIOUS
<1>5. dl' = [d EXCEPT ![p] = r]
  BY <1>1, <1>2, <1>3, <1>4 DEF D!Receive
<1>6. r \in Downloaders
  <2>1. d[p] \in Downloaders
    BY <1>3
  <2> QED
    BY <2>1, <1>4 DEF Downloaders, Stages
<1>7. DlTyped' /\ OthersAlike(p) /\ dl'[p] = r
  BY <1>3, <1>5, <1>6, RecordReplaced
<1>8. SameCommand(r, dl[p]) /\ r.pc = "body" /\ r.open /\ r.body = body
  BY <1>3, <1>4 DEF Downloaders, SameCommand, Alike
<1>9. PICK f : f = IF fresh = D!Absent \/ (dl[p].op = "geo" /\ from = 0) THEN <<>> ELSE fresh
  OBVIOUS
<1>10. f \in {<<>>, file[place]} /\ f # D!Absent
  BY <1>1, <1>9, AbsentTyped
<1>11. file' = [file EXCEPT ![place] = f]
  BY <1>1, <1>9 DEF D!Receive
<1>12. f \in Seq(Nat)
  <2>1. place \in Places
    BY PlaceTyped
  <2> QED
    BY <2>1, <1>10, AbsentTyped DEF FilesTyped
<1>13. FilesTyped'
  BY <1>11, <1>12 DEF FilesTyped
<1> QED
  BY <1>7, <1>8, <1>10, <1>11, <1>13

-----------------------------------------------------------------------------
(* Files and assets.                                                       *)

LEMMA WholeIs ==
  ASSUME NEW r \in {1, 2}
  PROVE  /\ D!Whole(r) \in Seq(Nat) /\ Len(D!Whole(r)) = r + 1
         /\ \A i \in 1..r + 1 : D!Whole(r)[i] = r
<1>1. r + 1 \in Nat /\ r \in Nat
  OBVIOUS
<1>2. \A i \in 1..r + 1 : D!Whole(r)[i] = r
  BY DEF D!Whole
<1>3. D!Whole(r) \in Seq(Nat) /\ Len(D!Whole(r)) = r + 1
  BY <1>1 DEF D!Whole
<1> QED
  BY <1>2, <1>3

LEMMA DatabaseIs ==
  ASSUME NEW r \in {1, 2}
  PROVE  D!Database(r) \in Seq(Nat) /\ Len(D!Database(r)) = 2
BY DEF D!Database

LEMMA SizeTyped == ASSUME NEW f \in Seq(Nat) PROVE D!Size(f) \in Nat
BY DEF D!Size

\* Whole releases only begin what decodes to them: a decoder that ignores what follows.
LEMMA DecodedIs ==
  ASSUME NEW f \in Seq(Nat)
  PROVE  \A r : r \in D!Decoded(f) <=>
           r \in {1, 2} /\ Len(f) >= r + 1 /\ \A i \in 1..r + 1 : f[i] = r
<1> SUFFICES ASSUME NEW r \in {1, 2}
             PROVE  (D!Size(f) >= Len(D!Whole(r)) /\ SubSeq(f, 1, Len(D!Whole(r))) = D!Whole(r))
                    <=> (Len(f) >= r + 1 /\ \A i \in 1..r + 1 : f[i] = r)
  BY DEF D!Decoded, D!Releases
<1>1. r + 1 \in Nat /\ Len(f) \in Nat
  OBVIOUS
<1>2. CASE Len(f) < r + 1
  BY <1>1, <1>2, WholeIs DEF D!Size
<1>3. CASE Len(f) >= r + 1
  <2>1. f # D!Absent
    <3>1. Len(D!Absent) = 1
      BY AbsentTyped
    <3>2. r = 1 \/ r = 2
      OBVIOUS
    <3>3. \A n \in Nat : n >= r + 1 => n # 1
      BY <3>2
    <3>4. Len(f) # 1
      BY <1>1, <1>3, <3>3
    <3> QED
      BY <3>1, <3>4
  <2>2. PICK g : g = SubSeq(f, 1, r + 1)
    OBVIOUS
  <2>3. g \in Seq(Nat) /\ Len(g) = r + 1 /\ \A i \in 1..r + 1 : g[i] = f[i]
    BY <1>1, <1>3, <2>2
  <2>4. g = D!Whole(r) <=> \A i \in 1..r + 1 : g[i] = r
    <3>1. PICK w : w = D!Whole(r)
      OBVIOUS
    <3>2. w \in Seq(Nat) /\ Len(w) = r + 1 /\ \A i \in 1..r + 1 : w[i] = r
      BY <3>1, WholeIs
    <3>3. (\A i \in 1..r + 1 : g[i] = r) => g = w
      BY <1>1, <2>3, <3>2
    <3> QED
      BY <3>1, <3>2, <3>3
  <2> QED
    BY <1>3, <2>1, <2>2, <2>3, <2>4, WholeIs DEF D!Size
<1> QED
  BY <1>1, <1>2, <1>3

LEMMA NothingDecoded ==
  D!Decoded(D!Absent) = {} /\ D!Decoded(<<>>) = {}
<1>1. D!Absent \in Seq(Nat) /\ <<>> \in Seq(Nat)
  BY AbsentTyped
<1>2. ASSUME NEW f \in Seq(Nat), Len(f) <= 1, NEW r \in D!Decoded(f)
      PROVE  FALSE
  <2>1. r \in {1, 2} /\ Len(f) >= r + 1
    BY DecodedIs
  <2> QED
    BY <1>2, <2>1
<1>3. Len(D!Absent) = 1 /\ Len(<<>>) = 0
  BY AbsentTyped
<1>4. \A f \in {D!Absent, <<>>} : Len(f) <= 1
  BY <1>3
<1>5. \A f \in {D!Absent, <<>>} : f \in Seq(Nat)
  BY <1>1
<1>6. \A f \in {D!Absent, <<>>} : \A r : r \notin D!Decoded(f)
  BY <1>2, <1>4, <1>5
<1> QED
  BY <1>6

\* A chunk more makes whole only what it belongs to.
LEMMA DecodedAppend ==
  ASSUME NEW f \in Seq(Nat), NEW x \in Nat
  PROVE  \A r \in D!Decoded(Append(f, x)) : r \in D!Decoded(f) \/ x = r
<1>1. PICK g : g = Append(f, x)
  OBVIOUS
<1>2. g \in Seq(Nat) /\ Len(g) = Len(f) + 1 /\ g[Len(f) + 1] = x
      /\ \A i \in 1..Len(f) : g[i] = f[i]
  BY <1>1
<1>3. ASSUME NEW r \in D!Decoded(g)
      PROVE  r \in D!Decoded(f) \/ x = r
  <2>1. r \in {1, 2} /\ Len(g) >= r + 1 /\ \A i \in 1..r + 1 : g[i] = r
    BY <1>2, DecodedIs
  <2>2. CASE Len(f) >= r + 1
    <3>1. \A i \in 1..r + 1 : f[i] = r
      BY <1>2, <2>1, <2>2
    <3> QED
      BY <2>1, <2>2, <3>1, DecodedIs
  <2>3. CASE Len(f) < r + 1
    <3>1. Len(f) + 1 = r + 1
      BY <1>2, <2>1, <2>3
    <3> QED
      BY <1>2, <2>1, <3>1
  <2> QED
    BY <2>1, <2>2, <2>3
<1> QED
  BY <1>1, <1>3

LEMMA WholeDecoded ==
  ASSUME NEW r \in {1, 2}
  PROVE  D!Decoded(D!Whole(r)) # {}
<1>1. PICK w : w = D!Whole(r)
  OBVIOUS
<1>2. w \in Seq(Nat) /\ Len(w) = r + 1 /\ \A i \in 1..r + 1 : w[i] = r
  BY <1>1, WholeIs
<1>3. r \in D!Decoded(w)
  <2>1. Len(w) >= r + 1
    BY <1>2
  <2> QED
    BY <1>2, <2>1, DecodedIs
<1> QED
  BY <1>1, <1>3
-----------------------------------------------------------------------------
(* What each step does to the command that takes it and to the files.      *)

LEMMA StepsFitKept ==
  ASSUME StepsFit, NEW p \in Procs, OthersAlike(p),
         dl'[p].pc = "idle" <=> dl'[p].op = "none",
         dl'[p].pc = "install" => dl'[p].op = "core",
         dl'[p].pc = "validate" => dl'[p].op = "geo"
  PROVE  StepsFit'
BY DEF StepsFit, OthersAlike, Alike

LEMMA PastFaultTyped ==
  ASSUME PastTyped, D!Fault
  PROVE  /\ PastTyped' /\ past'.streak = 0 /\ past'.what = past.what
         /\ past'.left = past.left /\ past'.wrong = past.wrong
<1>1. PICK r : r = [past EXCEPT !.faults = @ + 1, !.streak = 0]
  OBVIOUS
<1>2. past \in PastRecords /\ past' = r
  BY <1>1 DEF PastTyped, D!Fault
<1>3. past.faults + 1 \in Nat
  BY <1>2 DEF PastRecords
<1>4. /\ r \in PastRecords /\ r.streak = 0 /\ r.what = past.what
      /\ r.left = past.left /\ r.wrong = past.wrong
  BY <1>1, <1>2, <1>3 DEF PastRecords
<1> QED
  BY <1>2, <1>4 DEF PastTyped

SamePast == past'.what = past.what /\ past'.left = past.left /\ past'.wrong = past.wrong

LEMMA AssetTyped ==
  ASSUME DlTypes, NEW p \in Procs
  PROVE  /\ D!Asset(p) \in Seq(Nat) /\ Len(D!Asset(p)) \in {2, 3}
         /\ dl[p].op # "geo" => D!Asset(p) = D!Whole(dl[p].version)
<1>1. dl[p] \in Downloaders
  BY DEF DlTypes, DlTyped
<1>2. dl[p].version \in {1, 2} /\ dl[p].url \in 1..Urls
  BY <1>1 DEF Downloaders
<1>3. latest[dl[p].url] \in {1, 2}
  BY <1>2 DEF DlTypes, LatestTyped
<1>4. CASE dl[p].op = "geo"
  BY <1>3, <1>4, DatabaseIs DEF D!Asset
<1>5. CASE dl[p].op # "geo"
  BY <1>2, <1>5, WholeIs DEF D!Asset
<1> QED
  BY <1>4, <1>5

LEMMA VersionTyped ==
  ASSUME DlTypes, NEW p \in Procs
  PROVE  dl[p].version \in {1, 2} /\ dl[p].version \in Nat /\ dl[p].version + 1 \in Nat
<1>1. dl[p].version \in {1, 2}
  BY DEF DlTypes, DlTyped, Downloaders
<1>2. \A v \in {1, 2} : v \in Nat /\ v + 1 \in Nat
  OBVIOUS
<1> QED
  BY <1>1, <1>2

LEMMA AskOutline ==
  ASSUME DlTypes, NEW p \in Procs, D!Ask(p)
  PROVE  /\ DlTypes' /\ OthersAlike(p) /\ SameCommand(dl'[p], dl[p])
         /\ dl'[p].pc = "answer" /\ dl'[p].body = dl[p].body
         /\ dl'[p].offset = D!Size(file[D!Place(p)])
         /\ file' = file /\ past' = past
<1>1. PICK n : n = D!Size(file[D!Place(p)])
  OBVIOUS
<1>2. n \in Nat
  <2>1. file[D!Place(p)] \in Seq(Nat)
    BY PlaceTyped DEF DlTypes, FilesTyped
  <2> QED
    BY <1>1, <2>1, SizeTyped
<1>3. dl[p] \in Downloaders
  BY DEF DlTypes, DlTyped
<1>4. PICK r : r = [dl[p] EXCEPT !.offset = n, !.pc = "answer"]
  OBVIOUS
<1>5. r \in Downloaders
  BY <1>2, <1>3, <1>4 DEF Downloaders, Stages
<1>6. dl' = [dl EXCEPT ![p] = r]
  BY <1>1, <1>4 DEF D!Ask
<1>7. DlTyped' /\ OthersAlike(p) /\ dl'[p] = r
  BY <1>5, <1>6, RecordReplaced, ItselfAlike DEF DlTypes, DlTyped
<1>8. r.pc = "answer" /\ r.offset = n /\ r.body = dl[p].body /\ SameCommand(r, dl[p])
  BY <1>3, <1>4 DEF Downloaders, SameCommand
<1>9. dl[p].op # "none"
  BY DEF DlTypes, StepsFit, D!Ask
<1>10. StepsFit'
  BY <1>7, <1>8, <1>9, StepsFitKept DEF DlTypes, SameCommand
<1>11. file' = file /\ past' = past /\ latest' = latest
  BY DEF D!Ask
<1> QED
  BY <1>1, <1>7, <1>8, <1>10, <1>11 DEF DlTypes, FilesTyped, PastTyped, LatestTyped

\* A sound answer brings the rest of what is there, or everything.
LEMMA AnswerOutline ==
  ASSUME DlTypes, NEW p \in Procs, D!Answer(p)
  PROVE  /\ DlTypes' /\ OthersAlike(p) /\ SameCommand(dl'[p], dl[p]) /\ past' = past
         /\ \/ /\ dl'[p].pc = "answer"
               /\ dl[p].offset > 0
               /\ file' = [file EXCEPT ![D!Place(p)] = D!Absent]
               /\ dl'[p].body = dl[p].body
            \/ /\ dl'[p].pc = "body" /\ dl'[p].open
               /\ \/ dl'[p].body = D!Asset(p)
                  \/ dl[p].offset \in 1..(Len(D!Asset(p)) - 1)
                     /\ dl'[p].body = D!Rest(D!Asset(p), dl[p].offset)
               /\ \E f \in {<<>>, file[D!Place(p)]} :
                    f # D!Absent /\ file' = [file EXCEPT ![D!Place(p)] = f]
<1> DEFINE o == dl[p].offset
<1>0. dl[p] \in Downloaders /\ o \in Nat
  BY DEF DlTypes, DlTyped, Downloaders
<1>1. past' = past /\ latest' = latest /\ dl[p].pc = "answer"
  BY DEF D!Answer
<1>2. PastTyped' /\ LatestTyped'
  BY <1>1 DEF DlTypes, PastTyped, LatestTyped
<1>3. dl[p].op # "none"
  BY <1>1 DEF DlTypes, StepsFit
<1>4. ASSUME NEW from \in Nat, NEW body \in Seq(Nat), D!Receive(p, from, body)
      PROVE  /\ DlTypes' /\ OthersAlike(p) /\ SameCommand(dl'[p], dl[p])
             /\ dl'[p].pc = "body" /\ dl'[p].open /\ dl'[p].body = body
             /\ \E f \in {<<>>, file[D!Place(p)]} :
                  f # D!Absent /\ file' = [file EXCEPT ![D!Place(p)] = f]
  <2>1. /\ FilesTyped' /\ DlTyped' /\ OthersAlike(p) /\ SameCommand(dl'[p], dl[p])
        /\ dl'[p].pc = "body" /\ dl'[p].open /\ dl'[p].body = body
        /\ \E f \in {<<>>, file[D!Place(p)]} :
             f # D!Absent /\ file' = [file EXCEPT ![D!Place(p)] = f]
    BY <1>4, ReceiveOutline
  <2>2. StepsFit'
    BY <1>3, <2>1, StepsFitKept DEF DlTypes, SameCommand
  <2> QED
    BY <1>2, <2>1, <2>2 DEF DlTypes
<1>5. D!Asset(p) \in Seq(Nat) /\ Len(D!Asset(p)) \in {2, 3}
  BY AssetTyped
<1>6. CASE o \in 1..(Len(D!Asset(p)) - 1) /\ D!Receive(p, o, D!Rest(D!Asset(p), o))
  <2>1. D!Rest(D!Asset(p), o) \in Seq(Nat)
    BY <1>0, <1>5, <1>6 DEF D!Rest
  <2> QED
    BY <1>0, <1>1, <1>4, <1>6, <2>1
<1>7. CASE D!Receive(p, 0, D!Asset(p))
  <2>1. 0 \in Nat
    OBVIOUS
  <2> QED
    BY <1>1, <1>4, <1>5, <1>7, <2>1
<1>8. CASE /\ o >= Len(D!Asset(p))
           /\ file' = [file EXCEPT ![D!Place(p)] = D!Absent]
           /\ dl' = [D!Closed(dl, D!Place(p)) EXCEPT ![p].offset = 0]
  <2>1. PICK d : d = D!Closed(dl, D!Place(p))
    OBVIOUS
  <2>2. d \in [Procs -> Downloaders] /\ \A q \in Procs : Alike(d[q], dl[q])
    BY <2>1, ClosedTyped DEF DlTypes
  <2>3. PICK r : r = [d[p] EXCEPT !.offset = 0]
    OBVIOUS
  <2>4. d[p] \in Downloaders /\ Alike(d[p], dl[p])
    BY <2>2
  <2>5. r \in Downloaders /\ r.pc = "answer" /\ r.body = dl[p].body /\ SameCommand(r, dl[p])
    BY <1>1, <2>3, <2>4 DEF Downloaders, Alike, SameCommand
  <2>6. dl' = [d EXCEPT ![p] = r]
    BY <1>8, <2>1, <2>2, <2>3
  <2>7. DlTyped' /\ OthersAlike(p) /\ dl'[p] = r
    BY <2>2, <2>5, <2>6, RecordReplaced
  <2>8. FilesTyped'
    BY <1>8, AbsentTyped DEF DlTypes, FilesTyped
  <2>9. StepsFit'
    BY <1>3, <2>5, <2>7, StepsFitKept DEF DlTypes, SameCommand
  <2>10. o > 0
    <3>1. Len(D!Asset(p)) = 2 \/ Len(D!Asset(p)) = 3
      BY <1>5
    <3>2. \A n \in Nat : n >= 2 \/ n >= 3 => n > 0
      OBVIOUS
    <3> QED
      BY <1>0, <1>8, <3>1, <3>2
  <2> QED
    BY <1>1, <1>2, <1>8, <2>5, <2>7, <2>8, <2>9, <2>10 DEF DlTypes
<1> QED
  BY <1>6, <1>7, <1>8 DEF D!Answer

LEMMA BadAnswerOutline ==
  ASSUME DownloadsConstants, DlTypes, NEW p \in Procs, D!BadAnswer(p)
  PROVE  /\ DlTypes' /\ OthersAlike(p) /\ SameCommand(dl'[p], dl[p])
         /\ SamePast /\ past'.streak = 0
         /\ \/ /\ dl'[p].pc \in {"ask", "failed"} /\ dl'[p].body = <<>>
               /\ file' = file \/ file' = [file EXCEPT ![D!Place(p)] = D!Absent]
               /\ dl'[p].pc = "failed" => file' = [file EXCEPT ![D!Place(p)] = D!Absent]
            \/ /\ dl'[p].pc = "body" /\ dl'[p].open
               /\ dl'[p].body \in {<<D!Page>>, SubSeq(D!Asset(p), 1, 1)}
               /\ \E f \in {<<>>, file[D!Place(p)]} :
                    f # D!Absent /\ file' = [file EXCEPT ![D!Place(p)] = f]
<1>1. D!Fault /\ latest' = latest /\ dl[p].pc = "answer"
  BY DEF D!BadAnswer
<1>2. PastTyped' /\ LatestTyped' /\ SamePast /\ past'.streak = 0
  BY <1>1, PastFaultTyped DEF DlTypes, LatestTyped, SamePast
<1>3. dl[p].op # "none"
  BY <1>1 DEF DlTypes, StepsFit
<1>4. CASE D!AttemptFailed(p)
  <2>1. /\ FilesTyped' /\ DlTyped' /\ OthersAlike(p) /\ SameCommand(dl'[p], dl[p])
        /\ dl'[p].pc \in {"ask", "failed"} /\ dl'[p].body = <<>>
        /\ file' = file \/ file' = [file EXCEPT ![D!Place(p)] = D!Absent]
        /\ dl'[p].pc = "failed" => file' = [file EXCEPT ![D!Place(p)] = D!Absent]
    BY <1>4, AttemptFailedOutline
  <2>2. StepsFit'
    BY <1>3, <2>1, StepsFitKept DEF DlTypes, SameCommand
  <2> QED
    BY <1>2, <2>1, <2>2 DEF DlTypes
<1>5. ASSUME NEW body \in Seq(Nat), D!Receive(p, 0, body)
      PROVE  /\ DlTypes' /\ OthersAlike(p) /\ SameCommand(dl'[p], dl[p])
             /\ dl'[p].pc = "body" /\ dl'[p].open /\ dl'[p].body = body
             /\ \E f \in {<<>>, file[D!Place(p)]} :
                  f # D!Absent /\ file' = [file EXCEPT ![D!Place(p)] = f]
  <2>0. 0 \in Nat
    OBVIOUS
  <2>1. /\ FilesTyped' /\ DlTyped' /\ OthersAlike(p) /\ SameCommand(dl'[p], dl[p])
        /\ dl'[p].pc = "body" /\ dl'[p].open /\ dl'[p].body = body
        /\ \E f \in {<<>>, file[D!Place(p)]} :
             f # D!Absent /\ file' = [file EXCEPT ![D!Place(p)] = f]
    BY <1>5, <2>0, ReceiveOutline
  <2>2. StepsFit'
    BY <1>3, <2>1, StepsFitKept DEF DlTypes, SameCommand
  <2> QED
    BY <1>2, <2>1, <2>2 DEF DlTypes
<1>6. CASE D!Receive(p, 0, <<D!Page>>)
  <2>1. <<D!Page>> \in Seq(Nat)
    BY DEF D!Page
  <2> QED
    BY <1>2, <1>5, <1>6, <2>1
<1>7. CASE D!Receive(p, 0, SubSeq(D!Asset(p), 1, 1))
  <2>1. D!Asset(p) \in Seq(Nat) /\ Len(D!Asset(p)) \in {2, 3}
    BY AssetTyped
  <2>2. SubSeq(D!Asset(p), 1, 1) \in Seq(Nat)
    BY <2>1
  <2> QED
    BY <1>2, <1>5, <1>7, <2>2
<1> QED
  BY <1>4, <1>6, <1>7 DEF D!BadAnswer

LEMMA ChunkOutline ==
  ASSUME DlTypes, NEW p \in Procs, D!Chunk(p)
  PROVE  /\ DlTypes' /\ OthersAlike(p) /\ SameCommand(dl'[p], dl[p]) /\ past' = past
         /\ dl[p].pc = "body" /\ dl'[p].pc = "body" /\ dl[p].body # <<>>
         /\ dl'[p].body = Tail(dl[p].body) /\ dl'[p].open = dl[p].open
         /\ file' = IF dl[p].open
                    THEN [file EXCEPT ![D!Place(p)] = Append(@, Head(dl[p].body))]
                    ELSE file
<1>1. /\ past' = past /\ latest' = latest /\ dl[p].pc = "body" /\ dl[p].body # <<>>
      /\ file' = IF dl[p].open
                 THEN [file EXCEPT ![D!Place(p)] = Append(@, Head(dl[p].body))]
                 ELSE file
  BY DEF D!Chunk
<1>2. dl[p] \in Downloaders
  BY DEF DlTypes, DlTyped
<1>3. dl[p].body \in Seq(Nat)
  BY <1>2 DEF Downloaders
<1>4. Tail(dl[p].body) \in Seq(Nat) /\ Head(dl[p].body) \in Nat
  BY <1>1, <1>3
<1>5. PICK r : r = [dl[p] EXCEPT !.body = Tail(dl[p].body)]
  OBVIOUS
<1>6. r \in Downloaders
  BY <1>2, <1>4, <1>5 DEF Downloaders
<1>7. dl' = [dl EXCEPT ![p] = r]
  BY <1>2, <1>5 DEF D!Chunk, DlTypes, DlTyped
<1>8. DlTyped' /\ OthersAlike(p) /\ dl'[p] = r
  BY <1>6, <1>7, RecordReplaced, ItselfAlike DEF DlTypes, DlTyped
<1>9. r.pc = "body" /\ r.body = Tail(dl[p].body) /\ r.open = dl[p].open /\ SameCommand(r, dl[p])
  BY <1>1, <1>2, <1>5 DEF Downloaders, SameCommand
<1>10. FilesTyped'
  <2>1. file[D!Place(p)] \in Seq(Nat)
    BY PlaceTyped DEF DlTypes, FilesTyped
  <2>2. Append(file[D!Place(p)], Head(dl[p].body)) \in Seq(Nat)
    BY <1>4, <2>1
  <2> QED
    BY <1>1, <2>2 DEF DlTypes, FilesTyped
<1>11. dl[p].op # "none"
  BY <1>1 DEF DlTypes, StepsFit
<1>12. StepsFit'
  BY <1>8, <1>9, <1>11, StepsFitKept DEF DlTypes, SameCommand
<1> QED
  BY <1>1, <1>8, <1>9, <1>10, <1>12 DEF DlTypes, PastTyped, LatestTyped

LEMMA BreakOutline ==
  ASSUME DownloadsConstants, DlTypes, NEW p \in Procs, D!Break(p)
  PROVE  /\ DlTypes' /\ OthersAlike(p) /\ SameCommand(dl'[p], dl[p])
         /\ SamePast /\ past'.streak = 0
         /\ dl'[p].pc \in {"ask", "failed"} /\ dl'[p].body = <<>>
         /\ file' = file \/ file' = [file EXCEPT ![D!Place(p)] = D!Absent]
         /\ dl'[p].pc = "failed" => file' = [file EXCEPT ![D!Place(p)] = D!Absent]
<1>1. D!Fault /\ D!AttemptFailed(p) /\ latest' = latest /\ dl[p].pc = "body"
  BY DEF D!Break
<1>2. PastTyped' /\ LatestTyped' /\ SamePast /\ past'.streak = 0
  BY <1>1, PastFaultTyped DEF DlTypes, LatestTyped, SamePast
<1>3. dl[p].op # "none"
  BY <1>1 DEF DlTypes, StepsFit
<1>4. /\ FilesTyped' /\ DlTyped' /\ OthersAlike(p) /\ SameCommand(dl'[p], dl[p])
      /\ dl'[p].pc \in {"ask", "failed"} /\ dl'[p].body = <<>>
      /\ file' = file \/ file' = [file EXCEPT ![D!Place(p)] = D!Absent]
      /\ dl'[p].pc = "failed" => file' = [file EXCEPT ![D!Place(p)] = D!Absent]
  BY <1>1, AttemptFailedOutline
<1>5. StepsFit'
  BY <1>3, <1>4, StepsFitKept DEF DlTypes, SameCommand
<1> QED
  BY <1>2, <1>4, <1>5 DEF DlTypes

LEMMA ReadBackOutline ==
  ASSUME DownloadsConstants, DlTypes, NEW p \in Procs, D!ReadBack(p)
  PROVE  /\ DlTypes' /\ OthersAlike(p) /\ SameCommand(dl'[p], dl[p]) /\ past' = past
         /\ dl[p].pc = "body" /\ dl[p].body = <<>> /\ dl'[p].body = <<>>
         /\ \/ /\ file["part"] = D!Absent
               /\ dl'[p].pc \in {"ask", "failed"}
               /\ file' = file \/ file' = [file EXCEPT ![D!Place(p)] = D!Absent]
               /\ dl'[p].pc = "failed" => file' = [file EXCEPT ![D!Place(p)] = D!Absent]
            \/ /\ dl'[p].pc = "install" /\ dl'[p].bytes = file["part"] /\ file' = file
<1>1. /\ past' = past /\ latest' = latest /\ dl[p].pc = "body" /\ dl[p].op = "core"
      /\ dl[p].body = <<>>
  BY DEF D!ReadBack
<1>2. PastTyped' /\ LatestTyped'
  BY <1>1 DEF DlTypes, PastTyped, LatestTyped
<1>3. CASE file["part"] = D!Absent
  <2>0. D!AttemptFailed(p)
    BY <1>3 DEF D!ReadBack
  <2>1. /\ FilesTyped' /\ DlTyped' /\ OthersAlike(p) /\ SameCommand(dl'[p], dl[p])
        /\ dl'[p].pc \in {"ask", "failed"} /\ dl'[p].body = <<>>
        /\ file' = file \/ file' = [file EXCEPT ![D!Place(p)] = D!Absent]
        /\ dl'[p].pc = "failed" => file' = [file EXCEPT ![D!Place(p)] = D!Absent]
    BY <2>0, AttemptFailedOutline
  <2>2. StepsFit'
    BY <1>1, <2>1, StepsFitKept DEF DlTypes, SameCommand
  <2> QED
    BY <1>1, <1>2, <1>3, <2>1, <2>2 DEF DlTypes
<1>4. CASE file["part"] # D!Absent
  <2>1. dl[p] \in Downloaders
    BY DEF DlTypes, DlTyped
  <2>2. file["part"] \in Seq(Nat)
    BY DEF DlTypes, FilesTyped, Places
  <2>3. PICK r : r = [dl[p] EXCEPT !.bytes = file["part"], !.open = FALSE, !.pc = "install"]
    OBVIOUS
  <2>4. r \in Downloaders
    BY <2>1, <2>2, <2>3 DEF Downloaders, Stages
  <2>5. dl' = [dl EXCEPT ![p] = r] /\ file' = file
    BY <1>4, <2>3 DEF D!ReadBack
  <2>6. DlTyped' /\ OthersAlike(p) /\ dl'[p] = r
    BY <2>4, <2>5, RecordReplaced, ItselfAlike DEF DlTypes, DlTyped
  <2>7. r.pc = "install" /\ r.bytes = file["part"] /\ r.body = <<>> /\ SameCommand(r, dl[p])
    BY <1>1, <2>1, <2>3 DEF Downloaders, SameCommand
  <2>8. StepsFit'
    BY <1>1, <2>6, <2>7, StepsFitKept DEF DlTypes, SameCommand
  <2> QED
    BY <1>1, <1>2, <2>5, <2>6, <2>7, <2>8 DEF DlTypes, FilesTyped
<1> QED
  BY <1>3, <1>4
LEMMA IdleTyped ==
  ASSUME DownloadsConstants
  PROVE  /\ D!Idle \in Downloaders /\ D!Idle.pc = "idle" /\ D!Idle.op = "none"
         /\ D!Idle.body = <<>>
<1>0. Urls \in Nat \ {0} /\ Tries \in Nat \ {0}
  BY DEF DownloadsConstants
<1>1. D!Absent \in Seq(Nat) /\ <<>> \in Seq(Nat)
  BY DEF D!Absent
<1>3. <<>> \in Seq(Seq(Nat))
  OBVIOUS
<1> QED
  BY <1>0, <1>1, <1>3 DEF D!Idle, Downloaders, Stages

LEMMA InstallOutline ==
  ASSUME DownloadsConstants, DlTypes, NEW p \in Procs, D!Install(p)
  PROVE  /\ DlTypes' /\ OthersAlike(p) /\ dl[p].pc = "install"
         /\ file' = [file EXCEPT !["part"] = D!Absent]
         /\ past'.what = past.what /\ past'.left = past.left
         /\ \/ /\ D!Decoded(dl[p].bytes) = {}
               /\ dl'[p].pc = "failed" /\ SameCommand(dl'[p], dl[p]) /\ past' = past
               /\ dl'[p].body = dl[p].body
            \/ /\ D!Decoded(dl[p].bytes) # {} /\ dl'[p] = D!Idle /\ past'.streak = 0
               /\ past'.wrong = (past.wrong \/ (dl[p].alone /\ dl[p].version \notin D!Decoded(dl[p].bytes)))
<1>1. PICK got : got = D!Decoded(dl[p].bytes)
  OBVIOUS
<1>2. /\ dl[p].pc = "install" /\ latest' = latest
      /\ file' = [file EXCEPT !["part"] = D!Absent]
      /\ dl' = [(IF file' = file THEN dl ELSE D!Closed(dl, "part")) EXCEPT
                  ![p] = IF got = {} THEN [@ EXCEPT !.pc = "failed"] ELSE D!Idle]
      /\ past' = IF got = {} THEN past
                 ELSE [past EXCEPT !.streak = 0,
                                   !.wrong = @ \/ (dl[p].alone /\ dl[p].version \notin got)]
  BY <1>1 DEF D!Install, D!WithoutPart
<1>3. PICK d : d = IF file' = file THEN dl ELSE D!Closed(dl, "part")
  OBVIOUS
<1>4. d \in [Procs -> Downloaders] /\ \A q \in Procs : Alike(d[q], dl[q])
  BY <1>3, ClosedTyped, ItselfAlike DEF DlTypes, DlTyped
<1>5. PICK r : r = IF got = {} THEN [d[p] EXCEPT !.pc = "failed"] ELSE D!Idle
  OBVIOUS
<1>6. dl' = [d EXCEPT ![p] = r]
  BY <1>2, <1>3, <1>4, <1>5
<1>7. d[p] \in Downloaders /\ Alike(d[p], dl[p])
  BY <1>4
<1>8. r \in Downloaders
  <2>1. CASE got = {}
    BY <1>5, <1>7, <2>1 DEF Downloaders, Stages
  <2>2. CASE got # {}
    BY <1>5, <2>2, IdleTyped
  <2> QED
    BY <2>1, <2>2
<1>9. DlTyped' /\ OthersAlike(p) /\ dl'[p] = r
  BY <1>4, <1>6, <1>8, RecordReplaced
<1>10. FilesTyped' /\ LatestTyped'
  BY <1>2, AbsentTyped DEF DlTypes, FilesTyped, LatestTyped, Places
<1>11. dl[p].op = "core"
  BY <1>2 DEF DlTypes, StepsFit
<1>12. CASE got = {}
  <2>1. r.pc = "failed" /\ SameCommand(r, dl[p]) /\ r.body = dl[p].body
    BY <1>5, <1>7, <1>12 DEF Downloaders, Alike, SameCommand
  <2>2. StepsFit'
    BY <1>9, <1>11, <2>1, StepsFitKept DEF DlTypes, SameCommand
  <2>3. past' = past
    BY <1>2, <1>12
  <2> QED
    BY <1>1, <1>2, <1>9, <1>10, <1>12, <2>1, <2>2, <2>3 DEF DlTypes, PastTyped
<1>13. CASE got # {}
  <2>1. r = D!Idle
    BY <1>5, <1>13
  <2>2. StepsFit'
    BY <1>9, <2>1, StepsFitKept, IdleTyped DEF DlTypes
  <2>3. PICK w \in BOOLEAN : w = (past.wrong \/ (dl[p].alone /\ dl[p].version \notin got))
    OBVIOUS
  <2>4. past \in PastRecords /\ past' = [past EXCEPT !.streak = 0, !.wrong = w]
    BY <1>2, <1>13, <2>3 DEF DlTypes, PastTyped
  <2>5. /\ past' \in PastRecords /\ past'.what = past.what /\ past'.left = past.left
        /\ past'.streak = 0 /\ past'.wrong = w
    BY <2>4 DEF PastRecords
  <2> QED
    BY <1>1, <1>2, <1>9, <1>10, <1>13, <2>1, <2>2, <2>3, <2>5 DEF DlTypes, PastTyped
<1> QED
  BY <1>12, <1>13

\* A command that is over, the failed one and the killed one.
LEMMA EndedOutline ==
  ASSUME DownloadsConstants, DlTypes, NEW p \in Procs, dl' = [dl EXCEPT ![p] = D!Idle]
  PROVE  DlTyped' /\ OthersAlike(p) /\ dl'[p] = D!Idle /\ StepsFit'
<1>1. DlTyped' /\ OthersAlike(p) /\ dl'[p] = D!Idle
  BY IdleTyped, RecordReplaced, ItselfAlike DEF DlTypes, DlTyped
<1>2. StepsFit'
  BY <1>1, IdleTyped, StepsFitKept DEF DlTypes
<1> QED
  BY <1>1, <1>2

LEMMA CoreFailsOutline ==
  ASSUME DownloadsConstants, DlTypes, NEW p \in Procs, D!CoreFails(p)
  PROVE  /\ DlTypes' /\ OthersAlike(p) /\ dl'[p] = D!Idle /\ file' = file
         /\ dl[p].pc = "failed" /\ dl[p].op = "core" /\ SamePast
         /\ past'.streak = IF dl[p].alone THEN past.streak + 1 ELSE 0
<1>1. /\ dl' = [dl EXCEPT ![p] = D!Idle] /\ file' = file /\ latest' = latest
      /\ dl[p].pc = "failed" /\ dl[p].op = "core"
      /\ past' = [past EXCEPT !.streak = IF dl[p].alone THEN @ + 1 ELSE 0]
  BY DEF D!CoreFails
<1>2. PICK n : n = IF dl[p].alone THEN past.streak + 1 ELSE 0
  OBVIOUS
<1>3. past \in PastRecords /\ past' = [past EXCEPT !.streak = n]
  BY <1>1, <1>2 DEF DlTypes, PastTyped
<1>4. n \in Nat
  BY <1>2, <1>3 DEF PastRecords
<1>5. past' \in PastRecords /\ SamePast /\ past'.streak = n
  BY <1>3, <1>4 DEF PastRecords, SamePast
<1>6. DlTyped' /\ OthersAlike(p) /\ dl'[p] = D!Idle /\ StepsFit'
  BY <1>1, EndedOutline
<1> QED
  BY <1>1, <1>2, <1>5, <1>6 DEF DlTypes, FilesTyped, PastTyped, LatestTyped

LEMMA KillOutline ==
  ASSUME DownloadsConstants, DlTypes, NEW p \in Procs, D!Kill(p)
  PROVE  /\ DlTypes' /\ OthersAlike(p) /\ dl'[p] = D!Idle
         /\ file'["part"] = file["part"]
         /\ past'.what = past.what /\ past'.wrong = past.wrong /\ past'.streak = 0
         /\ past'.left = (past.left \/ D!Decoded(file["part"]) # {})
<1>1. /\ dl' = [dl EXCEPT ![p] = D!Idle] /\ file' = [file EXCEPT ![p] = D!Absent]
      /\ latest' = latest
      /\ past' = [past EXCEPT !.faults = @ + 1, !.streak = 0,
                              !.left = @ \/ D!Decoded(file["part"]) # {}]
  BY DEF D!Kill
<1>2. PICK l \in BOOLEAN : l = (past.left \/ D!Decoded(file["part"]) # {})
  OBVIOUS
<1>3. past \in PastRecords /\ past' = [past EXCEPT !.faults = @ + 1, !.streak = 0, !.left = l]
  BY <1>1, <1>2 DEF DlTypes, PastTyped
<1>4. past.faults + 1 \in Nat
  BY <1>3 DEF PastRecords
<1>5. /\ past' \in PastRecords /\ past'.what = past.what /\ past'.wrong = past.wrong
      /\ past'.streak = 0 /\ past'.left = l
  BY <1>3, <1>4 DEF PastRecords
<1>6. DlTyped' /\ OthersAlike(p) /\ dl'[p] = D!Idle /\ StepsFit'
  BY <1>1, EndedOutline
<1>7. FilesTyped' /\ file'["part"] = file["part"]
  BY <1>1, AbsentTyped DEF DlTypes, FilesTyped, Places, DownloadsConstants
<1> QED
  BY <1>1, <1>2, <1>5, <1>6, <1>7 DEF DlTypes, PastTyped, LatestTyped

\* A command that begins is alone if no other runs, and takes that from those that do.
LEMMA CoreCommandOutline ==
  ASSUME DownloadsConstants, DlTypes, NEW p \in Procs, D!CoreCommand(p)
  PROVE  /\ DlTypes' /\ file' = file /\ SamePast /\ past'.streak = past.streak
         /\ past.what = "core" /\ dl[p].op = "none"
         /\ dl'[p].pc = "ask" /\ dl'[p].op = "core" /\ dl'[p].body = <<>>
         /\ dl'[p].alone <=> \A q \in Procs \ {p} : dl[q].op # "core"
         /\ \A q \in Procs \ {p} :
              /\ dl'[q].pc = dl[q].pc /\ dl'[q].op = dl[q].op
              /\ dl'[q].alone <=> dl[q].alone /\ dl[q].op # "core"
<1> DEFINE others == {q \in Procs \ {p} : D!Running(q) /\ dl[q].op = "core"}
<1>1. /\ file' = file /\ latest' = latest /\ ~D!Running(p) /\ past.what = "core"
      /\ past' = [past EXCEPT !.commands = @ + 1]
  BY DEF D!CoreCommand
<1>2. PICK v \in {1, 2} :
        LET me == [D!Idle EXCEPT !.pc = "ask", !.op = "core", !.version = v,
                                 !.alone = (others = {})]
        IN  dl' = [q \in Procs |-> IF q = p THEN me
                                   ELSE [dl[q] EXCEPT !.alone = @ /\ q \notin others]]
  BY DEF D!CoreCommand, D!Releases
<1>3. PICK b \in BOOLEAN : b = (others = {})
  OBVIOUS
<1>4. PICK me : me = [D!Idle EXCEPT !.pc = "ask", !.op = "core", !.version = v, !.alone = b]
  OBVIOUS
<1>5. dl' = [q \in Procs |-> IF q = p THEN me
                             ELSE [dl[q] EXCEPT !.alone = @ /\ q \notin others]]
  BY <1>2, <1>3, <1>4
<1>6. /\ me \in Downloaders /\ me.pc = "ask" /\ me.op = "core" /\ me.body = <<>>
      /\ me.alone = b
  BY <1>4, IdleTyped DEF Downloaders, Stages
<1>7. \A q \in Procs : q \in others <=> q # p /\ dl[q].op = "core"
  BY DEF D!Running, DlTypes, StepsFit
<1>8. ASSUME NEW q \in Procs \ {p}
      PROVE  /\ dl'[q] \in Downloaders
             /\ dl'[q].pc = dl[q].pc /\ dl'[q].op = dl[q].op
             /\ dl'[q].alone <=> dl[q].alone /\ dl[q].op # "core"
  <2>1. dl[q] \in Downloaders
    BY DEF DlTypes, DlTyped
  <2>2. PICK c \in BOOLEAN : c = (dl[q].alone /\ q \notin others)
    OBVIOUS
  <2>3. dl'[q] = [dl[q] EXCEPT !.alone = c]
    BY <1>5, <2>2
  <2>4. dl'[q] \in Downloaders /\ dl'[q].pc = dl[q].pc /\ dl'[q].op = dl[q].op /\ dl'[q].alone = c
    BY <2>1, <2>3 DEF Downloaders
  <2>5. c <=> dl[q].alone /\ dl[q].op # "core"
    BY <1>7, <2>2
  <2> QED
    BY <2>4, <2>5
<1>9. dl'[p] = me
  BY <1>5
<1>10. DlTyped'
  BY <1>5, <1>6, <1>8, <1>9 DEF DlTyped
<1>11. me.alone <=> \A q \in Procs \ {p} : dl[q].op # "core"
  BY <1>3, <1>6, <1>7
<1>12. PastTyped' /\ SamePast /\ past'.streak = past.streak
  <2>1. past \in PastRecords
    BY DEF DlTypes, PastTyped
  <2>2. past.commands + 1 \in Nat
    BY <2>1 DEF PastRecords
  <2> QED
    BY <1>1, <2>1, <2>2 DEF PastTyped, PastRecords, SamePast
<1>13. StepsFit'
  BY <1>6, <1>8, <1>9 DEF DlTypes, StepsFit
<1>14. dl[p].op = "none"
  BY <1>1 DEF D!Running, DlTypes, StepsFit
<1> QED
  BY <1>1, <1>6, <1>8, <1>9, <1>10, <1>11, <1>12, <1>13, <1>14
     DEF DlTypes, FilesTyped, LatestTyped

-----------------------------------------------------------------------------
(* The geo databases.                                                      *)

LEMMA GeoCommandOutline ==
  ASSUME DownloadsConstants, DlTypes, NEW p \in Procs, D!GeoCommand(p)
  PROVE  /\ DlTypes' /\ OthersAlike(p) /\ dl'[p].op = "geo" /\ past.what = "geo"
         /\ SamePast /\ past'.streak = past.streak
<1>1. /\ dl' = [dl EXCEPT ![p] = [D!Idle EXCEPT !.pc = "ask", !.op = "geo"]]
      /\ file' = file /\ latest' \in [D!Mirrors -> D!Releases] /\ past.what = "geo"
      /\ past' = [past EXCEPT !.commands = @ + 1]
  BY DEF D!GeoCommand
<1>2. PICK r : r = [D!Idle EXCEPT !.pc = "ask", !.op = "geo"]
  OBVIOUS
<1>3. r \in Downloaders /\ r.pc = "ask" /\ r.op = "geo"
  BY <1>2, IdleTyped DEF Downloaders, Stages
<1>4. DlTyped' /\ OthersAlike(p) /\ dl'[p] = r
  BY <1>1, <1>2, <1>3, RecordReplaced, ItselfAlike DEF DlTypes, DlTyped
<1>5. StepsFit'
  BY <1>3, <1>4, StepsFitKept DEF DlTypes
<1>6. PastTyped' /\ SamePast /\ past'.streak = past.streak
  <2>1. past \in PastRecords
    BY DEF DlTypes, PastTyped
  <2>2. past.commands + 1 \in Nat
    BY <2>1 DEF PastRecords
  <2> QED
    BY <1>1, <2>1, <2>2 DEF PastTyped, PastRecords, SamePast
<1> QED
  BY <1>1, <1>3, <1>4, <1>5, <1>6
     DEF DlTypes, FilesTyped, LatestTyped, D!Mirrors, D!Releases

LEMMA GeoNextOutline ==
  ASSUME DownloadsConstants, DlTypes, NEW p \in Procs, dl[p].op = "geo",
         NEW staged \in Seq(Nat), D!GeoNext(p, staged)
  PROVE  DlTyped' /\ FilesTyped' /\ StepsFit' /\ OthersAlike(p) /\ dl'[p].op = "geo"
<1>1. PICK l, s : /\ l = (IF dl[p].staged = <<>> THEN "ask" ELSE "validate")
                  /\ s = Append(dl[p].staged, staged)
  OBVIOUS
<1>2. PICK r : r = [dl[p] EXCEPT !.pc = l, !.staged = s, !.url = 1, !.try = 1, !.open = FALSE]
  OBVIOUS
<1>3. dl[p] \in Downloaders
  BY DEF DlTypes, DlTyped
<1>4. s \in Seq(Seq(Nat))
  <2>1. dl[p].staged \in Seq(Seq(Nat))
    BY <1>3 DEF Downloaders
  <2> QED
    BY <1>1, <2>1
<1>5. 1 \in 1..Urls /\ 1 \in 1..Tries
  BY DEF DownloadsConstants
<1>6. r \in Downloaders /\ r.op = "geo" /\ r.pc = l
  BY <1>1, <1>2, <1>3, <1>4, <1>5 DEF Downloaders, Stages
<1>7. dl' = [dl EXCEPT ![p] = r]
  <2>1. dl' = [dl EXCEPT ![p] = [dl[p] EXCEPT
                !.pc = IF dl[p].staged = <<>> THEN "ask" ELSE "validate",
                !.staged = Append(dl[p].staged, staged),
                !.url = 1, !.try = 1, !.open = FALSE]]
    BY DEF D!GeoNext
  <2> QED
    BY <1>1, <1>2, <2>1
<1>8. DlTyped' /\ OthersAlike(p) /\ dl'[p] = r
  BY <1>6, <1>7, RecordReplaced, ItselfAlike DEF DlTypes, DlTyped
<1>9. StepsFit'
  BY <1>1, <1>6, <1>8, StepsFitKept DEF DlTypes
<1>10. FilesTyped'
  BY AbsentTyped DEF D!GeoNext, DlTypes, FilesTyped
<1> QED
  BY <1>6, <1>8, <1>9, <1>10

GeoStep(p) == D!GeoSaved(p) \/ D!GeoFailed(p) \/ D!GeoInstall(p)

LEMMA GeoStepOutline ==
  ASSUME DownloadsConstants, DlTypes, NEW p \in Procs, GeoStep(p)
  PROVE  /\ DlTypes' /\ OthersAlike(p) /\ dl[p].op = "geo" /\ dl'[p].op # "core"
         /\ past' = past
<1>1. past' = past /\ latest' = latest /\ dl[p].op = "geo"
  <2>1. CASE D!GeoSaved(p)
    BY <2>1 DEF D!GeoSaved
  <2>2. CASE D!GeoFailed(p)
    BY <2>2 DEF D!GeoFailed
  <2>3. CASE D!GeoInstall(p)
    BY <2>3 DEF D!GeoInstall, DlTypes, StepsFit
  <2> QED
    BY <2>1, <2>2, <2>3 DEF GeoStep
<1>2. PastTyped' /\ LatestTyped'
  BY <1>1 DEF DlTypes, PastTyped, LatestTyped
<1>3. CASE D!GeoSaved(p)
  <2>1. file[p] \in Seq(Nat)
    BY DEF DlTypes, FilesTyped, Places
  <2>2. D!GeoNext(p, file[p])
    BY <1>3 DEF D!GeoSaved
  <2>3. DlTyped' /\ FilesTyped' /\ StepsFit' /\ OthersAlike(p) /\ dl'[p].op = "geo"
    BY <1>1, <2>1, <2>2, GeoNextOutline
  <2> QED
    BY <1>1, <1>2, <2>3 DEF DlTypes
<1>4. CASE D!GeoFailed(p)
  <2>1. D!GeoNext(p, D!Absent)
    BY <1>4 DEF D!GeoFailed
  <2>2. DlTyped' /\ FilesTyped' /\ StepsFit' /\ OthersAlike(p) /\ dl'[p].op = "geo"
    BY <1>1, <2>1, AbsentTyped, GeoNextOutline
  <2> QED
    BY <1>1, <1>2, <2>2 DEF DlTypes
<1>5. CASE D!GeoInstall(p)
  <2>1. dl' = [dl EXCEPT ![p] = D!Idle] /\ file' = file
    BY <1>5 DEF D!GeoInstall
  <2>2. DlTyped' /\ OthersAlike(p) /\ dl'[p] = D!Idle /\ StepsFit'
    BY <2>1, EndedOutline
  <2>3. dl'[p].op # "core"
    BY <2>2, IdleTyped
  <2>4. FilesTyped'
    BY <2>1 DEF DlTypes, FilesTyped
  <2> QED
    BY <1>1, <1>2, <2>2, <2>3, <2>4 DEF DlTypes
<1> QED
  BY <1>3, <1>4, <1>5 DEF GeoStep

LEMMA RereleaseTypes ==
  ASSUME DlTypes, NEW u \in D!Mirrors, D!Rerelease(u)
  PROVE  DlTypes' /\ file' = file /\ dl' = dl /\ past' = past
<1>1. file' = file /\ dl' = dl /\ past' = past /\ latest' = [latest EXCEPT ![u] = 2]
  BY DEF D!Rerelease
<1> QED
  BY <1>1 DEF DlTypes, FilesTyped, DlTyped, PastTyped, LatestTyped, StepsFit
-----------------------------------------------------------------------------
(* The invariant.  A behaviour downloads geo databases or Cores.           *)

GeoSide ==
  past.what = "geo" =>
    past.streak = 0 /\ ~past.wrong /\ \A p \in Procs : dl[p].op # "core"

CoreSide == past.what = "core" => \A p \in Procs : dl[p].op # "geo"

Sole(p) == dl[p].op = "core" /\ dl[p].alone

OneAlone == \A p, q \in Procs : Sole(p) /\ dl[q].op = "core" => p = q

\* A whole release in the part file is on somebody's way, unless a kill left it.
Attended ==
  ~past.left /\ D!Decoded(file["part"]) # {} =>
    \E p \in Procs : dl[p].op = "core" /\ dl[p].pc # "failed"

\* What a command that was alone from its beginning has of a release is of its own.
OwnRelease ==
  ~past.left => \A p \in Procs : Sole(p) =>
    /\ D!Decoded(file["part"]) \subseteq {dl[p].version}
    /\ dl[p].pc = "install" => D!Decoded(dl[p].bytes) \subseteq {dl[p].version}
    /\ \A i \in 1..Len(dl[p].body) : dl[p].body[i] \in {dl[p].version, D!Page}

Cleared == \A p \in Procs : Sole(p) /\ dl[p].pc = "failed" => file["part"] = D!Absent

\* A command that found no part file, as long as servers answer it well.
OnCourse(p) ==
  \/ dl[p].pc = "ask" /\ file["part"] = D!Absent
  \/ dl[p].pc = "answer" /\ file["part"] = D!Absent /\ dl[p].offset = 0
  \/ /\ dl[p].pc = "body" /\ dl[p].open
     /\ Len(file["part"]) + Len(dl[p].body) = dl[p].version + 1
     /\ \A i \in 1..Len(file["part"]) : file["part"][i] = dl[p].version
     /\ \A i \in 1..Len(dl[p].body) : dl[p].body[i] = dl[p].version
  \/ dl[p].pc = "install" /\ D!Decoded(dl[p].bytes) # {}

Course ==
  past.streak # 0 =>
    /\ past.streak = 1
    /\ \A p \in Procs : Sole(p) => OnCourse(p)
    /\ (\A p \in Procs : dl[p].op # "core") => file["part"] = D!Absent

CoreInv ==
  past.what = "core" =>
    InstalledIsAsked /\ OneAlone /\ Attended /\ OwnRelease /\ Cleared /\ Course

DlInv == DlTypes /\ GeoSide /\ CoreSide /\ CoreInv

LEMMA DlInvPromises == DlInv => Heals /\ InstalledIsAsked
BY DEF DlInv, DlTypes, PastTyped, PastRecords, GeoSide, CoreInv, Course, Heals, InstalledIsAsked

LEMMA DlInitInv == ASSUME DownloadsConstants, D!Init PROVE DlInv
<1>1. DlTypes
  BY DlInitTypes
<1>2. file["part"] = D!Absent /\ D!Decoded(file["part"]) = {}
  BY NothingDecoded DEF D!Init
<1>3. \A p \in Procs : dl[p].op = "none"
  BY DEF D!Init, D!Idle
<1>4. past.streak = 0 /\ ~past.left /\ ~past.wrong
  BY DEF D!Init
<1>5. GeoSide /\ CoreSide
  BY <1>3, <1>4 DEF GeoSide, CoreSide
<1>6. OneAlone /\ Attended /\ OwnRelease /\ Cleared /\ Course /\ InstalledIsAsked
  BY <1>2, <1>3, <1>4
     DEF OneAlone, Attended, OwnRelease, Cleared, Course, Sole, InstalledIsAsked
<1> QED
  BY <1>1, <1>5, <1>6 DEF DlInv, CoreInv

-----------------------------------------------------------------------------
(* Steps of a download of the Core: what the sharing of the part file      *)
(* rests on.                                                               *)

KeptOwn == InstalledIsAsked /\ OneAlone /\ Attended /\ OwnRelease /\ Cleared

\* Everything a command does between its first question and the end of its body, but for
\* the chunks it writes.
Moves(p) ==
  /\ DlTypes' /\ OthersAlike(p) /\ SameCommand(dl'[p], dl[p]) /\ SamePast
  /\ dl[p].pc # "failed" /\ dl[p].op = "core"
  /\ file'["part"] \in {file["part"], <<>>, D!Absent}
  /\ dl'[p].pc = "failed" => file'["part"] = D!Absent
  /\ dl'[p].pc = "install" => dl'[p].bytes = file["part"]
  /\ \/ dl'[p].body = dl[p].body
     \/ \A i \in 1..Len(dl'[p].body) : dl'[p].body[i] \in {dl[p].version, D!Page}

LEMMA MovesOwned ==
  ASSUME DlTypes, KeptOwn, NEW p \in Procs, Moves(p)
  PROVE  KeptOwn'
<1>1. /\ \A q \in Procs \ {p} : Alike(dl'[q], dl[q])
      /\ dl'[p].op = "core" /\ dl[p].op = "core"
      /\ dl'[p].version = dl[p].version /\ dl'[p].alone = dl[p].alone
      /\ past'.left = past.left /\ past'.wrong = past.wrong
  BY DEF Moves, OthersAlike, SameCommand, SamePast
<1>2. \A q \in Procs : /\ dl'[q].op = dl[q].op /\ dl'[q].alone = dl[q].alone
                       /\ dl'[q].version = dl[q].version
  BY <1>1 DEF Alike
<1>3. InstalledIsAsked' /\ OneAlone'
  BY <1>1, <1>2 DEF KeptOwn, InstalledIsAsked, OneAlone, Sole
<1>4. D!Decoded(file'["part"]) \subseteq D!Decoded(file["part"])
  BY NothingDecoded DEF Moves
<1>5. dl'[p].pc = "failed" => D!Decoded(file'["part"]) = {}
  BY NothingDecoded DEF Moves
<1>6. Attended'
  <2>1. SUFFICES ASSUME ~past.left, D!Decoded(file'["part"]) # {}
                 PROVE  \E q \in Procs : dl'[q].op = "core" /\ dl'[q].pc # "failed"
    BY <1>1 DEF Attended
  <2> QED
    BY <1>1, <1>5, <2>1
<1>7. ASSUME NEW q \in Procs, Sole(q)' PROVE q = p /\ Sole(p)
  BY <1>1, <1>2, <1>7 DEF KeptOwn, OneAlone, Sole
<1>8. Cleared'
  BY <1>7 DEF Cleared, Moves
<1>9. OwnRelease'
  <2>1. SUFFICES ASSUME ~past.left, Sole(p)
                 PROVE  /\ D!Decoded(file'["part"]) \subseteq {dl[p].version}
                        /\ dl'[p].pc = "install" => D!Decoded(dl'[p].bytes) \subseteq {dl[p].version}
                        /\ \A i \in 1..Len(dl'[p].body) :
                             dl'[p].body[i] \in {dl[p].version, D!Page}
    BY <1>1, <1>7 DEF OwnRelease
  <2>2. /\ D!Decoded(file["part"]) \subseteq {dl[p].version}
        /\ \A i \in 1..Len(dl[p].body) : dl[p].body[i] \in {dl[p].version, D!Page}
    BY <2>1 DEF KeptOwn, OwnRelease
  <2>3. D!Decoded(file'["part"]) \subseteq {dl[p].version}
    BY <1>4, <2>2
  <2>4. dl'[p].pc = "install" => D!Decoded(dl'[p].bytes) \subseteq {dl[p].version}
    BY <2>2 DEF Moves
  <2>5. \A i \in 1..Len(dl'[p].body) : dl'[p].body[i] \in {dl[p].version, D!Page}
    BY <2>2 DEF Moves
  <2> QED
    BY <2>3, <2>4, <2>5
<1> QED
  BY <1>3, <1>6, <1>8, <1>9 DEF KeptOwn

LEMMA PartIsPlace ==
  ASSUME NEW p \in Procs, dl[p].op # "geo"
  PROVE  D!Place(p) = "part"
BY DEF D!Place

LEMMA AssetOfCore ==
  ASSUME DlTypes, NEW p \in Procs, dl[p].op # "geo"
  PROVE  /\ D!Asset(p) \in Seq(Nat) /\ Len(D!Asset(p)) = dl[p].version + 1
         /\ \A i \in 1..Len(D!Asset(p)) : D!Asset(p)[i] = dl[p].version
<1>1. dl[p].version \in {1, 2}
  BY DEF DlTypes, DlTyped, Downloaders
<1>2. D!Asset(p) = D!Whole(dl[p].version)
  BY AssetTyped
<1> QED
  BY <1>1, <1>2, WholeIs

LEMMA AskMoves ==
  ASSUME DlTypes, NEW p \in Procs, dl[p].op # "geo", D!Ask(p)
  PROVE  Moves(p)
<1>1. dl[p].pc = "ask"
  BY DEF D!Ask
<1>2. dl[p].op = "core"
  BY <1>1 DEF DlTypes, StepsFit, DlTyped, Downloaders
<1> QED
  BY <1>1, <1>2, AskOutline DEF Moves, SamePast

LEMMA AnswerMoves ==
  ASSUME DlTypes, NEW p \in Procs, dl[p].op # "geo", D!Answer(p)
  PROVE  Moves(p)
<1>1. dl[p].pc = "answer"
  BY DEF D!Answer
<1>2. dl[p].op = "core"
  BY <1>1 DEF DlTypes, StepsFit, DlTyped, Downloaders
<1>3. D!Place(p) = "part" /\ "part" \in DOMAIN file
  BY PartIsPlace DEF DlTypes, FilesTyped, Places
<1>4. PICK a : a = D!Asset(p)
  OBVIOUS
<1>5. /\ a \in Seq(Nat) /\ Len(a) = dl[p].version + 1
      /\ \A i \in 1..Len(a) : a[i] = dl[p].version
  BY <1>4, AssetOfCore
<1>6. dl[p].offset \in Nat
  BY DEF DlTypes, DlTyped, Downloaders
<1>7. ASSUME dl[p].offset \in 1..(Len(a) - 1)
      PROVE  \A i \in 1..Len(D!Rest(a, dl[p].offset)) :
               D!Rest(a, dl[p].offset)[i] = dl[p].version
  <2>1. PICK o \in Nat : o = dl[p].offset
    BY <1>6
  <2>2. PICK s : s = SubSeq(a, o + 1, Len(a))
    OBVIOUS
  <2>3. o \in 1..(Len(a) - 1) /\ Len(a) \in Nat
    BY <1>5, <1>7, <2>1
  <2>4. Len(s) = Len(a) - o /\ \A i \in 1..(Len(a) - o) : s[i] = a[o + i]
    <3>1. o + 1 \in Nat /\ o + 1 >= 1 /\ o + 1 <= Len(a) /\ Len(a) - (o + 1) + 1 = Len(a) - o
      BY <2>3
    <3>2. PICK m \in Nat : m = o + 1
      BY <3>1
    <3>3. s = SubSeq(a, m, Len(a)) /\ m >= 1 /\ m <= Len(a)
      BY <2>2, <3>1, <3>2
    <3>4. Len(s) = Len(a) - m + 1 /\ \A i \in 1..(Len(a) - m + 1) : s[i] = a[m + i - 1]
      BY <1>5, <2>3, <3>3
    <3>5. \A i \in 1..(Len(a) - o) : m + i - 1 = o + i
      BY <2>3, <3>2
    <3> QED
      BY <2>3, <3>1, <3>2, <3>4, <3>5
  <2>5. \A i \in 1..(Len(a) - o) : o + i \in 1..Len(a)
    BY <2>3
  <2> QED
    BY <1>5, <2>1, <2>2, <2>4, <2>5 DEF D!Rest
<1>8. \/ dl'[p].body = dl[p].body
      \/ \A i \in 1..Len(dl'[p].body) : dl'[p].body[i] \in {dl[p].version, D!Page}
  BY <1>4, <1>5, <1>7, AnswerOutline
<1>9. /\ DlTypes' /\ OthersAlike(p) /\ SameCommand(dl'[p], dl[p]) /\ past' = past
      /\ dl'[p].pc \in {"answer", "body"}
  BY AnswerOutline
<1>10. \E f \in {<<>>, file["part"], D!Absent} : file' = [file EXCEPT !["part"] = f]
  BY <1>3, AnswerOutline
<1>11. file'["part"] \in {file["part"], <<>>, D!Absent}
  BY <1>3, <1>10
<1> QED
  BY <1>1, <1>2, <1>8, <1>9, <1>11 DEF Moves, SamePast

LEMMA BadAnswerMoves ==
  ASSUME DownloadsConstants, DlTypes, NEW p \in Procs, dl[p].op # "geo", D!BadAnswer(p)
  PROVE  Moves(p) /\ past'.streak = 0
<1>1. dl[p].pc = "answer"
  BY DEF D!BadAnswer
<1>2. dl[p].op = "core"
  BY <1>1 DEF DlTypes, StepsFit, DlTyped, Downloaders
<1>3. D!Place(p) = "part" /\ "part" \in DOMAIN file
  BY PartIsPlace DEF DlTypes, FilesTyped, Places
<1>4. /\ D!Asset(p) \in Seq(Nat) /\ Len(D!Asset(p)) = dl[p].version + 1
      /\ \A i \in 1..Len(D!Asset(p)) : D!Asset(p)[i] = dl[p].version
  BY AssetOfCore
<1>5. dl[p].version \in {1, 2}
  BY DEF DlTypes, DlTyped, Downloaders
<1>6. ASSUME NEW s \in {<<>>, <<D!Page>>, SubSeq(D!Asset(p), 1, 1)}, NEW i \in 1..Len(s)
      PROVE  s[i] \in {dl[p].version, D!Page}
  <2>1. CASE s = <<>>
    BY <2>1, <1>6
  <2>2. CASE s = <<D!Page>>
    <3>1. Len(s) = 1 /\ s[1] = D!Page
      BY <2>2
    <3> QED
      BY <1>6, <3>1
  <2>3. CASE s = SubSeq(D!Asset(p), 1, 1)
    <3>0. dl[p].version + 1 >= 1 /\ dl[p].version + 1 \in Nat
      BY <1>5
    <3>1. 1 \in 1..Len(D!Asset(p))
      BY <1>4, <3>0
    <3>2. Len(s) = 1 /\ s[1] = D!Asset(p)[1]
      BY <1>4, <2>3, <3>1
    <3> QED
      BY <1>4, <1>6, <3>1, <3>2
  <2> QED
    BY <1>6, <2>1, <2>2, <2>3
<1>7. /\ DlTypes' /\ OthersAlike(p) /\ SameCommand(dl'[p], dl[p])
      /\ SamePast /\ past'.streak = 0
      /\ dl'[p].body \in {<<>>, <<D!Page>>, SubSeq(D!Asset(p), 1, 1)}
      /\ dl'[p].pc \in {"ask", "failed", "body"}
      /\ dl'[p].pc = "failed" => file' = [file EXCEPT !["part"] = D!Absent]
  BY <1>3, BadAnswerOutline
<1>8. file' = file \/ \E f \in {<<>>, file["part"], D!Absent} : file' = [file EXCEPT !["part"] = f]
  BY <1>3, BadAnswerOutline
<1>9. file'["part"] \in {file["part"], <<>>, D!Absent}
  BY <1>3, <1>8
<1>10. dl'[p].pc = "failed" => file'["part"] = D!Absent
  BY <1>3, <1>7
<1>11. \A i \in 1..Len(dl'[p].body) : dl'[p].body[i] \in {dl[p].version, D!Page}
  BY <1>6, <1>7
<1> QED
  BY <1>1, <1>2, <1>7, <1>9, <1>10, <1>11 DEF Moves

LEMMA BreakMoves ==
  ASSUME DownloadsConstants, DlTypes, NEW p \in Procs, dl[p].op # "geo", D!Break(p)
  PROVE  Moves(p) /\ past'.streak = 0
<1>1. dl[p].pc = "body"
  BY DEF D!Break
<1>2. dl[p].op = "core"
  BY <1>1 DEF DlTypes, StepsFit, DlTyped, Downloaders
<1>3. D!Place(p) = "part" /\ "part" \in DOMAIN file
  BY PartIsPlace DEF DlTypes, FilesTyped, Places
<1>4. /\ DlTypes' /\ OthersAlike(p) /\ SameCommand(dl'[p], dl[p])
      /\ SamePast /\ past'.streak = 0
      /\ dl'[p].pc \in {"ask", "failed"} /\ dl'[p].body = <<>>
      /\ file' = file \/ file' = [file EXCEPT !["part"] = D!Absent]
      /\ dl'[p].pc = "failed" => file' = [file EXCEPT !["part"] = D!Absent]
  BY <1>3, BreakOutline
<1>5. /\ file'["part"] \in {file["part"], <<>>, D!Absent}
      /\ dl'[p].pc = "failed" => file'["part"] = D!Absent
  BY <1>3, <1>4
<1> QED
  BY <1>1, <1>2, <1>4, <1>5 DEF Moves

LEMMA ReadBackMoves ==
  ASSUME DownloadsConstants, DlTypes, NEW p \in Procs, D!ReadBack(p)
  PROVE  Moves(p)
<1>1. dl[p].pc = "body" /\ dl[p].op = "core"
  BY DEF D!ReadBack
<1>3. D!Place(p) = "part" /\ "part" \in DOMAIN file
  BY <1>1, PartIsPlace DEF DlTypes, FilesTyped, Places
<1>4. /\ DlTypes' /\ OthersAlike(p) /\ SameCommand(dl'[p], dl[p]) /\ past' = past
      /\ dl[p].body = <<>> /\ dl'[p].body = <<>>
      /\ dl'[p].pc \in {"ask", "failed", "install"}
      /\ file' = file \/ file' = [file EXCEPT !["part"] = D!Absent]
      /\ dl'[p].pc = "failed" => file' = [file EXCEPT !["part"] = D!Absent]
      /\ dl'[p].pc = "install" => dl'[p].bytes = file["part"]
  BY <1>3, ReadBackOutline
<1>5. /\ file'["part"] \in {file["part"], <<>>, D!Absent}
      /\ dl'[p].pc = "failed" => file'["part"] = D!Absent
  BY <1>3, <1>4
<1> QED
  BY <1>1, <1>4, <1>5 DEF Moves, SamePast
\* A command that is alone and one that takes a step are the same, before and after.
LEMMA OnlyItself ==
  ASSUME OneAlone, NEW p \in Procs, dl[p].op = "core", OthersAlike(p), NEW q \in Procs, Sole(q)'
  PROVE  q = p
BY DEF OneAlone, Sole, OthersAlike, Alike

LEMMA ChunkOwned ==
  ASSUME DlTypes, KeptOwn, NEW p \in Procs, dl[p].op # "geo", D!Chunk(p)
  PROVE  KeptOwn'
<1>1. /\ OthersAlike(p) /\ SameCommand(dl'[p], dl[p]) /\ past' = past
      /\ dl[p].pc = "body" /\ dl'[p].pc = "body" /\ dl[p].body # <<>>
      /\ dl'[p].body = Tail(dl[p].body)
      /\ file' = IF dl[p].open
                 THEN [file EXCEPT ![D!Place(p)] = Append(@, Head(dl[p].body))]
                 ELSE file
  BY ChunkOutline
<1>2. dl[p].op = "core" /\ dl'[p].op = "core"
  BY <1>1 DEF DlTypes, StepsFit, DlTyped, Downloaders, SameCommand
<1>3. \A q \in Procs : Sole(q)' => q = p /\ Sole(p)
  BY <1>1, <1>2, OnlyItself DEF KeptOwn, Sole, SameCommand
<1>4. InstalledIsAsked'
  BY <1>1 DEF KeptOwn, InstalledIsAsked
<1>5. OneAlone'
  BY <1>1, <1>3 DEF KeptOwn, OneAlone, Sole, OthersAlike, Alike
<1>6. Attended' /\ Cleared'
  BY <1>1, <1>2, <1>3 DEF Attended, Cleared
<1>7. OwnRelease'
  <2>1. SUFFICES ASSUME ~past.left, Sole(p)
                 PROVE  /\ D!Decoded(file'["part"]) \subseteq {dl[p].version}
                        /\ \A i \in 1..Len(dl'[p].body) :
                             dl'[p].body[i] \in {dl[p].version, D!Page}
    BY <1>1, <1>3 DEF OwnRelease, SameCommand
  <2>2. /\ D!Decoded(file["part"]) \subseteq {dl[p].version}
        /\ \A i \in 1..Len(dl[p].body) : dl[p].body[i] \in {dl[p].version, D!Page}
    BY <2>1 DEF KeptOwn, OwnRelease
  <2>3. dl[p].body \in Seq(Nat) /\ file["part"] \in Seq(Nat) /\ dl[p].version \in {1, 2}
    BY DEF DlTypes, DlTyped, Downloaders, FilesTyped, Places
  <2>4. PICK b : b = dl[p].body
    OBVIOUS
  <2>5. /\ b \in Seq(Nat) /\ b # <<>> /\ Head(b) = b[1] /\ 1 \in 1..Len(b)
        /\ Len(Tail(b)) = Len(b) - 1 /\ \A i \in 1..Len(b) - 1 : Tail(b)[i] = b[i + 1]
    BY <1>1, <2>3, <2>4
  <2>6. Head(b) \in {dl[p].version, D!Page} /\ Head(b) \in Nat
    BY <2>2, <2>4, <2>5
  <2>7. \A i \in 1..Len(Tail(b)) : Tail(b)[i] \in {dl[p].version, D!Page}
    <3>1. Len(b) \in Nat
      BY <2>5
    <3>2. \A i \in 1..Len(b) - 1 : i + 1 \in 1..Len(b)
      BY <3>1
    <3> QED
      BY <2>2, <2>4, <2>5, <3>2
  <2>8. D!Decoded(Append(file["part"], Head(b))) \subseteq {dl[p].version}
    <3>1. \A r \in D!Decoded(Append(file["part"], Head(b))) :
            r \in D!Decoded(file["part"]) \/ Head(b) = r
      BY <2>3, <2>6, DecodedAppend
    <3>2. \A r \in D!Decoded(Append(file["part"], Head(b))) : r # D!Page
      BY DEF D!Decoded, D!Releases, D!Page
    <3> QED
      BY <2>2, <2>6, <3>1, <3>2
  <2>9. D!Place(p) = "part" /\ "part" \in DOMAIN file
    BY <1>2, PartIsPlace DEF DlTypes, FilesTyped, Places
  <2>10. file'["part"] \in {file["part"], Append(file["part"], Head(b))}
    BY <1>1, <2>4, <2>9
  <2> QED
    BY <1>1, <2>2, <2>4, <2>7, <2>8, <2>10
<1> QED
  BY <1>4, <1>5, <1>6, <1>7 DEF KeptOwn

LEMMA InstallOwned ==
  ASSUME DownloadsConstants, DlTypes, KeptOwn, NEW p \in Procs, D!Install(p)
  PROVE  KeptOwn'
<1> DEFINE got == D!Decoded(dl[p].bytes)
<1>1. /\ OthersAlike(p) /\ dl[p].pc = "install" /\ past'.left = past.left
      /\ file' = [file EXCEPT !["part"] = D!Absent]
      /\ \/ dl'[p].pc = "failed" /\ SameCommand(dl'[p], dl[p]) /\ past' = past
         \/ /\ got # {} /\ dl'[p] = D!Idle
            /\ past'.wrong = (past.wrong \/ (dl[p].alone /\ dl[p].version \notin got))
  BY InstallOutline
<1>2. dl[p].op = "core"
  BY <1>1 DEF DlTypes, StepsFit
<1>3. file'["part"] = D!Absent /\ D!Decoded(file'["part"]) = {}
  BY <1>1, NothingDecoded DEF DlTypes, FilesTyped, Places
<1>4. D!Idle.op = "none"
  BY DEF D!Idle
<1>5. \A q \in Procs : Sole(q)' => q = p /\ Sole(p) /\ dl'[p].pc = "failed"
  BY <1>1, <1>2, <1>4, OnlyItself DEF KeptOwn, Sole, SameCommand
<1>6. \A q \in Procs : dl'[q].op = "core" => dl[q].op = "core"
  BY <1>1, <1>4 DEF OthersAlike, Alike, SameCommand
<1>7. OneAlone'
  BY <1>5, <1>6 DEF KeptOwn, OneAlone, Sole
<1>8. Attended' /\ Cleared'
  BY <1>3 DEF Attended, Cleared
<1>9. InstalledIsAsked'
  <2>1. CASE past' = past
    BY <2>1 DEF KeptOwn, InstalledIsAsked
  <2>2. CASE /\ got # {}
             /\ past'.wrong = (past.wrong \/ (dl[p].alone /\ dl[p].version \notin got))
    <3>1. SUFFICES ASSUME ~past.left, dl[p].alone
                   PROVE  dl[p].version \in got
      BY <1>1, <2>2 DEF KeptOwn, InstalledIsAsked
    <3>2. got \subseteq {dl[p].version}
      BY <1>1, <1>2, <3>1 DEF KeptOwn, OwnRelease, Sole
    <3> QED
      BY <2>2, <3>2
  <2> QED
    BY <1>1, <2>1, <2>2
<1>10. OwnRelease'
  <2>1. SUFFICES ASSUME ~past.left, Sole(p), dl'[p].pc = "failed"
                 PROVE  \A i \in 1..Len(dl'[p].body) :
                          dl'[p].body[i] \in {dl'[p].version, D!Page}
    BY <1>1, <1>3, <1>5 DEF OwnRelease
  <2>2. /\ \A i \in 1..Len(dl[p].body) : dl[p].body[i] \in {dl[p].version, D!Page}
    BY <2>1 DEF KeptOwn, OwnRelease
  <2>3. dl'[p].body = dl[p].body /\ dl'[p].version = dl[p].version
    <3>1. D!Idle.pc # "failed"
      BY DEF D!Idle
    <3> QED
      BY <2>1, <3>1, InstallOutline DEF SameCommand
  <2> QED
    BY <2>2, <2>3
<1> QED
  BY <1>7, <1>8, <1>9, <1>10 DEF KeptOwn

LEMMA CoreFailsOwned ==
  ASSUME DownloadsConstants, DlTypes, KeptOwn, NEW p \in Procs, D!CoreFails(p)
  PROVE  KeptOwn'
<1>1. /\ OthersAlike(p) /\ dl'[p] = D!Idle /\ file' = file
      /\ dl[p].pc = "failed" /\ dl[p].op = "core" /\ SamePast
  BY CoreFailsOutline
<1>2. D!Idle.op = "none"
  BY DEF D!Idle
<1>3. \A q \in Procs : ~Sole(q)'
  BY <1>1, <1>2, OnlyItself DEF KeptOwn, Sole
<1>4. Attended'
  BY <1>1 DEF KeptOwn, Attended, SamePast, OthersAlike, Alike
<1> QED
  BY <1>1, <1>3, <1>4
     DEF KeptOwn, InstalledIsAsked, OneAlone, OwnRelease, Cleared, SamePast

LEMMA KillOwned ==
  ASSUME DownloadsConstants, DlTypes, KeptOwn, NEW p \in Procs, dl[p].op = "core", D!Kill(p)
  PROVE  KeptOwn'
<1>1. /\ OthersAlike(p) /\ dl'[p] = D!Idle /\ file'["part"] = file["part"]
      /\ past'.wrong = past.wrong
      /\ past'.left = (past.left \/ D!Decoded(file["part"]) # {})
  BY KillOutline
<1>2. D!Idle.op = "none"
  BY DEF D!Idle
<1>3. \A q \in Procs : ~Sole(q)'
  BY <1>1, <1>2, OnlyItself DEF KeptOwn, Sole
<1>4. Attended' /\ InstalledIsAsked'
  BY <1>1 DEF KeptOwn, Attended, InstalledIsAsked
<1> QED
  BY <1>3, <1>4 DEF KeptOwn, OneAlone, OwnRelease, Cleared

LEMMA CoreCommandOwned ==
  ASSUME DownloadsConstants, DlTypes, KeptOwn, NEW p \in Procs, D!CoreCommand(p)
  PROVE  KeptOwn'
<1>1. /\ file' = file /\ SamePast /\ dl[p].op = "none"
      /\ dl'[p].pc = "ask" /\ dl'[p].op = "core" /\ dl'[p].body = <<>>
      /\ dl'[p].alone <=> \A q \in Procs \ {p} : dl[q].op # "core"
      /\ \A q \in Procs \ {p} :
           /\ dl'[q].pc = dl[q].pc /\ dl'[q].op = dl[q].op
           /\ dl'[q].alone <=> dl[q].alone /\ dl[q].op # "core"
  BY CoreCommandOutline
<1>2. \A q \in Procs : Sole(q)' => q = p /\ \A o \in Procs : dl[o].op # "core"
  BY <1>1 DEF Sole
<1>3. InstalledIsAsked' /\ OneAlone' /\ Attended' /\ Cleared'
  BY <1>1, <1>2
     DEF KeptOwn, InstalledIsAsked, OneAlone, Sole, Attended, Cleared, SamePast
<1>4. ASSUME ~past.left, Sole(p)' PROVE D!Decoded(file["part"]) = {}
  BY <1>2, <1>4 DEF KeptOwn, Attended
<1>5. OwnRelease'
  BY <1>1, <1>2, <1>4 DEF OwnRelease, SamePast
<1> QED
  BY <1>3, <1>5 DEF KeptOwn

-----------------------------------------------------------------------------
(* The same steps and the failures in a row.                               *)

\* While one has failed and a command is under way, either it is alone and on course, or
\* nobody is alone.
LEMMA CourseKept ==
  ASSUME KeptOwn, Course, NEW p \in Procs, dl[p].op = "core", OthersAlike(p),
         dl'[p].op = "core", dl'[p].alone = dl[p].alone, past' = past,
         Sole(p) /\ past.streak # 0 => OnCourse(p)'
  PROVE  Course'
<1>1. \A q \in Procs : Sole(q)' => q = p /\ Sole(p)
  BY OnlyItself DEF KeptOwn, Sole
<1> QED
  BY <1>1 DEF Course

LEMMA StreakOver == ASSUME past'.streak = 0 PROVE Course'
BY DEF Course

LEMMA AskCourse ==
  ASSUME DlTypes, KeptOwn, Course, NEW p \in Procs, dl[p].op = "core", D!Ask(p)
  PROVE  Course'
<1>1. /\ OthersAlike(p) /\ SameCommand(dl'[p], dl[p]) /\ dl'[p].pc = "answer"
      /\ dl'[p].offset = D!Size(file["part"]) /\ file' = file /\ past' = past
  BY AskOutline, PartIsPlace
<1>2. dl[p].pc = "ask"
  BY DEF D!Ask
<1>3. ASSUME Sole(p), past.streak # 0 PROVE OnCourse(p)'
  <2>1. file["part"] = D!Absent
    BY <1>2, <1>3 DEF Course, OnCourse
  <2>2. D!Size(file["part"]) = 0
    BY <2>1 DEF D!Size
  <2> QED
    BY <1>1, <2>1, <2>2 DEF OnCourse
<1> QED
  BY <1>1, <1>3, CourseKept DEF SameCommand

LEMMA AnswerCourse ==
  ASSUME DlTypes, KeptOwn, Course, NEW p \in Procs, dl[p].op = "core", D!Answer(p)
  PROVE  Course'
<1>1. dl[p].pc = "answer" /\ OthersAlike(p) /\ SameCommand(dl'[p], dl[p]) /\ past' = past
  BY AnswerOutline DEF D!Answer
<1>2. ASSUME Sole(p), past.streak # 0 PROVE OnCourse(p)'
  <2>1. file["part"] = D!Absent /\ dl[p].offset = 0
    BY <1>1, <1>2 DEF Course, OnCourse
  <2>2. ~(dl[p].offset > 0) /\ dl[p].offset \notin 1..(Len(D!Asset(p)) - 1)
    BY <2>1
  <2>3. D!Place(p) = "part" /\ "part" \in DOMAIN file
    BY PartIsPlace DEF DlTypes, FilesTyped, Places
  <2>4. /\ dl'[p].pc = "body" /\ dl'[p].open /\ dl'[p].body = D!Asset(p)
        /\ \E f \in {<<>>, D!Absent} :
             f # D!Absent /\ file' = [file EXCEPT !["part"] = f]
    BY <2>1, <2>2, <2>3, AnswerOutline
  <2>5. file'["part"] = <<>>
    BY <2>3, <2>4
  <2>6. /\ Len(dl'[p].body) = dl[p].version + 1
        /\ \A i \in 1..Len(dl'[p].body) : dl'[p].body[i] = dl[p].version
    <3>1. PICK a : a = D!Asset(p)
      OBVIOUS
    <3>2. Len(a) = dl[p].version + 1 /\ \A i \in 1..Len(a) : a[i] = dl[p].version
      BY <3>1, AssetOfCore
    <3>3. dl'[p].body = a
      BY <2>4, <3>1
    <3> QED
      BY <3>2, <3>3
  <2>7. dl'[p].version = dl[p].version /\ dl[p].version + 1 \in Nat
    BY <1>1, VersionTyped DEF SameCommand
  <2>8. /\ Len(file'["part"]) + Len(dl'[p].body) = dl'[p].version + 1
        /\ \A i \in 1..Len(file'["part"]) : file'["part"][i] = dl'[p].version
    BY <2>5, <2>6, <2>7
  <2> QED
    BY <2>4, <2>6, <2>7, <2>8 DEF OnCourse
<1> QED
  BY <1>1, <1>2, CourseKept DEF SameCommand

LEMMA ChunkCourse ==
  ASSUME DlTypes, KeptOwn, Course, NEW p \in Procs, dl[p].op = "core", D!Chunk(p)
  PROVE  Course'
<1>1. /\ OthersAlike(p) /\ SameCommand(dl'[p], dl[p]) /\ past' = past
      /\ dl[p].pc = "body" /\ dl'[p].pc = "body" /\ dl[p].body # <<>>
      /\ dl'[p].body = Tail(dl[p].body) /\ dl'[p].open = dl[p].open
      /\ file' = IF dl[p].open
                 THEN [file EXCEPT ![D!Place(p)] = Append(@, Head(dl[p].body))]
                 ELSE file
  BY ChunkOutline
<1>2. ASSUME Sole(p), past.streak # 0 PROVE OnCourse(p)'
  <2>1. PICK v, f, b : v = dl[p].version /\ f = file["part"] /\ b = dl[p].body
    OBVIOUS
  <2>2. /\ dl[p].open /\ Len(f) + Len(b) = v + 1
        /\ \A i \in 1..Len(f) : f[i] = v
        /\ \A i \in 1..Len(b) : b[i] = v
    <3>1. OnCourse(p)
      BY <1>2 DEF Course
    <3> QED
      BY <1>1, <2>1, <3>1 DEF OnCourse
  <2>3. f \in Seq(Nat) /\ b \in Seq(Nat) /\ v \in Nat
    <3>1. f \in Seq(Nat)
      BY <2>1 DEF DlTypes, FilesTyped, Places
    <3>2. b \in Seq(Nat)
      BY <2>1 DEF DlTypes, DlTyped, Downloaders
    <3> QED
      BY <2>1, <3>1, <3>2, VersionTyped
  <2>4. /\ Head(b) = b[1] /\ 1 \in 1..Len(b) /\ Head(b) \in Nat
        /\ Len(Tail(b)) = Len(b) - 1 /\ \A i \in 1..Len(b) - 1 : Tail(b)[i] = b[i + 1]
    BY <1>1, <2>1, <2>3
  <2>5. PICK g : g = Append(f, Head(b))
    OBVIOUS
  <2>6. Len(g) = Len(f) + 1 /\ g[Len(f) + 1] = Head(b) /\ \A i \in 1..Len(f) : g[i] = f[i]
    BY <2>3, <2>4, <2>5
  <2>7. D!Place(p) = "part" /\ "part" \in DOMAIN file
    BY PartIsPlace DEF DlTypes, FilesTyped, Places
  <2>8. file'["part"] = g
    BY <1>1, <2>1, <2>2, <2>5, <2>7
  <2>9. Len(f) \in Nat /\ Len(b) \in Nat
    BY <2>3
  <2>10. Len(g) + Len(Tail(b)) = v + 1
    <3>1. PICK n \in Nat, m \in Nat : n = Len(f) /\ m = Len(b)
      BY <2>9
    <3>2. n + m = v + 1 /\ Len(g) = n + 1 /\ Len(Tail(b)) = m - 1
      BY <2>2, <2>4, <2>6, <3>1
    <3>3. (n + 1) + (m - 1) = n + m
      OBVIOUS
    <3> QED
      BY <3>2, <3>3
  <2>11. \A i \in 1..Len(g) : g[i] = v
    <3>1. \A i \in 1..Len(f) + 1 : i \in 1..Len(f) \/ i = Len(f) + 1
      BY <2>9
    <3> QED
      BY <2>2, <2>4, <2>6, <3>1
  <2>12. \A i \in 1..Len(Tail(b)) : Tail(b)[i] = v
    <3>1. \A i \in 1..Len(b) - 1 : i + 1 \in 1..Len(b)
      BY <2>9
    <3> QED
      BY <2>2, <2>4, <3>1
  <2>13. dl'[p].version = v /\ dl'[p].body = Tail(b)
    BY <1>1, <2>1 DEF SameCommand
  <2> QED
    BY <1>1, <2>2, <2>8, <2>10, <2>11, <2>12, <2>13 DEF OnCourse
<1> QED
  BY <1>1, <1>2, CourseKept DEF SameCommand, Sole

LEMMA ReadBackCourse ==
  ASSUME DownloadsConstants, DlTypes, KeptOwn, Course, NEW p \in Procs, D!ReadBack(p)
  PROVE  Course'
<1>1. /\ OthersAlike(p) /\ SameCommand(dl'[p], dl[p]) /\ past' = past
      /\ dl[p].pc = "body" /\ dl[p].body = <<>> /\ dl[p].op = "core"
      /\ \/ file["part"] = D!Absent
         \/ dl'[p].pc = "install" /\ dl'[p].bytes = file["part"]
  BY ReadBackOutline DEF D!ReadBack
<1>2. ASSUME Sole(p), past.streak # 0 PROVE OnCourse(p)'
  <2>1. PICK v, f : v = dl[p].version /\ f = file["part"]
    OBVIOUS
  <2>2. /\ Len(f) + Len(dl[p].body) = v + 1
        /\ \A i \in 1..Len(f) : f[i] = v
    BY <1>1, <1>2, <2>1 DEF Course, OnCourse
  <2>3. f \in Seq(Nat) /\ v \in {1, 2}
    BY <2>1 DEF DlTypes, DlTyped, Downloaders, FilesTyped, Places
  <2>4. Len(f) = v + 1
    BY <1>1, <2>2, <2>3
  <2>5. f # D!Absent
    <3>1. v = 1 \/ v = 2
      BY <2>3
    <3>2. \A n \in {1, 2} : n + 1 # 1
      OBVIOUS
    <3> QED
      BY <2>3, <2>4, <3>2, AbsentTyped
  <2>6. v \in D!Decoded(f)
    <3>1. Len(f) >= v + 1 /\ \A i \in 1..v + 1 : f[i] = v
      BY <2>2, <2>3, <2>4
    <3> QED
      BY <2>3, <3>1, DecodedIs
  <2> QED
    BY <1>1, <2>1, <2>5, <2>6 DEF OnCourse
<1> QED
  BY <1>1, <1>2, CourseKept DEF SameCommand

LEMMA InstallCourse ==
  ASSUME DownloadsConstants, DlTypes, KeptOwn, Course, NEW p \in Procs, D!Install(p)
  PROVE  Course'
<1>1. /\ OthersAlike(p) /\ dl[p].pc = "install"
      /\ \/ /\ D!Decoded(dl[p].bytes) = {}
            /\ SameCommand(dl'[p], dl[p]) /\ past' = past
         \/ past'.streak = 0
  BY InstallOutline
<1>2. dl[p].op = "core"
  BY <1>1 DEF DlTypes, StepsFit
<1>3. CASE /\ D!Decoded(dl[p].bytes) = {}
           /\ SameCommand(dl'[p], dl[p]) /\ past' = past
  <2>1. ~(Sole(p) /\ past.streak # 0)
    BY <1>1, <1>3 DEF Course, OnCourse
  <2> QED
    BY <1>1, <1>2, <1>3, <2>1, CourseKept DEF SameCommand
<1> QED
  BY <1>1, <1>3, StreakOver

LEMMA CoreFailsCourse ==
  ASSUME DownloadsConstants, DlTypes, KeptOwn, Course, NEW p \in Procs, D!CoreFails(p)
  PROVE  Course'
<1>1. /\ OthersAlike(p) /\ dl'[p] = D!Idle /\ file' = file
      /\ dl[p].pc = "failed" /\ dl[p].op = "core"
      /\ past'.streak = IF dl[p].alone THEN past.streak + 1 ELSE 0
  BY CoreFailsOutline
<1>2. CASE ~dl[p].alone
  BY <1>1, <1>2, StreakOver
<1>3. CASE dl[p].alone
  <2>1. Sole(p) /\ ~OnCourse(p)
    BY <1>1, <1>3 DEF Sole, OnCourse
  <2>2. past'.streak = 1
    BY <1>1, <1>3, <2>1 DEF Course
  <2>3. file'["part"] = D!Absent
    BY <1>1, <2>1 DEF KeptOwn, Cleared
  <2>4. \A q \in Procs : ~Sole(q)'
    BY <1>1, OnlyItself DEF KeptOwn, Sole, D!Idle
  <2> QED
    BY <2>2, <2>3, <2>4 DEF Course
<1> QED
  BY <1>2, <1>3

LEMMA CoreCommandCourse ==
  ASSUME DownloadsConstants, DlTypes, KeptOwn, Course, NEW p \in Procs, D!CoreCommand(p)
  PROVE  Course'
<1>1. /\ file' = file /\ past'.streak = past.streak
      /\ dl'[p].pc = "ask" /\ dl'[p].op = "core" /\ dl[p].op = "none"
      /\ dl'[p].alone <=> \A q \in Procs \ {p} : dl[q].op # "core"
      /\ \A q \in Procs \ {p} :
           /\ dl'[q].op = dl[q].op
           /\ dl'[q].alone <=> dl[q].alone /\ dl[q].op # "core"
  BY CoreCommandOutline
<1>2. \A q \in Procs : Sole(q)' => q = p /\ \A o \in Procs : dl[o].op # "core"
  BY <1>1 DEF Sole
<1> QED
  BY <1>1, <1>2 DEF Course, OnCourse

-----------------------------------------------------------------------------
(* Every step.                                                             *)

LEMMA GeoBehaviour ==
  ASSUME DownloadsConstants, DlTypes, GeoSide, past.what = "geo", D!Next
  PROVE  DlTypes' /\ GeoSide' /\ past'.what = "geo"
<1>0. past.streak = 0 /\ ~past.wrong /\ \A p \in Procs : dl[p].op # "core"
  BY DEF GeoSide
<1>1. ASSUME NEW p \in Procs, D!GeoCommand(p)
      PROVE  DlTypes' /\ GeoSide' /\ past'.what = "geo"
  BY <1>0, <1>1, GeoCommandOutline DEF GeoSide, OthersAlike, Alike, SamePast
<1>2. ASSUME NEW p \in Procs, DlTypes', OthersAlike(p), SameCommand(dl'[p], dl[p]),
             SamePast, past'.streak = 0
      PROVE  GeoSide' /\ past'.what = "geo"
  BY <1>0, <1>2 DEF GeoSide, OthersAlike, Alike, SameCommand, SamePast
<1>3. ASSUME NEW p \in Procs, D!Step(p)
      PROVE  DlTypes' /\ GeoSide' /\ past'.what = "geo"
  <2>1. CASE D!Ask(p)
    BY <1>0, <1>2, <2>1, AskOutline DEF SamePast
  <2>2. CASE D!Answer(p)
    BY <1>0, <1>2, <2>2, AnswerOutline DEF SamePast
  <2>3. CASE D!BadAnswer(p)
    BY <1>2, <2>3, BadAnswerOutline
  <2>4. CASE D!Chunk(p)
    BY <1>0, <1>2, <2>4, ChunkOutline DEF SamePast
  <2>5. CASE D!Break(p)
    BY <1>2, <2>5, BreakOutline
  <2>6. CASE D!ReadBack(p)
    BY <1>0, <2>6 DEF D!ReadBack
  <2>7. CASE D!Install(p)
    BY <1>0, <2>7 DEF D!Install, DlTypes, StepsFit
  <2>8. CASE D!CoreFails(p)
    BY <1>0, <2>8 DEF D!CoreFails
  <2>9. CASE GeoStep(p)
    BY <1>0, <2>9, GeoStepOutline DEF GeoSide, OthersAlike, Alike
  <2> QED
    BY <1>3, <2>1, <2>2, <2>3, <2>4, <2>5, <2>6, <2>7, <2>8, <2>9 DEF D!Step, GeoStep
<1>4. ASSUME NEW p \in Procs, D!Kill(p)
      PROVE  DlTypes' /\ GeoSide' /\ past'.what = "geo"
  BY <1>0, <1>4, KillOutline, IdleTyped DEF GeoSide, OthersAlike, Alike
<1>5. ASSUME NEW u \in D!Mirrors, D!Rerelease(u)
      PROVE  DlTypes' /\ GeoSide' /\ past'.what = "geo"
  BY <1>0, <1>5, RereleaseTypes DEF GeoSide
<1>6. ASSUME NEW p \in Procs PROVE ~D!CoreCommand(p)
  BY DEF D!CoreCommand
<1> QED
  BY <1>1, <1>3, <1>4, <1>5, <1>6 DEF D!Next

LEMMA CoreBehaviour ==
  ASSUME DownloadsConstants, DlTypes, CoreSide, KeptOwn, Course, past.what = "core", D!Next
  PROVE  DlTypes' /\ CoreSide' /\ KeptOwn' /\ Course' /\ past'.what = "core"
<1>0. \A p \in Procs : dl[p].op # "geo"
  BY DEF CoreSide
<1>1. ASSUME NEW p \in Procs, D!CoreCommand(p)
      PROVE  DlTypes' /\ CoreSide' /\ KeptOwn' /\ Course' /\ past'.what = "core"
  <2>1. KeptOwn' /\ Course'
    BY <1>1, CoreCommandOwned, CoreCommandCourse
  <2> QED
    BY <1>0, <1>1, <2>1, CoreCommandOutline DEF CoreSide, SamePast
<1>2. ASSUME NEW p \in Procs, OthersAlike(p), SameCommand(dl'[p], dl[p]) \/ dl'[p] = D!Idle,
             past'.what = past.what
      PROVE  CoreSide' /\ past'.what = "core"
  BY <1>0, <1>2 DEF CoreSide, OthersAlike, Alike, SameCommand, D!Idle
<1>3. ASSUME NEW p \in Procs, Moves(p), Course'
      PROVE  DlTypes' /\ CoreSide' /\ KeptOwn' /\ Course' /\ past'.what = "core"
  BY <1>2, <1>3, MovesOwned DEF Moves, SamePast
<1>4. ASSUME NEW p \in Procs, D!Step(p)
      PROVE  DlTypes' /\ CoreSide' /\ KeptOwn' /\ Course' /\ past'.what = "core"
  <2>0. dl[p].pc # "idle" => dl[p].op = "core"
    BY <1>0 DEF DlTypes, StepsFit, DlTyped, Downloaders
  <2>1. CASE D!Ask(p)
    <3>1. dl[p].op = "core"
      BY <2>0, <2>1 DEF D!Ask
    <3> QED
      BY <1>3, <2>1, <3>1, AskMoves, AskCourse
  <2>2. CASE D!Answer(p)
    <3>1. dl[p].op = "core"
      BY <2>0, <2>2 DEF D!Answer
    <3> QED
      BY <1>3, <2>2, <3>1, AnswerMoves, AnswerCourse
  <2>3. CASE D!BadAnswer(p)
    BY <1>0, <1>3, <2>3, BadAnswerMoves, StreakOver
  <2>4. CASE D!Chunk(p)
    <3>1. dl[p].op = "core"
      BY <2>0, <2>4 DEF D!Chunk
    <3>2. KeptOwn' /\ Course'
      BY <2>4, <3>1, ChunkOwned, ChunkCourse
    <3> QED
      BY <1>2, <2>4, <3>2, ChunkOutline
  <2>5. CASE D!Break(p)
    BY <1>0, <1>3, <2>5, BreakMoves, StreakOver
  <2>6. CASE D!ReadBack(p)
    BY <1>3, <2>6, ReadBackMoves, ReadBackCourse
  <2>7. CASE D!Install(p)
    <3>1. KeptOwn' /\ Course'
      BY <2>7, InstallOwned, InstallCourse
    <3> QED
      BY <1>2, <2>7, <3>1, InstallOutline
  <2>8. CASE D!CoreFails(p)
    <3>1. KeptOwn' /\ Course'
      BY <2>8, CoreFailsOwned, CoreFailsCourse
    <3> QED
      BY <1>2, <2>8, <3>1, CoreFailsOutline DEF SamePast
  <2>9. CASE GeoStep(p)
    BY <1>0, <2>9, GeoStepOutline
  <2> QED
    BY <1>4, <2>1, <2>2, <2>3, <2>4, <2>5, <2>6, <2>7, <2>8, <2>9 DEF D!Step, GeoStep
<1>5. ASSUME NEW p \in Procs, D!Kill(p)
      PROVE  DlTypes' /\ CoreSide' /\ KeptOwn' /\ Course' /\ past'.what = "core"
  <2>1. dl[p].op = "core"
    BY <1>0, <1>5 DEF D!Kill, D!Running, DlTypes, StepsFit, DlTyped, Downloaders
  <2>2. past'.streak = 0 /\ OthersAlike(p) /\ dl'[p] = D!Idle /\ past'.what = past.what /\ DlTypes'
    BY <1>5, KillOutline
  <2> QED
    BY <1>2, <1>5, <2>1, <2>2, KillOwned, StreakOver
<1>6. ASSUME NEW u \in D!Mirrors, D!Rerelease(u)
      PROVE  FALSE
  BY <1>0, <1>6 DEF D!Rerelease
<1>7. ASSUME NEW p \in Procs PROVE ~D!GeoCommand(p)
  BY DEF D!GeoCommand
<1> QED
  BY <1>1, <1>4, <1>5, <1>6, <1>7 DEF D!Next

LEMMA DlStepInv ==
  ASSUME DownloadsConstants, DlInv, [D!Next]_(D!vars)
  PROVE  DlInv'
<1>1. CASE UNCHANGED D!vars
  BY <1>1 DEF DlInv, D!vars, DlTypes, FilesTyped, DlTyped, PastTyped, LatestTyped, StepsFit,
     GeoSide, CoreSide, CoreInv, InstalledIsAsked, OneAlone, Sole, Attended, OwnRelease,
     Cleared, Course, OnCourse
<1>2. CASE D!Next /\ past.what = "geo"
  BY <1>2, GeoBehaviour DEF DlInv, CoreSide, CoreInv
<1>3. CASE D!Next /\ past.what = "core"
  <2>1. DlTypes' /\ CoreSide' /\ KeptOwn' /\ Course' /\ past'.what = "core"
    BY <1>3, CoreBehaviour DEF DlInv, CoreInv, KeptOwn
  <2> QED
    BY <2>1 DEF DlInv, GeoSide, CoreInv, KeptOwn
<1>4. past.what \in {"core", "geo"}
  BY DEF DlInv, DlTypes, PastTyped, PastRecords
<1> QED
  BY <1>1, <1>2, <1>3, <1>4

LEMMA DlTypesTypeOK == DlTypes => D!TypeOK
BY DEF DlTypes, FilesTyped, DlTyped, Downloaders, Places, D!TypeOK, D!Mirrors, Stages

\* (Downloads.) The state of the downloads is of its type: a command is at a URL there is
\* and at an attempt it has, of any number of either.
THEOREM DownloadsTyped == ASSUME DownloadsConstants PROVE D!Spec => []D!TypeOK
<1>1. DownloadsConstants => (D!Init => DlInv)
  BY DlInitInv
<1>2. DlInv /\ [D!Next]_(D!vars) => DlInv'
  BY DlStepInv
<1>3. DlInv => D!TypeOK
  BY DlTypesTypeOK DEF DlInv
<1> QED
  BY <1>1, <1>2, <1>3, PTL DEF D!Spec

\* (Downloads.) One command at most fails in a row once servers answer well and nobody is
\* killed or at work at the same time: whatever the part file held, the failure removed it.
THEOREM DownloadsHeal == ASSUME DownloadsConstants PROVE D!Spec => []Heals
<1>1. DownloadsConstants => (D!Init => DlInv)
  BY DlInitInv
<1>2. DlInv /\ [D!Next]_(D!vars) => DlInv'
  BY DlStepInv
<1>3. DlInv => Heals
  BY DlInvPromises
<1> QED
  BY <1>1, <1>2, <1>3, PTL DEF D!Spec

\* (Downloads.) A command that was alone installs the version it was asked for, unless a
\* kill had left a whole release behind: what others leave is short of one.
THEOREM DownloadsInstallAsked == ASSUME DownloadsConstants PROVE D!Spec => []InstalledIsAsked
<1>1. DownloadsConstants => (D!Init => DlInv)
  BY DlInitInv
<1>2. DlInv /\ [D!Next]_(D!vars) => DlInv'
  BY DlStepInv
<1>3. DlInv => InstalledIsAsked
  BY DlInvPromises
<1> QED
  BY <1>1, <1>2, <1>3, PTL DEF D!Spec
=============================================================================
