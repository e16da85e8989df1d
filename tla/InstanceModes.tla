--------------------------- MODULE InstanceModes ---------------------------
(* The two installations of the program on one Linux host, the system        *)
(* service and the per-user service, which are to exclude each other: the    *)
(* commands that install, start, stop, update and uninstall them, the mode   *)
(* a command without flags acts on, and the switch `tun on` offers. No       *)
(* command holds a lock: each checks first and acts later.                   *)
EXTENDS Naturals, FiniteSets, TLC

CONSTANTS Procs,                   \* processes running commands
          MaxCommands, MaxFaults   \* bounds on what happens

ASSUME BoundsAssumption == {MaxCommands, MaxFaults} \subseteq Nat

VARIABLES svc,    \* unit files, torn ones, links for the boot, running services; the system's
            \* Core, and the marker that has its daemon start one
          files,  \* core binary and its backup, config.yaml, legacy leftovers, settings.json
          cmd,    \* the command of each process
          hist    \* which commands met (see Meets), counters

vars == <<svc, files, cmd, hist>>

Modes == {"system", "user"}
Other(m) == IF m = "system" THEN "user" ELSE "system"
Binaries == {"none", "torn", "good"}
Components == {"binary", "unit", "config"}
Results == {"ok", "refused", "failed", "staged", "declined", "killed"}
PCs == {"idle", "drop", "drop unit", "check", "payload", "unit", "config", "activate", "post",
        "run", "stop", "remove unit", "remove", "replace", "rename", "download", "clean"}

Idle == [pc |-> "idle", op |-> "none", mode |-> "user", force |-> FALSE, seen |-> {}]

TypeOK ==
  /\ svc \in [unit : SUBSET Modes, torn : SUBSET Modes, enabled : SUBSET Modes,
              active : SUBSET Modes, core : BOOLEAN, auto : BOOLEAN]
  /\ files \in [binary : [Modes -> Binaries], bak : Binaries, config : Modes \cup {"none"},
                leftovers : BOOLEAN, pref : Modes \cup {"auto"}]
  /\ cmd \in [Procs -> [pc : PCs \cup Results, mode : Modes, force : BOOLEAN,
                        op : {"none", "install", "start", "uninstall", "purge", "update"},
                        seen : SUBSET (Components \cup Modes)]]
  /\ hist \in [clash : SUBSET {"modes", "removal", "hidden"}, commands : 0..MaxCommands,
               faults : 0..MaxFaults]

\* A host with nothing, with leftovers of the old root layout, or with one mode running.
Init ==
  /\ \E on \in {{}, {"system"}, {"user"}}, leftovers \in BOOLEAN :
       /\ svc = [unit |-> on, torn |-> {}, enabled |-> on, active |-> on, core |-> "system" \in on,
                 auto |-> FALSE]
       /\ files = [binary |-> [m \in Modes |-> IF m \in on THEN "good" ELSE "none"], bak |-> "none",
                   config |-> IF on = {} THEN "none" ELSE CHOOSE m \in on : TRUE,
                   leftovers |-> leftovers, pref |-> "auto"]
  /\ cmd = [p \in Procs |-> Idle]
  /\ hist = [clash |-> {}, commands |-> 0, faults |-> 0]

(***************************************************************************)
(* What a command sees.                                                    *)
(***************************************************************************)
\* legacy_root_leftovers: the run directory, the log or the mark of the old root layout.
Leftovers == files.leftovers
\* current_instance_inventory: a service counts by its unit file alone, whole or not.
Inventory == [services |-> svc.unit, contaminated |-> Leftovers]
\* Leftovers in the user's directory hide both services.
Presence == IF Inventory.contaminated THEN {} ELSE Inventory.services

\* The unit is whole and what it executes exists: the CLI as daemon, or the Core.
Startable(m) == /\ m \in svc.unit \ svc.torn
                /\ files.binary[m] = "good"
                /\ m = "user" => files.config # "none"

CoreStartable == files.binary["system"] = "good" /\ files.config # "none"

\* explicit_mode_runtime_conflict: a flag that the running services contradict.
Conflict(m, intent) ==
  \/ svc.active = Modes /\ intent \notin {"stop", "uninstall"}
  \/ svc.active = {Other(m)} /\ intent # "uninstall"

\* The mode of a command without flags, if there is one: a running service comes before
\* the preference, the preference before what is installed.
Unflagged(intent) ==
  CASE svc.active = Modes -> {}
    [] svc.active # {} /\ svc.active # Modes -> svc.active
    [] OTHER -> IF files.pref \in Modes THEN {files.pref}
                ELSE IF "system" \in Presence THEN {"system"}
                ELSE IF "user" \in Presence \/ intent = "start" THEN {"user"} ELSE {}

Resolved(request, intent) ==
  IF request \notin Modes THEN Unflagged(intent)
  ELSE IF Conflict(request, intent) THEN {} ELSE {request}

Requests == Modes \cup {"unspecified"}

(***************************************************************************)
(* Commands under way. What nothing in the code orders is recorded: a start *)
(* or installation admitted beside one of the other mode, or beside a       *)
(* removal of the same mode; and an installation admitted beside a service  *)
(* that leftovers hide.                                                     *)
(***************************************************************************)
Free(p) == cmd[p].pc \in Results \cup {"idle"}
Dropping(q) == cmd[q].pc \in {"drop", "drop unit"}
Starting(q, m) == /\ cmd[q].op \in {"install", "start"} /\ cmd[q].mode = m
                  /\ ~Dropping(q) /\ cmd[q].pc # "check"
Removing(q, m) == \/ cmd[q].op \in {"uninstall", "update"} /\ cmd[q].mode = m
                  \/ cmd[q].op = "purge"
                  \/ Dropping(q) /\ m = "user"

Meets(p, ms, starts) ==
  {k \in {"modes", "removal"} : \E q \in Procs \ {p}, m \in ms :
     IF k = "modes" THEN starts /\ Starting(q, Other(m))
     ELSE Removing(q, m) \/ (~starts /\ Starting(q, m))}

Note(p, ms, starts) == hist.clash \cup Meets(p, ms, starts)

Begin(p, c) ==
  /\ Free(p) /\ hist.commands < MaxCommands
  /\ cmd' = [cmd EXCEPT ![p] = c]

Goto(p, pc) == cmd' = [cmd EXCEPT ![p].pc = pc]
End(p, result) == cmd' = [cmd EXCEPT ![p] = [Idle EXCEPT !.pc = result]]

Faulted == [hist EXCEPT !.faults = @ + 1]
Fault == hist.faults < MaxFaults /\ hist' = Faulted

\* What systemd makes of start, of enable --now, and of disable --now.
Started(m) == [svc EXCEPT !.active = IF Startable(m) THEN @ \cup {m} ELSE @]
Activated(m) == [Started(m) EXCEPT !.enabled = @ \cup {m}]
Stopped(m) == [svc EXCEPT !.enabled = @ \ {m}, !.active = @ \ {m}, !.core = @ /\ m # "system"]

\* A daemon that comes up: with the marker it may start a Core, on a configuration
\* with its own controller.
Booted(s) == {s} \cup IF s.auto /\ "system" \in s.active /\ CoreStartable /\ files.config = "system"
                      THEN {[s EXCEPT !.core = TRUE]} ELSE {}

(***************************************************************************)
(* install --system or --user [--force]                                    *)
(***************************************************************************)
InstallCommand(p) ==
  /\ \E m \in Modes, force \in BOOLEAN :
       Begin(p, [Idle EXCEPT !.op = "install", !.mode = m, !.force = force, !.pc = "check"])
  /\ hist' = [hist EXCEPT !.commands = @ + 1]
  /\ UNCHANGED <<svc, files>>

\* The components found whole here are skipped later on, whatever became of them.
Found(m) == {c \in Components : CASE c = "binary" -> files.binary[m] = "good"
                                  [] c = "unit" -> m \in svc.unit
                                  [] c = "config" -> files.config # "none"}
Serving(m) == m \in svc.active /\ IF m = "user" THEN files.config = m ELSE svc.core
\* (Mutant: a check of the files alone.)
FilesUpToDate(p) == LET c == cmd[p] IN ~c.force /\ Found(c.mode) = Components
UpToDate(p) == LET c == cmd[p] IN ~c.force /\ Found(c.mode) = Components /\ Serving(c.mode)

\* (Mutant: a conflict check of the running services alone.)
RunningConflict(m) == Other(m) \in svc.active

ModeConflict(m) == Other(m) \in Presence \cup svc.active

CheckInstall(p) ==
  LET m == cmd[p].mode IN
  /\ cmd[p].pc = "check"
  /\ IF ModeConflict(m) THEN End(p, "refused") /\ UNCHANGED hist
     ELSE IF UpToDate(p) THEN End(p, "ok") /\ UNCHANGED hist
     ELSE /\ cmd' = [cmd EXCEPT ![p].pc = "payload", ![p].seen = Found(m)]
          /\ hist' = [hist EXCEPT !.clash = Note(p, {m}, TRUE) \cup
                                   IF Other(m) \in svc.unit \ Presence THEN {"hidden"} ELSE {}]
  /\ UNCHANGED <<svc, files>>

Binary(m, b) == files' = [files EXCEPT !.binary[m] = b]

\* With the daemon running, a system payload that is not valid becomes a pending
\* generation. The download of the user mode keeps a binary it finds valid; run through
\* sudo it removes what is there, valid or not, as a removal beside the other commands.
Taken(p) == LET m == cmd[p].mode IN
  IF m = "user" /\ files.binary[m] = "good" THEN Meets(p, {m}, FALSE) ELSE {}
FaultTaking(p) == hist.faults < MaxFaults /\ hist' = [Faulted EXCEPT !.clash = @ \cup Taken(p)]

InstallPayload(p) ==
  \E sudo \in BOOLEAN :
  LET m == cmd[p].mode
      stage == m = "system" /\ m \in svc.active /\ ~cmd[p].force /\ "binary" \notin cmd[p].seen
      keep == \/ ~cmd[p].force /\ "binary" \in cmd[p].seen
              \/ m = "user" /\ files.binary[m] = "good" /\ ~sudo
  IN
  /\ cmd[p].pc = "payload"
  /\ \/ stage /\ End(p, "staged") /\ UNCHANGED <<files, hist>>
     \/ ~stage /\ keep /\ Goto(p, "unit") /\ UNCHANGED <<files, hist>>
     \/ ~stage /\ ~keep /\ Goto(p, "unit") /\ Binary(m, "good") /\ UNCHANGED hist
     \/ \* the download fails: the user binary it did not keep is gone by then
        /\ ~keep /\ FaultTaking(p) /\ End(p, "failed")
        /\ IF m = "user" THEN Binary(m, "none") ELSE UNCHANGED files
     \/ \* killed while it writes the file, which is no atomic replacement
        ~stage /\ ~keep /\ FaultTaking(p) /\ End(p, "killed") /\ Binary(m, "torn")
  /\ UNCHANGED svc

\* The directories and the unit file of the plan; the file is written in place.
Written(m, torn) == [svc EXCEPT !.unit = @ \cup {m}, !.torn = IF torn THEN @ \cup {m} ELSE @ \ {m}]

InstallUnit(p) ==
  LET m == cmd[p].mode
      skip == ~cmd[p].force /\ "unit" \in cmd[p].seen
  IN
  /\ cmd[p].pc = "unit"
  /\ \/ skip /\ Goto(p, "config") /\ UNCHANGED <<svc, hist>>
     \/ ~skip /\ Goto(p, "config") /\ svc' = Written(m, FALSE) /\ UNCHANGED hist
     \/ ~skip /\ Fault /\ End(p, "killed") /\ svc' = Written(m, TRUE)
  /\ UNCHANGED files

\* The configuration is generated, or its controller is made that of the mode.
ConfigFor(m) == [files EXCEPT !.config = m]

InstallConfig(p) ==
  /\ cmd[p].pc = "config"
  /\ \/ Goto(p, "activate") /\ files' = ConfigFor(cmd[p].mode) /\ UNCHANGED hist
     \/ Fault /\ End(p, "failed") /\ UNCHANGED files
  /\ UNCHANGED svc

\* daemon-reload and enable --now, unless the user declines.
InstallActivate(p) ==
  LET m == cmd[p].mode
      works == m \in svc.unit \ svc.torn
  IN
  /\ cmd[p].pc = "activate"
  /\ \/ End(p, "declined") /\ UNCHANGED <<svc, hist>>
     \/ /\ works /\ Goto(p, "post") /\ UNCHANGED hist
        /\ svc' \in IF m \in svc.active THEN {Activated(m)} ELSE Booted(Activated(m))
     \/ ~works /\ End(p, "failed") /\ UNCHANGED <<svc, hist>>
     \/ Fault /\ End(p, "failed") /\ UNCHANGED svc
  /\ UNCHANGED files

\* The user's Core is waited for; the system's daemon is, and restarts its Core.
Ready(m) == m \in svc.active /\ IF m = "user" THEN files.config = "user" ELSE CoreStartable

InstallPost(p) ==
  LET m == cmd[p].mode IN
  /\ cmd[p].pc = "post"
  /\ \/ /\ Ready(m) /\ End(p, "ok") /\ UNCHANGED hist
        /\ svc' = [svc EXCEPT !.core = @ \/ m = "system"]
        /\ files' = ConfigFor(m)
     \/ ~Ready(m) /\ End(p, "failed") /\ UNCHANGED <<svc, files, hist>>
     \/ Fault /\ End(p, "failed") /\ UNCHANGED <<svc, files>>

(***************************************************************************)
(* `tun on` with no system service: the user service is removed, even when *)
(* stopping it fails, and the system service is installed by force. While  *)
(* the user's Core runs, the mode resolves to the user's and the command   *)
(* refuses (main.rs:1009 comes before main.rs:1026).                       *)
(***************************************************************************)
ForcedInstall == [Idle EXCEPT !.op = "install", !.mode = "system", !.force = TRUE, !.pc = "check"]

TunCommand(p) ==
  /\ svc.active = {} /\ "system" \notin Presence
  /\ Begin(p, IF "user" \in Presence THEN [ForcedInstall EXCEPT !.pc = "drop"] ELSE ForcedInstall)
  /\ hist' = [hist EXCEPT !.commands = @ + 1,
                          !.clash = IF "user" \in Presence THEN Note(p, {"user"}, FALSE) ELSE @]
  /\ UNCHANGED <<svc, files>>

DropService(p) ==
  /\ cmd[p].pc = "drop" /\ Goto(p, "drop unit")
  /\ \/ svc' = (IF "user" \in svc.unit THEN Stopped("user") ELSE svc) /\ UNCHANGED hist
     \/ Fault /\ UNCHANGED svc
  /\ UNCHANGED files

DropUnit(p) ==
  /\ cmd[p].pc = "drop unit" /\ Goto(p, "check")
  /\ svc' = [svc EXCEPT !.unit = @ \ {"user"}, !.torn = @ \ {"user"}]
  /\ UNCHANGED <<files, hist>>

(***************************************************************************)
(* start, restart and stop                                                 *)
(***************************************************************************)
StartCommand(p) ==
  \E request \in Requests : \E m \in Resolved(request, "start") :
    /\ Other(m) \notin svc.active
    /\ Begin(p, [Idle EXCEPT !.op = "start", !.mode = m, !.pc = "run"])
    /\ hist' = [hist EXCEPT !.commands = @ + 1, !.clash = Note(p, {m}, TRUE)]
    /\ UNCHANGED <<svc, files>>

\* A Core of the user that starts with the controller of the other mode runs,
\* and the command fails.
RunStart(p) ==
  LET m == cmd[p].mode
      up == m \in svc.active \/ Startable(m)
  IN
  /\ cmd[p].pc = "run"
  /\ svc' = [Started(m) EXCEPT !.core = @ \/ (m = "system" /\ up /\ CoreStartable)]
  /\ files' = [files EXCEPT !.config = IF m = "system" /\ @ # "none" THEN m ELSE @]
  /\ End(p, IF up /\ (IF m = "user" THEN files.config = m ELSE CoreStartable) THEN "ok" ELSE "failed")
  /\ UNCHANGED hist

\* The system's Core is stopped by its daemon, which stays; the user's is the service.
StopCommand(p) ==
  /\ \E request \in Requests : \E m \in Resolved(request, "stop") :
       svc' = IF m = "system" THEN [svc EXCEPT !.core = FALSE]
              ELSE [svc EXCEPT !.active = @ \ {m}]
  /\ Begin(p, [Idle EXCEPT !.pc = "ok"])
  /\ hist' = [hist EXCEPT !.commands = @ + 1]
  /\ UNCHANGED files

(***************************************************************************)
(* uninstall of one mode: the service is stopped first, and nothing is     *)
(* removed when that fails, as it does when the unit file is gone already. *)
(***************************************************************************)
UninstallCommand(p) ==
  \E request \in Requests, chosen \in SUBSET {"binary", "config"} :
  \E m \in Resolved(request, "uninstall") :
    /\ ~(m = "user" /\ "config" \in chosen /\ files.leftovers)
    /\ Begin(p, [Idle EXCEPT !.op = "uninstall", !.mode = m, !.seen = chosen, !.pc = "stop"])
    /\ hist' = [hist EXCEPT !.commands = @ + 1, !.clash = Note(p, {m}, FALSE)]
    /\ UNCHANGED <<svc, files>>

\* (Mutant: the removal goes on when the stop fails.)
UninstallStopLoose(p) ==
  LET m == cmd[p].mode IN
  /\ cmd[p].pc = "stop" /\ cmd[p].op = "uninstall" /\ Goto(p, "remove unit")
  /\ \/ m \in svc.unit /\ svc' = Stopped(m) /\ UNCHANGED hist
     \/ Fault /\ UNCHANGED svc
  /\ UNCHANGED files

UninstallStop(p) ==
  LET m == cmd[p].mode IN
  /\ cmd[p].pc = "stop" /\ cmd[p].op = "uninstall"
  /\ \/ m \in svc.unit /\ svc' = Stopped(m) /\ Goto(p, "remove unit") /\ UNCHANGED hist
     \/ m \notin svc.unit /\ End(p, "failed") /\ UNCHANGED <<svc, hist>>
     \/ Fault /\ End(p, "failed") /\ UNCHANGED svc
  /\ UNCHANGED files

UninstallUnit(p) ==
  /\ cmd[p].pc = "remove unit" /\ Goto(p, "remove")
  /\ svc' = [svc EXCEPT !.unit = @ \ {cmd[p].mode}, !.torn = @ \ {cmd[p].mode}]
  /\ UNCHANGED <<files, hist>>

\* The configuration directory holds the settings and the leftovers as well.
Removed(m, what) ==
  LET all == "config" \in what IN
  [files EXCEPT !.binary[m] = IF "binary" \in what THEN "none" ELSE @,
                !.config = IF all THEN "none" ELSE @,
                !.leftovers = @ /\ ~all,
                !.pref = IF all THEN "auto" ELSE @]

UninstallFiles(p) ==
  /\ cmd[p].pc = "remove" /\ cmd[p].op = "uninstall" /\ End(p, "ok")
  /\ files' = Removed(cmd[p].mode, cmd[p].seen)
  /\ UNCHANGED <<svc, hist>>

(***************************************************************************)
(* uninstall --all: both modes, the system's first. The service commands   *)
(* are skipped for a mode that was neither installed nor running when the  *)
(* command began.                                                          *)
(***************************************************************************)

PurgeCommand(p) ==
  /\ Begin(p, [Idle EXCEPT !.op = "purge", !.mode = "system", !.pc = "stop",
                           !.seen = Presence \cup svc.active])
  /\ hist' = [hist EXCEPT !.commands = @ + 1, !.clash = Note(p, Modes, FALSE)]
  /\ UNCHANGED <<svc, files>>

PurgeStop(p) ==
  LET m == cmd[p].mode IN
  /\ cmd[p].pc = "stop" /\ cmd[p].op = "purge"
  /\ \/ m \notin cmd[p].seen /\ Goto(p, "remove") /\ UNCHANGED <<svc, hist>>
     \/ m \in cmd[p].seen \cap svc.unit /\ svc' = Stopped(m) /\ Goto(p, "remove") /\ UNCHANGED hist
     \/ m \in cmd[p].seen \ svc.unit /\ End(p, "failed") /\ UNCHANGED <<svc, hist>>
     \/ m \in cmd[p].seen /\ Fault /\ End(p, "failed") /\ UNCHANGED svc
  /\ UNCHANGED files

PurgeRemove(p) ==
  LET m == cmd[p].mode IN
  /\ cmd[p].pc = "remove" /\ cmd[p].op = "purge"
  /\ svc' = [svc EXCEPT !.unit = @ \ {m}, !.torn = @ \ {m}]
  /\ files' = Removed(m, {"binary", "config"})
  /\ IF m = "system" THEN cmd' = [cmd EXCEPT ![p].mode = "user", ![p].pc = "stop"]
     ELSE End(p, "ok")
  /\ UNCHANGED hist

(***************************************************************************)
(* update of the core binary. The system's is downloaded elsewhere and      *)
(* written over the old one, the user's is renamed away, downloaded in      *)
(* place and renamed back when that fails.                                  *)
(***************************************************************************)
UpdateCommand(p) ==
  \E request \in Requests : \E m \in Resolved(request, "mutating") :
    /\ files.binary[m] # "none"
    /\ Begin(p, [Idle EXCEPT !.op = "update", !.mode = m,
                             !.pc = IF m = "system" THEN "replace" ELSE "rename"])
    /\ hist' = [hist EXCEPT !.commands = @ + 1, !.clash = Note(p, {m}, FALSE)]
    /\ UNCHANGED <<svc, files>>

UpdateReplace(p) ==
  /\ cmd[p].pc = "replace"
  /\ \/ End(p, "ok") /\ Binary("system", "good") /\ UNCHANGED hist
     \/ Fault /\ End(p, "failed") /\ UNCHANGED files
     \/ Fault /\ End(p, "killed") /\ Binary("system", "torn")
  /\ UNCHANGED svc

UpdateRename(p) ==
  /\ cmd[p].pc = "rename"
  /\ IF files.binary["user"] = "none" THEN End(p, "failed") /\ UNCHANGED files
     ELSE /\ Goto(p, "download")
          /\ files' = [files EXCEPT !.bak = files.binary["user"], !.binary["user"] = "none"]
  /\ UNCHANGED <<svc, hist>>

Restored == IF files.bak = "none" THEN files
            ELSE [files EXCEPT !.binary["user"] = files.bak, !.bak = "none"]

UpdateDownload(p) ==
  /\ cmd[p].pc = "download"
  /\ \/ Goto(p, "clean") /\ Binary("user", "good") /\ UNCHANGED hist
     \/ Fault /\ End(p, "failed") /\ files' = Restored
     \/ Fault /\ End(p, "killed") /\ Binary("user", "torn")
  /\ UNCHANGED svc

UpdateClean(p) ==
  /\ cmd[p].pc = "clean" /\ End(p, "ok")
  /\ files' = [files EXCEPT !.bak = "none"]
  /\ UNCHANGED <<svc, hist>>

(***************************************************************************)
(* The preference, the leftovers, and the host                             *)
(***************************************************************************)
UseCommand(p) ==
  /\ \E pref \in Modes \cup {"auto"} : files' = [files EXCEPT !.pref = pref]
  /\ Begin(p, [Idle EXCEPT !.pc = "ok"])
  /\ hist' = [hist EXCEPT !.commands = @ + 1]
  /\ UNCHANGED svc

\* autostart on and off: of the system's Core by its running daemon, of the user's
\* service by systemd. No uninstallation removes the daemon's marker.
Marked(on) == [svc EXCEPT !.auto = on]
Linked(on) == [svc EXCEPT !.enabled = IF on THEN @ \cup {"user"} ELSE @ \ {"user"}]

AutostartCommand(p) ==
  /\ \E request \in Requests, on \in BOOLEAN :
     \E m \in IF request \in Modes THEN {request} ELSE Resolved(request, "read") :
       \/ m = "system" /\ m \in svc.active /\ svc' = Marked(on)
       \/ m = "user" /\ m \in svc.unit /\ (on => m \notin svc.torn) /\ svc' = Linked(on)
  /\ Begin(p, [Idle EXCEPT !.pc = "ok"])
  /\ hist' = [hist EXCEPT !.commands = @ + 1]
  /\ UNCHANGED files

RemoveLeftovers(p) ==
  /\ files.leftovers /\ files' = [files EXCEPT !.leftovers = FALSE]
  /\ Begin(p, [Idle EXCEPT !.pc = "ok"])
  /\ hist' = [hist EXCEPT !.commands = @ + 1]
  /\ UNCHANGED svc

Kill(p) == ~Free(p) /\ Fault /\ End(p, "killed") /\ UNCHANGED <<svc, files>>

\* The service manager gives up restarting a service, or its daemon its Core.
ServiceDies(m) ==
  /\ m \in svc.active /\ Fault
  /\ \/ svc' = [svc EXCEPT !.active = @ \ {m}, !.core = @ /\ m # "system"]
     \/ m = "system" /\ svc' = [svc EXCEPT !.core = FALSE]
  /\ UNCHANGED <<files, cmd>>

Reboot ==
  /\ Fault
  /\ cmd' = [p \in Procs |-> IF Free(p) THEN cmd[p] ELSE [Idle EXCEPT !.pc = "killed"]]
  /\ LET up == {m \in svc.enabled : Startable(m)} IN
     svc' \in Booted([svc EXCEPT !.active = up, !.core = FALSE])
  /\ UNCHANGED files

Step(p) ==
  \/ InstallCommand(p) \/ CheckInstall(p) \/ InstallPayload(p) \/ InstallUnit(p)
  \/ InstallConfig(p) \/ InstallActivate(p) \/ InstallPost(p)
  \/ TunCommand(p) \/ DropService(p) \/ DropUnit(p)
  \/ StartCommand(p) \/ RunStart(p) \/ StopCommand(p)
  \/ UninstallCommand(p) \/ UninstallStop(p) \/ UninstallUnit(p) \/ UninstallFiles(p)
  \/ PurgeCommand(p) \/ PurgeStop(p) \/ PurgeRemove(p)
  \/ UpdateCommand(p) \/ UpdateReplace(p) \/ UpdateRename(p) \/ UpdateDownload(p) \/ UpdateClean(p)
  \/ UseCommand(p) \/ AutostartCommand(p) \/ RemoveLeftovers(p) \/ Kill(p)

Next == (\E p \in Procs : Step(p)) \/ (\E m \in Modes : ServiceDies(m)) \/ Reboot

Spec == Init /\ [][Next]_vars

(***************************************************************************)
(* Properties                                                              *)
(***************************************************************************)
\* "v3 uses mutually exclusive modes because TUN/system service traffic conflicts
\* with per-user core" (main.rs:1228): a long sequence of commands, failures and
\* reboots does not get both services running. It takes two commands of different
\* modes at once, or leftovers that hide an installed service, to do so.
OneRuntime == svc.active = Modes => hist.clash \cap {"modes", "hidden"} # {}

\* "Stop service" comes before "Remove service file" (main.rs:18062, 18097): no
\* service runs whose unit file is gone, which no later command could stop, whatever
\* step of an uninstallation or of the switch to TUN fails.
NoOrphan == svc.active \subseteq svc.unit \/ "removal" \in hist.clash

\* An installation that reports success leaves its mode running on a valid binary
\* and on a configuration for its own controller, when it installed, when it found
\* "all components ... up to date" (main.rs:12277), and when it repaired what an
\* interrupted installation left behind.
InstallRuns ==
  [][\A p \in Procs :
       cmd[p].op = "install" /\ cmd'[p].pc = "ok" /\ hist.clash' = {} =>
         LET m == cmd[p].mode IN
         /\ m \in svc'.active \cap svc'.unit
         /\ files'.binary[m] = "good" /\ files'.config = m
         /\ m = "system" => svc'.core]_vars

=============================================================================
