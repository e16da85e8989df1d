----------------------------- MODULE UserConfig -----------------------------
(* The user's configuration directory and the commands that edit it: the     *)
(* subscriptions and their caches, the active pointer, the overlays (rules,  *)
(* DNS, groups, override) and config.yaml generated from all of them.  Every *)
(* command is a small transaction under the configuration lock: it takes     *)
(* pre-images, writes its files one by one, regenerates config.yaml,         *)
(* validates it, and on failure restores what it wrote.  A file write is one *)
(* step, and a process may die or fail between any two.                      *)
EXTENDS Naturals, Sequences, FiniteSets, SequencesExt

CONSTANTS Procs,        \* command-line processes (one thread each)
          Ids, Urls,    \* subscription ids and the URLs they are added from
          Contents,     \* what a file may hold
          Valid,        \* the contents the Core accepts
          Registered,   \* the subscriptions at the start, id -> entry
          Chosen,       \* the active one of them, or None
          Usual,        \* what every file holds at the start
          NoFile, None, \* an absent file; no process, no subscription
          RetiredLimit, \* RETIRED_TOMBSTONE_LIMIT
          MaxCommands, MaxFaults   \* bounds on what happens

ASSUME ContentAssumption ==
  Valid \subseteq Contents /\ Usual \in Valid /\ NoFile \notin Contents
ASSUME RegisteredAssumption ==
  /\ DOMAIN Registered \subseteq Ids
  /\ \A i \in DOMAIN Registered : Registered[i] \in [url : Urls, retired : Nat]
  /\ \A i, j \in DOMAIN Registered : Registered[i].url = Registered[j].url => i = j
  /\ Chosen # None => Chosen \in DOMAIN Registered /\ Registered[Chosen].retired = 0
\* A cache is a file of its own.
ASSUME IdsAssumption ==
  /\ IsFiniteSet(Ids) /\ Ids \cap {"subs", "active", "overlay", "config"} = {}
  /\ None \notin Ids \cup Procs
ASSUME BoundsAssumption ==
  /\ RetiredLimit \in Nat \ {0}
  /\ {MaxCommands, MaxFaults} \subseteq Nat

VARIABLES disk,      \* the files: "subs", "active", "overlay", "config", and a cache per id
          lock,      \* the process that holds the lock file, or None
          depth,     \* LOCK_DEPTH of each process
          ps,        \* where each process is in its command
          runtime,   \* the configuration last promoted to the daemon
          last,      \* the files when the lock was last free
          torn,      \* what was left half done: a change, or the undoing of one
          count      \* commands and faults so far, by kind

vars == <<disk, lock, depth, ps, runtime, last, torn, count>>

Files == {"subs", "active", "overlay", "config"} \cup Ids

(***************************************************************************)
(* Subscription metadata.  An entry is alive (retired = 0) or a tombstone, *)
(* whose retired_at is kept as its rank in time.                           *)
(***************************************************************************)
Entries == [url : Urls, retired : Nat]
Alive(subs) == {i \in DOMAIN subs : subs[i].retired = 0}
Retired(subs) == DOMAIN subs \ Alive(subs)
OfUrl(subs, url) == {i \in DOMAIN subs : subs[i].url = url}

Newest(subs, S) == {i \in S : \A j \in S : subs[j].retired <= subs[i].retired}

Entered(subs, id, url) ==
  [i \in DOMAIN subs \cup {id} |->
     IF i = id THEN [url |-> url, retired |-> 0] ELSE subs[i]]

Activates(subs, activate) ==
  \/ activate = "yes"
  \/ activate = "auto" /\ Cardinality(Alive(subs)) = 1

\* The identities a URL may resolve to: its living entry (none when two are
\* alive), else its newest tombstone, else a fresh id.
Identity(subs, url) ==
  LET same == OfUrl(subs, url)
      live == same \cap Alive(subs)
  IN IF live # {} THEN {i \in live : live = {i}}
     ELSE IF same # {} THEN Newest(subs, same)
     ELSE Ids \ DOMAIN subs

\* Retiring keeps a tombstone, and only the RetiredLimit newest of them.
RetiredAfter(subs, id) ==
  LET now == 1 + Cardinality(Retired(subs))
      rank(i) == Cardinality({j \in Retired(subs) : subs[j].retired <= subs[i].retired})
      marked == [i \in DOMAIN subs |->
                   IF i = id THEN [subs[i] EXCEPT !.retired = now]
                   ELSE IF i \in Retired(subs) THEN [subs[i] EXCEPT !.retired = rank(i)]
                   ELSE subs[i]]
      kept == {i \in Retired(marked) : marked[i].retired > now - RetiredLimit}
  IN [i \in Alive(marked) \cup kept |-> marked[i]]

(***************************************************************************)
(* The generated configuration, by what it was made of.                    *)
(***************************************************************************)
Configs == [from : Ids \cup {None}, sub : Contents \cup {NoFile},
            overlay : Contents, tun : BOOLEAN, controller : BOOLEAN]

ConfigValid(c) == c.overlay \in Valid /\ (c.from = None \/ c.sub \in Valid)

\* The TUN block is carried over from the configuration that is replaced, and
\* the controller is injected.
CarriedTun(d) == d["config"].tun
Mergeable(d) == d["active"] = None \/ d[d["active"]] # NoFile
Merged(d) ==
  LET based == d["active"] # None
  IN [from |-> IF based THEN d["active"] ELSE d["config"].from,
      sub |-> IF based THEN d[d["active"]] ELSE d["config"].sub,
      overlay |-> d["overlay"], tun |-> CarriedTun(d),
      controller |-> based \/ d["config"].controller]

(***************************************************************************)
(* Commands.  What a command read before it asks for the lock is part of   *)
(* it: the downloaded contents, the entries that were alive, the intent.   *)
(***************************************************************************)
Plain == [op |-> "none", url |-> None, ids |-> {}, data |-> NoFile,
          activate |-> "no", base |-> None, menu |-> FALSE]

\* The provider may answer one of the client names with anything a file may hold.
Fetched == Contents

Addition(o, u, c, a) == [Plain EXCEPT !.op = o, !.url = u, !.data = c, !.activate = a]
Adding(o, choices) == {Addition(o, u, c, a) : u \in Urls, c \in Fetched, a \in choices}
AddCommands    == Adding("add", {"auto", "yes", "no"})
UrlCommands    == AddCommands    \* a bare URL: the same transaction
ImportCommands == Adding("import", {"yes", "no"})
MenuAdds       == Adding("menu-add", {"auto"})

About(o, S) == {[Plain EXCEPT !.op = o, !.ids = {i}] : i \in S}
SwitchCommands(d) == About("switch", DOMAIN d["subs"])
RemoveCommands(d) == About("remove", DOMAIN d["subs"])
AgentCommands(d)  == About("agent", DOMAIN d["subs"])
Removable(d, i) == i \in Alive(d["subs"]) /\ i # d["active"]

\* The active one, or all that are alive.
Refresh(S, c) == [Plain EXCEPT !.op = "refresh", !.ids = S, !.data = c]
RefreshCommands(d) ==
  {Refresh(S, c) : S \in {{d["active"]}, Alive(d["subs"])} \ {{}, {None}}, c \in Fetched}

\* The menu switches, refreshes and removes as the commands do, but leaves it to
\* the user to apply the result.
MenuCommands(d) ==
  RemoveCommands(d)
  \cup {[c EXCEPT !.menu = TRUE] :
          c \in RefreshCommands(d) \cup {s \in SwitchCommands(d) : d["active"] \notin s.ids}}

OverlayEdits(o) == {[Plain EXCEPT !.op = o, !.data = c] : c \in Contents}
RuleEdits     == OverlayEdits("rules")
PolicyEdits   == OverlayEdits("dns")
TemplateEdits == PolicyEdits            \* a group of policies at once
FakeIpEdits   == OverlayEdits("dns")    \* another file, the same transaction
GroupEdits    == OverlayEdits("groups")
OverrideEdits == OverlayEdits("override")

SwitchTun(d) == {[Plain EXCEPT !.op = "tun", !.base = d["config"]]}
FixConfig(d) == {[Plain EXCEPT !.op = "fix", !.base = d["config"]]}
Restore      == {[Plain EXCEPT !.op = "restore"]}

Commands(d) ==
  AddCommands \cup UrlCommands \cup ImportCommands \cup MenuAdds \cup MenuCommands(d)
  \cup SwitchCommands(d) \cup RemoveCommands(d) \cup AgentCommands(d) \cup RefreshCommands(d)
  \cup RuleEdits \cup PolicyEdits \cup TemplateEdits \cup FakeIpEdits \cup GroupEdits \cup OverrideEdits
  \cup SwitchTun(d) \cup FixConfig(d) \cup Restore

StartDisk ==
  LET living == Alive(Registered)
  IN [f \in Files |->
        CASE f = "subs" -> Registered
          [] f = "active" -> Chosen
          [] f = "config" ->
               [from |-> Chosen, sub |-> IF Chosen = None THEN NoFile ELSE Usual,
                overlay |-> Usual, tun |-> FALSE, controller |-> FALSE]
          [] f \in living \cup {"overlay"} -> Usual
          [] OTHER -> NoFile]

Idle == [pc |-> "idle", then |-> "idle", cmd |-> Plain, id |-> None, plan |-> <<>>,
         at |-> 0, activated |-> FALSE, undo |-> <<>>, snap |-> None, prev |-> None]

Init == /\ disk = StartDisk
        /\ lock = None
        /\ depth = [p \in Procs |-> 0]
        /\ ps = [p \in Procs |-> Idle]
        /\ runtime = StartDisk["config"]
        /\ last = StartDisk
        /\ torn = {}
        /\ count = [commands |-> 0, faults |-> 0, fixes |-> 0]

At(p, pc) == ps[p].pc = pc
Op(p) == ps[p].cmd.op
AddOps == {"add", "import", "menu-add"}
OverlayOps == {"rules", "dns", "groups", "override"}
Fault == /\ count.faults < MaxFaults
         /\ count' = [count EXCEPT !.faults = @ + 1]

(***************************************************************************)
(* The lock.  Every function that needs it takes it, also inside another's *)
(* hold: only the outermost guard of a thread touches the lock file.       *)
(***************************************************************************)
Acquirable(p) == depth[p] > 0 \/ lock = None
DepthLeaked(p) == depth[p] + 1    \* (Mutant: the increment is not rolled back.)
DepthAfterTimeout(p) == depth[p]
Outermost(p) == depth[p] = 1

Acquire(p) ==
  /\ At(p, "want") /\ Acquirable(p)
  /\ lock' = IF depth[p] = 0 THEN p ELSE lock
  /\ depth' = [depth EXCEPT ![p] = @ + 1]
  /\ ps' = [ps EXCEPT ![p].pc = ps[p].then]
  /\ UNCHANGED <<disk, runtime, last, torn, count>>

AcquireTimesOut(p) ==
  /\ At(p, "want") /\ ~Acquirable(p)
  /\ depth' = [depth EXCEPT ![p] = DepthAfterTimeout(p)]
  /\ ps' = [ps EXCEPT ![p] = Idle]
  /\ UNCHANGED <<disk, lock, runtime, last, torn, count>>

Drop(p) ==
  /\ depth' = [depth EXCEPT ![p] = @ - 1]
  /\ lock' = IF Outermost(p) THEN None ELSE lock
  /\ last' = IF Outermost(p) THEN disk' ELSE last

(***************************************************************************)
(* A command reads what it needs (and downloads), asks for the lock, and   *)
(* decides inside it, from the files it reads again, what it will write.   *)
(***************************************************************************)
Begin(p) ==
  /\ At(p, "idle") /\ count.commands < MaxCommands
  /\ count' = [count EXCEPT !.commands = @ + 1]
  /\ \E c \in Commands(disk) :
       ps' = [ps EXCEPT ![p] = [Idle EXCEPT !.cmd = c, !.then = "plan",
                                !.pc = IF c.op = "fix" THEN "fix" ELSE "want"]]
  /\ UNCHANGED <<disk, lock, depth, runtime, last, torn>>

Write(f, v) == [file |-> f, val |-> v]

\* (Mutant: the pointer is written before what it points to.)
AddPlanActiveFirst(c, id, d) ==
  LET subs == Entered(d["subs"], id, c.url)
  IN (IF Activates(subs, c.activate) THEN <<Write("active", id)>> ELSE <<>>)
     \o <<Write(id, c.data), Write("subs", subs)>>

AddPlan(c, id, d) ==
  LET subs == Entered(d["subs"], id, c.url)
  IN <<Write(id, c.data), Write("subs", subs)>>
     \o (IF Activates(subs, c.activate) THEN <<Write("active", id)>> ELSE <<>>)

\* (Mutant: the entries are the ones read before the download.)
RefreshPlanStale(c, d) ==
  LET all == SetToSeq(c.ids \cap DOMAIN d["subs"])
  IN [k \in DOMAIN all |-> Write(all[k], c.data)]
     \o <<Write("subs", [i \in DOMAIN d["subs"] |->
                          IF i \in c.ids THEN [d["subs"][i] EXCEPT !.retired = 0]
                          ELSE d["subs"][i]])>>

\* Only entries that are still alive are refreshed; the metadata is read again.
RefreshPlan(c, d) ==
  LET live == SetToSeq(c.ids \cap Alive(d["subs"]))
  IN [k \in DOMAIN live |-> Write(live[k], c.data)]
     \o (IF live = <<>> THEN <<>> ELSE <<Write("subs", d["subs"])>>)

RemovePlan(id, d) == <<Write("subs", RetiredAfter(d["subs"], id)), Write(id, NoFile)>>

\* A backup of the configuration at the start, copied back item by item; the
\* subscriptions directory, with the active pointer in it, is emptied first.
RestorePlan ==
  LET ids == SetToSeq(Ids)
  IN <<Write("config", StartDisk["config"]), Write("overlay", StartDisk["overlay"]),
       Write("subs", StartDisk["subs"]), Write("active", None)>>
     \o [k \in DOMAIN ids |-> Write(ids[k], NoFile)]
     \o [k \in DOMAIN ids |-> Write(ids[k], StartDisk[ids[k]])]
     \o <<Write("active", StartDisk["active"]),
          Write("config", [StartDisk["config"] EXCEPT !.controller = TRUE])>>

\* The id a command is about, out of those it may be; None: no id is needed.
Targets(c, d) ==
  CASE c.op \in AddOps -> Identity(d["subs"], c.url)
    [] c.op = "switch" -> {i \in c.ids \cap Alive(d["subs"]) : d[i] # NoFile}
    [] c.op = "remove" -> {i \in c.ids : Removable(d, i)}
    [] c.op = "agent" -> c.ids \cap DOMAIN d["subs"]
    [] c.op = "tun" /\ d["config"] # c.base -> {}
    [] OTHER -> {None}

Writes(c, id, d) ==
  CASE c.op \in AddOps -> AddPlan(c, id, d)
    [] c.op = "switch" -> <<Write("active", id)>>
    [] c.op = "remove" -> RemovePlan(id, d)
    [] c.op = "agent" -> <<Write("subs", d["subs"])>>
    [] c.op = "refresh" -> RefreshPlan(c, d)
    [] c.op \in OverlayOps -> <<Write("overlay", c.data)>>
    [] c.op = "tun" -> <<Write("config", [c.base EXCEPT !.tun = ~c.base.tun])>>
    [] OTHER -> RestorePlan

Plan(p) ==
  /\ At(p, "plan")
  /\ IF Targets(ps[p].cmd, disk) = {}
     THEN ps' = [ps EXCEPT ![p].pc = "failed"]
     ELSE \E id \in Targets(ps[p].cmd, disk) :
            LET w == Writes(ps[p].cmd, id, disk)
            IN ps' = [ps EXCEPT ![p].pc = "write", ![p].id = id, ![p].plan = w,
                                ![p].snap = disk,
                                ![p].activated = \E k \in DOMAIN w : w[k].file = "active"]
  /\ UNCHANGED <<disk, lock, depth, runtime, last, torn, count>>

(***************************************************************************)
(* Writing, file by file, and what follows the last file.                  *)
(***************************************************************************)
Merges(c) ==
  \/ c.op \in {"add", "refresh", "switch"} \cup OverlayOps
  \/ c.op = "import" /\ c.activate = "yes"

\* A file is replaced at once: a temporary file beside it is renamed into place.
Put(d, f, v) == [d EXCEPT ![f] = v]

WriteNext(p) ==
  /\ At(p, "write") /\ ps[p].at < Len(ps[p].plan)
  /\ LET w == ps[p].plan[ps[p].at + 1] IN disk' = Put(disk, w.file, w.val)
  /\ ps' = [ps EXCEPT ![p].at = @ + 1]
  /\ UNCHANGED <<lock, depth, runtime, last, torn, count>>

Written(p) ==
  /\ At(p, "write") /\ ps[p].at = Len(ps[p].plan)
  /\ LET c == ps[p].cmd
     IN ps' = [ps EXCEPT ![p].pc = IF ~Merges(c) THEN "leave"
                                   ELSE IF c.activate = "auto" THEN "prompt" ELSE "want",
                         ![p].then = IF Merges(c) THEN "merge" ELSE @]
  /\ UNCHANGED <<disk, lock, depth, runtime, last, torn, count>>

\* (Mutant: the activation is not recorded for the restoration.)
PromptUnmarked(p) ==
  /\ At(p, "prompt")
  /\ disk' \in {disk, [disk EXCEPT !["active"] = ps[p].id]}
  /\ ps' = [ps EXCEPT ![p].pc = "want"]
  /\ UNCHANGED <<lock, depth, runtime, last, torn, count>>

\* `add` without an explicit choice asks whether to activate.
Prompt(p) ==
  /\ At(p, "prompt")
  /\ \/ /\ disk["active"] # ps[p].id
        /\ disk' = [disk EXCEPT !["active"] = ps[p].id]
        /\ ps' = [ps EXCEPT ![p].pc = "want", ![p].activated = TRUE]
     \/ /\ ps' = [ps EXCEPT ![p].pc = "want"]
        /\ UNCHANGED disk
  /\ UNCHANGED <<lock, depth, runtime, last, torn, count>>

(***************************************************************************)
(* Failure: the pre-images are put back, in the order of the code.         *)
(***************************************************************************)
\* The caches of a refresh come first, the metadata last.
CachesWritten(p) ==
  LET s == ps[p]
      caches == IF s.at < Len(s.plan) THEN s.at ELSE s.at - 1
  IN [k \in 1 .. caches |-> s.plan[k].file]

RemoveUndo(id) == <<id, "subs">>

\* The write after the first ps[p].at ones failed.
WriteUndo(p) ==
  CASE Op(p) \in AddOps /\ ps[p].at > 0 -> <<ps[p].id, "subs", "active">>
    [] Op(p) = "remove" -> RemoveUndo(ps[p].id)
    [] Op(p) = "refresh" ->
         CachesWritten(p) \o (IF ps[p].plan[ps[p].at + 1].file = "subs" THEN <<"subs">> ELSE <<>>)
    [] OTHER -> <<>>

\* config.yaml could not be regenerated or was rejected.
MergeUndo(p) ==
  CASE Op(p) \in {"add", "import"} ->
         <<ps[p].id, "subs">> \o (IF ps[p].activated THEN <<"active">> ELSE <<>>)
    [] Op(p) = "refresh" -> CachesWritten(p) \o <<"subs">>
    [] Op(p) = "switch" -> <<"active">>
    [] Op(p) = "groups" -> <<"overlay", "config">>
    [] Op(p) \in OverlayOps \ {"groups"} -> <<"overlay">>
    [] OTHER -> <<>>

Undoing(p, files) == [ps[p] EXCEPT !.pc = "undo", !.undo = files]

WriteFails(p) ==
  /\ At(p, "write") /\ ps[p].at < Len(ps[p].plan) /\ Fault
  /\ ps' = [ps EXCEPT ![p] = Undoing(p, WriteUndo(p))]
  /\ torn' = IF Op(p) = "restore" /\ ps[p].at > 0 THEN torn \cup {"undo"} ELSE torn
  /\ UNCHANGED <<disk, lock, depth, runtime, last>>

UndoNext(p) ==
  /\ At(p, "undo") /\ ps[p].undo # <<>>
  /\ LET f == Head(ps[p].undo) IN disk' = Put(disk, f, ps[p].snap[f])
  /\ ps' = [ps EXCEPT ![p].undo = Tail(@)]
  /\ UNCHANGED <<lock, depth, runtime, last, torn, count>>

\* An error of one restoration is collected and the next one is tried.
UndoFails(p) ==
  /\ At(p, "undo") /\ ps[p].undo # <<>> /\ Fault
  /\ torn' = torn \cup {"undo"}
  /\ ps' = [ps EXCEPT ![p].undo = Tail(@)]
  /\ UNCHANGED <<disk, lock, depth, runtime, last>>

Undone(p) ==
  /\ At(p, "undo") /\ ps[p].undo = <<>>
  /\ ps' = [ps EXCEPT ![p].pc = "failed"]
  /\ UNCHANGED <<disk, lock, depth, runtime, last, torn, count>>

(***************************************************************************)
(* Regenerating config.yaml, inside a nested hold: it is written first and *)
(* validated where it lies, and the old one is put back if it is refused.  *)
(***************************************************************************)
MergeWrite(p) ==
  /\ At(p, "merge")
  /\ IF Mergeable(disk)
     THEN /\ disk' = [disk EXCEPT !["config"] = Merged(disk)]
          /\ ps' = [ps EXCEPT ![p].pc = "validate", ![p].prev = disk["config"]]
          /\ UNCHANGED <<lock, depth, last>>
     ELSE /\ UNCHANGED disk
          /\ Drop(p)
          /\ ps' = [ps EXCEPT ![p] = Undoing(p, MergeUndo(p))]
  /\ UNCHANGED <<runtime, torn, count>>

MergeFails(p) ==
  /\ At(p, "merge") /\ Fault
  /\ UNCHANGED <<disk, runtime, torn>>
  /\ Drop(p)
  /\ ps' = [ps EXCEPT ![p] = Undoing(p, MergeUndo(p))]

\* The restoration of the old one may fail too.
Validate(p) ==
  /\ At(p, "validate")
  /\ \/ /\ ConfigValid(disk["config"]) /\ UNCHANGED <<disk, torn, count>>
        /\ ps' = [ps EXCEPT ![p].pc = "leave"]
     \/ /\ ~ConfigValid(disk["config"])
        /\ ps' = [ps EXCEPT ![p] = Undoing(p, MergeUndo(p))]
        /\ \/ disk' = [disk EXCEPT !["config"] = ps[p].prev] /\ UNCHANGED <<torn, count>>
           \/ Fault /\ torn' = torn \cup {"undo"} /\ UNCHANGED disk
  /\ Drop(p)
  /\ UNCHANGED runtime

\* Groups and overrides are saved before the Core binary is resolved, and an
\* error of that is returned at once.
Unresolved(p) == Op(p) \in {"groups", "override"} /\ Fault

ResolveFails(p) ==
  /\ At(p, "want") /\ ps[p].then = "merge" /\ Unresolved(p)
  /\ torn' = torn \cup {"change"}
  /\ ps' = [ps EXCEPT ![p].pc = "failed"]
  /\ UNCHANGED <<disk, lock, depth, runtime, last>>

(***************************************************************************)
(* Leaving the hold.  The menu merges in a second one; a command that      *)
(* changed the configuration goes on to apply it.                          *)
(***************************************************************************)
Applies(c) == Merges(c) /\ ~c.menu

Leave(p) ==
  /\ ps[p].pc \in {"leave", "failed", "reconciled"}
  /\ UNCHANGED disk
  /\ IF depth[p] > 0 THEN Drop(p) ELSE UNCHANGED <<lock, depth, last>>
  /\ ps' = [ps EXCEPT ![p] =
       CASE @.pc = "reconciled" -> [@ EXCEPT !.pc = "send"]
         [] @.pc = "leave" /\ Op(p) = "menu-add" /\ @.then = "plan" ->
              [@ EXCEPT !.pc = "want", !.then = "merge"]
         [] @.pc = "leave" /\ Applies(@.cmd) -> [@ EXCEPT !.pc = "apply"]
         [] OTHER -> Idle]
  /\ UNCHANGED <<runtime, torn, count>>

(***************************************************************************)
(* Applying: the revision of config.yaml is read, compared and the overlay *)
(* merged in again under the lock, and what was read there is sent.        *)
(***************************************************************************)
ReadBase(p) ==
  /\ At(p, "apply")
  /\ ps' = [ps EXCEPT ![p].pc = "want", ![p].then = "reconcile", ![p].prev = disk["config"]]
  /\ UNCHANGED <<disk, lock, depth, runtime, last, torn, count>>

Unchanged(p) == disk["config"] = ps[p].prev

Reconcile(p) ==
  /\ At(p, "reconcile")
  /\ LET now == [disk["config"] EXCEPT !.overlay = disk["overlay"]]
     IN IF Unchanged(p)
        THEN /\ disk' = [disk EXCEPT !["config"] = now]
             /\ ps' = [ps EXCEPT ![p].pc = "reconciled", ![p].prev = now]
        ELSE /\ UNCHANGED disk
             /\ ps' = [ps EXCEPT ![p].pc = "leave", ![p].cmd = Plain]
  /\ UNCHANGED <<lock, depth, runtime, last, torn, count>>

\* The daemon takes what the Core accepts.
Send(p) ==
  /\ At(p, "send")
  /\ runtime' = IF ConfigValid(ps[p].prev) THEN ps[p].prev ELSE runtime
  /\ ps' = [ps EXCEPT ![p] = Idle]
  /\ UNCHANGED <<disk, lock, depth, last, torn, count>>

(***************************************************************************)
(* `config --fix` adds a missing controller.  It takes no lock.            *)
(***************************************************************************)
Fix(p) ==
  /\ At(p, "fix")
  /\ LET read == ps[p].cmd.base
     IN /\ disk' = IF read.controller THEN disk
                   ELSE [disk EXCEPT !["config"] = [read EXCEPT !.controller = TRUE]]
        /\ ps' = [ps EXCEPT ![p].pc = "fixed"]
  /\ count' = [count EXCEPT !.fixes = 1]
  /\ UNCHANGED <<lock, depth, runtime, last, torn>>

FixChecked(p) ==
  /\ At(p, "fixed")
  /\ LET read == ps[p].cmd.base
     IN disk' = IF read.controller \/ ConfigValid(disk["config"]) THEN disk
                ELSE [disk EXCEPT !["config"] = read]
  /\ ps' = [ps EXCEPT ![p] = Idle]
  /\ UNCHANGED <<lock, depth, runtime, last, torn, count>>

\* A killed process: the kernel frees its lock, the files stay as they are.
Crash(p) ==
  /\ ~At(p, "idle") /\ Fault
  /\ UNCHANGED <<disk, runtime>>
  /\ lock' = IF lock = p THEN None ELSE lock
  /\ last' = IF lock = p THEN disk ELSE last
  /\ depth' = [depth EXCEPT ![p] = 0]
  /\ torn' = torn \cup (IF lock # p \/ disk = last THEN {}
                        ELSE IF At(p, "undo") \/ Op(p) = "restore" THEN {"undo"}
                        ELSE {"change"})
  /\ ps' = [ps EXCEPT ![p] = Idle]

Step(p) ==
  \/ Begin(p) \/ Acquire(p) \/ AcquireTimesOut(p) \/ Plan(p)
  \/ WriteNext(p) \/ Written(p) \/ WriteFails(p) \/ Prompt(p)
  \/ MergeWrite(p) \/ MergeFails(p) \/ Validate(p) \/ ResolveFails(p)
  \/ UndoNext(p) \/ UndoFails(p) \/ Undone(p) \/ Leave(p)
  \/ ReadBase(p) \/ Reconcile(p) \/ Send(p)
  \/ Fix(p) \/ FixChecked(p) \/ Crash(p)

Next == \E p \in Procs : Step(p)

Spec == Init /\ [][Next]_vars

(***************************************************************************)
(* Properties.                                                             *)
(***************************************************************************)
Places == {"idle", "want", "plan", "write", "prompt", "merge", "validate", "undo", "failed",
           "leave", "apply", "reconcile", "reconciled", "send", "fix", "fixed"}

\* Every file holds what the code can put in it, and a process that is
\* nowhere has no guard left: LOCK_DEPTH is balanced on every way out.
TypeOK ==
  /\ DOMAIN disk = Files
  /\ DOMAIN disk["subs"] \subseteq Ids
  /\ \A i \in DOMAIN disk["subs"] : disk["subs"][i] \in Entries
  /\ Cardinality(Retired(disk["subs"])) <= RetiredLimit
  /\ disk["active"] \in Ids \cup {None}
  /\ \A f \in Ids : disk[f] \in Contents \cup {NoFile}
  /\ disk["overlay"] \in Contents
  /\ {disk["config"], runtime} \subseteq Configs
  /\ lock \in Procs \cup {None}
  /\ \A p \in Procs : /\ ps[p].pc \in Places
                      /\ depth[p] \in 0..2
                      /\ ps[p].pc \in {"idle", "apply", "send"} => depth[p] = 0
  /\ torn \subseteq {"change", "undo"}

\* A process that believes to hold the lock, because its thread's depth says
\* so, holds the lock file: a nested guard does not give it up, a failed
\* acquisition leaves no depth behind.
LockHonest == \A p \in Procs : depth[p] > 0 => lock = p

\* Whenever nobody holds the lock, the active pointer names a living
\* subscription whose cache exists, also after a process was killed in the
\* middle of a change.  Only an interrupted restoration can break it.
ActiveUsable ==
  lock = None /\ "undo" \notin torn /\ disk["active"] # None =>
     disk["active"] \in Alive(disk["subs"]) /\ disk[disk["active"]] # NoFile

\* A command that failed leaves every file as it was when it took the lock,
\* whatever it had written by then and whatever others did while it was
\* downloading.
RestoredOnFailure ==
  \A p \in Procs : At(p, "failed") /\ depth[p] > 0 /\ torn = {} /\ count.fixes = 0 => disk = last

\* A subscription that is not alive comes alive only by an addition of its URL,
\* by a restored backup or by a restoration: a refresh or a change of the
\* user agent that was prepared before it was removed does not revive it.
NoResurrection ==
  [][\A i \in Alive(disk'["subs"]) \ Alive(disk["subs"]) :
        \E p \in Procs : \/ Op(p) \in AddOps /\ disk'["subs"][i].url = ps[p].cmd.url
                        \/ Op(p) = "restore" \/ At(p, "undo")]_vars
=============================================================================
