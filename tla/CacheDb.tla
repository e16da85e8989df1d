------------------------------ MODULE CacheDb -------------------------------
(***************************************************************************)
(* The Core's database cache.db and what stands around it: the repair of   *)
(* owners and modes before a `start` or a `restart` of the system Core,    *)
(* the copy of an unsafe database, the daemon's queue of lifecycle         *)
(* commands, its gate that moves an unsafe database aside, and the names   *)
(* and the number of the copies that are kept.                             *)
(*                                                                         *)
(* The Core removes a database it cannot open.  The commands run as root:  *)
(* without, they run themselves again under sudo from their beginning.     *)
(***************************************************************************)
EXTENDS EvidencePromises, Naturals, FiniteSets, Sequences, SequencesExt

CONSTANTS
  Procs, Again,                      \* processes; the one that tries `restart --yes` again
  Keep,                              \* CACHE_DB_QUARANTINE_RETENTION
  MaxCommands, MaxFaults, MaxClock   \* bounds

ASSUME KeepAssumption == Keep \in Nat \ {0}
ASSUME AgainAssumption == Again \in Procs
ASSUME ClockAssumption == MaxClock \in Nat

VARIABLES
  perm,       \* owner and mode of each managed asset
  partials,   \* names of the copies that are staged
  clock,      \* the seconds of the wall clock
  core,       \* "up" or "down"
  queue,      \* the daemon's waiting lifecycle commands
  cli,        \* the command of each process
  host        \* what does not change: platform, version of the daemon

vars == <<file, perm, artifacts, partials, clock, core, queue, job, cli, host, hist>>

Nobody == "nobody"
Linked == 0   \* what a link at cache.db leads to
Sound == 1    \* a database in order
Unread == 2   \* no content was judged; broken contents are told apart by later numbers

\* CacheDbState: "half" has one valid meta page and can be opened, "short" can not.
\* A database of length zero is made anew like a missing one.
Kinds == {"missing", "sound", "half", "short", "invalid", "link"}
Broken == {"half", "short", "invalid"}
Missing == [kind |-> "missing", id |-> Unread]
Databases == [kind : Kinds, id : Nat]

\* The directories, transaction files, snapshot and Geo files under /var/lib; the database;
\* the user's configuration tree.  "unsafe": a link, a wrong type, another owner.
Assets == {"state", "cache", "tree"}
Verdicts == {"ok", "drift", "unsafe"}

NoName == [at |-> <<0, 0>>, of |-> 0]
Idle == [op |-> "none", yes |-> FALSE, at |-> "idle", second |-> FALSE, name |-> NoName, seen |-> Unread]
NoJob == [client |-> Nobody, at |-> "idle", again |-> FALSE, name |-> NoName, seen |-> Unread]

\* A lifecycle command that waits for OWNER_LIFECYCLE_LOCK (is_lifecycle_command).
Waiting == [client : Procs \cup {Nobody}, again : BOOLEAN, seen : Nat]

Ats == {"idle", "repair", "cache", "copy", "publish", "prune", "mend",
        "judge", "send", "await"}
TypeOK ==
  /\ file \in Databases
  /\ perm \in [Assets -> Verdicts] /\ perm["cache"] # "unsafe"
  /\ \A a \in artifacts : a \in [name : Nat \X Nat, id : Nat]
  /\ partials \subseteq Nat \X Nat /\ clock \in 0..MaxClock /\ core \in {"up", "down"}
  /\ \A n \in DOMAIN queue : queue[n] \in Waiting
  /\ job.at \in {"idle", "gate", "move", "prune", "spawn"}
  /\ \A p \in Procs : cli[p].at \in Ats

Init ==
  /\ file = [kind |-> "sound", id |-> Sound]
  /\ perm = [a \in Assets |-> "ok"]
  /\ artifacts = {} /\ partials = {} /\ clock = 0 /\ core = "down"
  /\ queue = <<>> /\ job = NoJob
  /\ cli = [p \in Procs |-> Idle]
  /\ host \in [linux : BOOLEAN, gate : BOOLEAN]
  /\ hist = [published |-> <<>>, count |-> 0, disordered |-> FALSE, commands |-> 0, faults |-> 0, last |-> Unread]

-----------------------------------------------------------------------------
(* Classification.                                                         *)

\* Owner and mode are looked at before any content, and only of a regular file.
Drifted == file.kind \notin {"missing", "link"} /\ perm["cache"] = "drift"

\* Not a regular file, no valid meta page, or one that bbolt cannot open.
Unsafe == file.kind \in {"short", "invalid", "link"}
IsolationByContent == ~Drifted /\ file.kind \in {"invalid", "link"}   \* mutant: openability forgotten
NeedsIsolation == ~Drifted /\ Unsafe
NeedsEvidence == NeedsIsolation \/ Drifted

\* check_system_state_dir_needs_repair: a contract of Linux only (whose service account exists).
StateDrifted ==
  /\ host.linux
  /\ Drifted \/ file.kind = "link" \/ perm["state"] # "ok"

-----------------------------------------------------------------------------
(* Names of artifacts.                                                     *)

Names == {a.name : a \in artifacts}
FirstFree(ts) ==   \* mutant: the number of an evicted artifact is used again
  CHOOSE s \in 0..Cardinality(artifacts) :
    /\ <<ts, s>> \notin Names /\ \A t \in 0..s - 1 : <<ts, t>> \in Names
NextSeq(ts) ==
  LET used == {n[2] : n \in {m \in Names : m[1] = ts}}
  IN  IF used = {} THEN 0 ELSE 1 + CHOOSE s \in used : \A t \in used : t <= s

\* Chosen from the clock and the names there are; used later.
ChosenTimeless == [at |-> <<0, NextSeq(0)>>, of |-> hist.count]   \* mutant: names without a time
Chosen == [at |-> <<clock, NextSeq(clock)>>, of |-> hist.count]

After(m, n) == m[1] > n[1] \/ (m[1] = n[1] /\ m[2] > n[2])
Newer(a) == {b \in artifacts : b.id # Linked /\ After(b.name, a.name)}

\* prune_cache_db_quarantine looks at regular files.
Pruned == {a \in artifacts : a.id = Linked \/ Cardinality(Newer(a)) < Keep}

\* Out of order: behind a name that was published since this one was chosen.
Published(name, id) ==
  /\ artifacts' = artifacts \cup {[name |-> name.at, id |-> id]}
  /\ hist' = [hist EXCEPT
       !.published = LET all == Append(@, name.at)
                     IN  IF Len(all) > Keep THEN Tail(all) ELSE all,
       !.count = @ + 1,
       !.disordered = @ \/ (name.of # hist.count /\ ~After(name.at, Last(hist.published)))]

-----------------------------------------------------------------------------
(* A command before it talks to the daemon.                                *)

Here(p, l) == cli[p].at = l
Go(p, l) == cli' = [cli EXCEPT ![p].at = l]
Stops(p) == cli' = [cli EXCEPT ![p] = Idle]
unserved == <<clock, core, queue, job, host>>

Begin(p, op, yes) ==
  /\ Here(p, "idle")
  /\ cli' = [cli EXCEPT ![p] = [Idle EXCEPT !.op = op, !.yes = yes, !.at = "repair"]]
  /\ UNCHANGED <<file, perm, artifacts, partials, unserved>>

Invoke(p, op, yes) ==
  /\ p # Again /\ hist.commands < MaxCommands
  /\ hist' = [hist EXCEPT !.commands = @ + 1]
  /\ Begin(p, op, yes)

\* When everything else is over and no Core runs.
Retry ==
  /\ core = "down" /\ queue = <<>> /\ job = NoJob /\ \A p \in Procs : Here(p, "idle")
  /\ Begin(Again, "restart", TRUE) /\ UNCHANGED hist

\* ensure_mihomo_system_state_dir, if anything has drifted: one asset after the other, up
\* to one it refuses.
StateRefused == perm["state"] = "unsafe" \/ file.kind = "link"
RepairState ==
  IF ~StateDrifted THEN {perm}
  ELSE {[perm EXCEPT !["cache"] = "ok", !["state"] = IF @ = "drift" THEN "ok" ELSE @]}
       \cup (IF StateRefused THEN {perm} ELSE {})

\* ensure_system_state_ownership_for_lifecycle: a healthy state is left alone.
StateBlocks == StateDrifted /\ StateRefused

\* One asset of another owner than the user and root is enough to refuse the whole tree.
TreeRefused == perm["tree"] = "unsafe"

\* The user's configuration: what root owns is given back, anybody else's refused.
RepairTree(repaired) == [repaired EXCEPT !["tree"] = "ok"]

Repair(p) ==
  /\ Here(p, "repair")
  /\ \E repaired \in RepairState :
       IF StateBlocks \/ TreeRefused THEN Stops(p) /\ perm' = repaired
       ELSE perm' = RepairTree(repaired) /\ Go(p, IF cli[p].second THEN "judge" ELSE "cache")
  /\ UNCHANGED <<file, artifacts, partials, unserved, hist>>

\* cache_db_permission_repair_decision: without --yes the user, if at a terminal, answers.
Decisions(p) == IF cli[p].yes THEN {TRUE} ELSE BOOLEAN

\* A restart goes through the repairs again before it judges the database itself.
Prepared(p) ==
  cli' = [cli EXCEPT ![p] = IF @.op = "restart" THEN [@ EXCEPT !.second = TRUE, !.at = "repair"]
                            ELSE [@ EXCEPT !.at = "send"]]

CheckCache(p) ==
  /\ Here(p, "cache")
  /\ IF ~Drifted THEN Prepared(p)
     ELSE \E d \in Decisions(p) : IF d THEN Go(p, "copy") ELSE Stops(p)
  /\ UNCHANGED <<file, perm, artifacts, partials, unserved, hist>>

\* repair_cache_db_permissions, then the state is looked at once more.
MendCache(p) ==
  /\ Here(p, "mend")
  /\ IF file.kind \in {"missing", "link"} THEN Stops(p) /\ UNCHANGED perm
     ELSE perm' = [perm EXCEPT !["cache"] = "ok"] /\ Prepared(p)
  /\ UNCHANGED <<file, artifacts, partials, unserved, hist>>

\* preserve_upgrade_evidence.
Judge(p) ==
  /\ Here(p, "judge")
  /\ cli' = [cli EXCEPT ![p].at = IF NeedsEvidence THEN "copy" ELSE "send", ![p].seen = file.id]
  /\ UNCHANGED <<file, perm, artifacts, partials, unserved, hist>>

-----------------------------------------------------------------------------
(* The copy (preserve_cache_db_evidence).                                  *)

\* Where a command goes with its copy; without one, a repair goes on and a restart stops.
Copied(p) == IF cli[p].second THEN "send" ELSE "mend"
Uncopied(p) == IF cli[p].second THEN Stops(p)
               ELSE cli' = [cli EXCEPT ![p].at = "mend", ![p].name = NoName, ![p].seen = Unread]

\* A failure to stage or to publish, as one of the faults.
Fault == /\ hist.faults < MaxFaults
         /\ hist' = [hist EXCEPT !.faults = @ + 1]

\* What stays of a staged copy that is not finished (of the last second the clock reaches
\* in the model nothing does: no later second would follow).
Left(names) == {n \in names : n[1] < MaxClock}

\* Equal bytes that are kept already are enough.  The staged name must be new, and is
\* left behind by a copy that is not written to its end.
Copy(p) ==
  LET readable == file.kind \notin {"missing", "link"}
      kept == \E a \in artifacts : a.id = file.id
  IN
  /\ Here(p, "copy")
  /\ IF ~cli[p].second /\ ~Drifted THEN Go(p, "mend") /\ UNCHANGED <<partials, hist>>
     ELSE \/ /\ IF ~readable \/ (~kept /\ Chosen.at \in partials)
                THEN Uncopied(p) /\ UNCHANGED partials
                ELSE IF kept
                THEN cli' = [cli EXCEPT ![p].at = Copied(p), ![p].seen = file.id] /\ UNCHANGED partials
                ELSE /\ partials' = partials \cup {Chosen.at}
                     /\ cli' = [cli EXCEPT ![p].at = "publish", ![p].name = Chosen, ![p].seen = file.id]
             /\ UNCHANGED hist
          \/ /\ Fault /\ Uncopied(p)
             /\ \/ UNCHANGED partials
                \/ readable /\ ~kept /\ partials' = partials \cup Left({Chosen.at})
  /\ UNCHANGED <<file, perm, artifacts, unserved>>

\* rename_no_replace: a name that exists by now is staged anew under the next number.
Publish(p) ==
  /\ Here(p, "publish")
  /\ LET name == cli[p].name
         next == <<name.at[1], name.at[2] + 1>>
     IN \/ /\ name.at \notin Names
           /\ Published(name, cli[p].seen)
           /\ cli' = [cli EXCEPT ![p].at = "prune", ![p].name = NoName]
           /\ partials' = partials \ {name.at}
        \/ /\ name.at \in Names /\ next \notin partials
           /\ partials' = (partials \ {name.at}) \cup {next}
           /\ cli' = [cli EXCEPT ![p].name.at = next] /\ UNCHANGED <<artifacts, hist>>
        \/ /\ name.at \in Names /\ next \in partials
           /\ partials' = partials \ {name.at}
           /\ Uncopied(p) /\ UNCHANGED <<artifacts, hist>>
        \/ /\ partials' = (partials \ {name.at}) \cup IF name.at \in Names THEN Left({next}) ELSE {}
           /\ Fault /\ Uncopied(p) /\ UNCHANGED artifacts
  /\ UNCHANGED <<file, perm, unserved>>

Prune(p) ==
  /\ Here(p, "prune")
  /\ artifacts' = Pruned
  /\ Go(p, Copied(p))
  /\ UNCHANGED <<file, perm, partials, unserved, hist>>

-----------------------------------------------------------------------------
(* The daemon: OWNER_LIFECYCLE_LOCK is held for a whole command.           *)

Send(p) ==
  /\ Here(p, "send")
  /\ queue' = Append(queue, [client |-> p, again |-> TRUE, seen |-> cli[p].seen])
  /\ Go(p, "await")
  /\ UNCHANGED <<file, perm, artifacts, partials, clock, core, job, host, hist>>

undone == <<perm, partials, clock, queue, cli, host>>

\* The answer, to a client that still waits for it.
Reply ==
  /\ job' = NoJob
  /\ cli' = [p \in Procs |-> IF p = job.client THEN Idle ELSE cli[p]]

\* StartCore and RestartCore are the same promotion: the Core is stopped, then started
\* behind the gate.  A daemon of an older version has no gate.
AtGate == IF host.gate THEN "gate" ELSE "spawn"
Take ==
  /\ job = NoJob /\ queue # <<>> /\ queue' = Tail(queue)
  /\ job' = [client |-> Head(queue).client, again |-> Head(queue).again, seen |-> Head(queue).seen,
             name |-> NoName, at |-> AtGate]
  /\ core' = "down"
  /\ UNCHANGED <<file, perm, artifacts, partials, clock, cli, host, hist>>

\* A failed promotion puts its file back and starts the Core once more, behind the gate.
Refuse ==
  IF job.again THEN job' = [job EXCEPT !.at = AtGate, !.again = FALSE, !.name = NoName] /\ UNCHANGED cli
  ELSE Reply

\* cache_db_gate_for_start repairs nothing.
Gate ==
  /\ job.at = "gate"
  /\ IF Drifted THEN Refuse
     ELSE IF NeedsIsolation THEN job' = [job EXCEPT !.at = "move", !.name = Chosen] /\ UNCHANGED cli
     ELSE job' = [job EXCEPT !.at = "spawn", !.seen = file.id] /\ UNCHANGED cli
  /\ UNCHANGED <<file, perm, artifacts, partials, clock, core, queue, host, hist>>

\* quarantine_cache_db: what cannot be moved is not started upon.
Move ==
  /\ job.at = "move"
  /\ \/ /\ job.name.at \notin Names /\ file.kind # "missing"
        /\ Published(job.name, file.id)
        /\ file' = Missing /\ UNCHANGED cli
        /\ job' = [job EXCEPT !.at = "prune", !.name = NoName, !.seen = Unread]
     \/ /\ job.name.at \in Names
        /\ job' = [job EXCEPT !.name.at = <<@[1], @[2] + 1>>]
        /\ UNCHANGED <<file, artifacts, hist, cli>>
     \/ Fault /\ Refuse /\ UNCHANGED <<file, artifacts>>
  /\ UNCHANGED <<perm, partials, clock, core, queue, host>>

PruneMoved ==
  /\ job.at = "prune"
  /\ artifacts' = Pruned
  /\ job' = [job EXCEPT !.at = "spawn"]
  /\ UNCHANGED <<undone, file, core, hist>>

\* The Core makes a database it may not open neither better nor worse, removes one it
\* cannot open and makes another, and mends one that is half valid.
Opened == IF Drifted \/ file.kind = "link" THEN file ELSE [kind |-> "sound", id |-> Sound]

Spawn ==
  /\ job.at = "spawn"
  /\ file' = Opened
  /\ perm' = IF file.kind = "missing" THEN [perm EXCEPT !["cache"] = "ok"] ELSE perm
  /\ core' = "up"
  /\ Reply
  /\ UNCHANGED <<artifacts, partials, clock, queue, host, hist>>

-----------------------------------------------------------------------------
(* Faults.                                                                 *)

Content(kinds) == {[kind |-> k, id |-> hist.last + 1] : k \in kinds}
Costs(n) == /\ hist.faults < MaxFaults
            /\ hist' = [hist EXCEPT !.faults = @ + 1, !.last = @ + n]

\* The Core dies, with a write half done or not.
CoreDies ==
  /\ core = "up" /\ core' = "down"
  /\ \/ Costs(0) /\ UNCHANGED file
     \/ Costs(1) /\ file' \in Content(Broken)
  /\ UNCHANGED <<perm, artifacts, partials, clock, queue, job, cli, host>>

\* Root runs a program on the database, or puts a link in its place.
Touch ==
  /\ file.kind \notin {"missing", "link"}
  /\ \/ Costs(0) /\ UNCHANGED file /\ perm' = [perm EXCEPT !["cache"] = "drift"]
     \/ Costs(1) /\ file' \in Content({"short", "invalid"}) /\ perm' = [perm EXCEPT !["cache"] = "drift"]
     \/ Costs(0) /\ file' = [kind |-> "link", id |-> Linked] /\ UNCHANGED perm
  /\ UNCHANGED <<artifacts, partials, clock, core, queue, job, cli, host>>

Drift ==
  /\ Costs(0)
  /\ \E a \in Assets \ {"cache"}, x \in Verdicts \ {"ok"} : perm' = [perm EXCEPT ![a] = x]
  /\ UNCHANGED <<file, artifacts, partials, clock, core, queue, job, cli, host>>

Tick ==
  /\ clock < MaxClock /\ clock' = clock + 1
  /\ UNCHANGED <<file, perm, artifacts, partials, core, queue, job, cli, host, hist>>

StepBack ==
  /\ clock > 0 /\ clock' = clock - 1
  /\ hist.faults < MaxFaults /\ hist' = [hist EXCEPT !.faults = @ + 1, !.disordered = TRUE]
  /\ UNCHANGED <<file, perm, artifacts, partials, core, queue, job, cli, host>>

\* The staged copy of a killed command stays.
LeftBy(ps) == LET staged == {cli[p].name.at : p \in {q \in ps : Here(q, "publish")}}
              IN  partials \ (staged \ Left(staged))
Forget(ps, c) == IF c \in ps THEN Nobody ELSE c

\* Killed, or its 20 seconds are over: the daemon goes on with what was sent.
Leave(p) ==
  /\ ~Here(p, "idle") /\ Costs(0)
  /\ Stops(p) /\ partials' = LeftBy({p})
  /\ queue' = [n \in DOMAIN queue |-> [queue[n] EXCEPT !.client = Forget({p}, @)]]
  /\ job' = [job EXCEPT !.client = Forget({p}, @)]
  /\ UNCHANGED <<file, perm, artifacts, clock, core, host>>

\* Everything ends; the daemon starts the Core again if autostart is on.
Reboot ==
  /\ Costs(0)
  /\ core' = "down" /\ job' = NoJob /\ cli' = [p \in Procs |-> Idle] /\ partials' = LeftBy(Procs)
  /\ queue' \in {<<>>, <<[client |-> Nobody, again |-> FALSE, seen |-> Unread]>>}
  /\ UNCHANGED <<file, perm, artifacts, clock, host>>

-----------------------------------------------------------------------------
CliStep(p) ==
  \/ Repair(p) \/ CheckCache(p) \/ MendCache(p) \/ Judge(p)
  \/ Copy(p) \/ Publish(p) \/ Prune(p) \/ Send(p)
DaemonStep == Take \/ Gate \/ Move \/ PruneMoved \/ Spawn

Next ==
  \/ \E p \in Procs : CliStep(p) \/ Leave(p)
                      \/ \E op \in {"start", "restart"}, yes \in BOOLEAN : Invoke(p, op, yes)
  \/ Retry \/ DaemonStep \/ Tick
  \/ CoreDies \/ Touch \/ Drift \/ StepBack \/ Reboot

Spec == Init /\ [][Next]_vars

\* A command and the daemon go on; time passes; while no Core runs, `restart --yes` is
\* tried again.
Fairness ==
  /\ \A p \in Procs : WF_vars(CliStep(p))
  /\ WF_vars(DaemonStep) /\ WF_vars(Tick)
  /\ WF_vars(Retry)
FairSpec == Spec /\ Fairness

-----------------------------------------------------------------------------
(* Properties.                                                             *)

\* Where nothing is of a kind no repair accepts, `restart --yes`, tried until the Core runs,
\* gets it to run: the repairs, the copies and the gate do not block one another for ever.
Serviceable ==
  /\ file.kind # "link" /\ perm["tree"] # "unsafe"
  /\ host.linux => perm["state"] # "unsafe"
CoreReturns == <>[]Serviceable => []<>(core = "up")
=============================================================================
