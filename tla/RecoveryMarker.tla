--------------------------- MODULE RecoveryMarker ---------------------------
(***************************************************************************)
(* The recovery marker (src/tun_transaction.rs, SPEC B5): a file that      *)
(* admits one recovery at a time.  It names its holder; the marker of a    *)
(* dead holder is reclaimed.  Every file operation is a step of its own,   *)
(* as nothing locks the directory.  A process identifier is never reused.  *)
(***************************************************************************)
EXTENDS Naturals

CONSTANTS
  Procs,      \* mihomo-cli processes, by process identifier
  MaxFaults,  \* bound: processes that die, writes that fail
  NoMarker    \* there is no marker file

ASSUME MarkerAssumption == MaxFaults \in Nat

\* The file, by the process that created it, and whether its content is complete.
Markers == [holder: Procs, written: BOOLEAN]

ASSUME NoMarkerAssumption == NoMarker \notin Markers

VARIABLES
  marker,  \* transactions/recovery-in-progress
  pc,      \* the next file operation of each process; "idle": it has not begun, or has
           \* ended without a trace; "dead": it was killed, or failed
  faults   \* faults so far

vars == <<marker, pc, faults>>

PCs == {"idle", "reclaim", "create", "write", "recovering", "release", "dead"}

Init == marker = NoMarker /\ pc = [p \in Procs |-> "idle"] /\ faults = 0

Goto(p, l) == pc' = [pc EXCEPT ![p] = l]
Fault      == faults < MaxFaults /\ faults' = faults + 1

Readable  == marker # NoMarker /\ marker.written
Own(p)    == marker # NoMarker /\ marker.holder = p

\* is_process_alive (on unix).
Alive(p) == pc[p] # "dead"

-----------------------------------------------------------------------------
\* try_acquire_recovery_marker reads the marker.  Behind a live holder it gives up,
\* and nothing changes; a marker it cannot parse is left to the creation to meet.
Read(p) ==
  /\ pc[p] = "idle"
  /\ IF Readable
     THEN ~Alive(marker.holder) /\ Goto(p, "reclaim")
     ELSE Goto(p, "create")
  /\ UNCHANGED <<marker, faults>>

\* It removes the marker by its path, whatever file that names by now.
Reclaim(p) ==
  /\ pc[p] = "reclaim"
  /\ marker' = NoMarker
  /\ Goto(p, "create") /\ UNCHANGED faults

\* Defect: an existing file is opened.
OpensAny == TRUE

\* create_new: only where there is no file.
CreatesNew == marker = NoMarker

Create(p) ==
  /\ pc[p] = "create"
  /\ IF CreatesNew
     THEN marker' = [holder |-> p, written |-> FALSE] /\ Goto(p, "write")
     ELSE Goto(p, "idle") /\ UNCHANGED marker
  /\ UNCHANGED faults

\* The content goes to the file that was created, if the path still names it.
\* When write_all or sync_all fails, the file stays, in part or in full, and the
\* command ends with the error.
Write(p) ==
  /\ pc[p] = "write"
  /\ \/ /\ marker' = IF Own(p) THEN [marker EXCEPT !.written = TRUE] ELSE marker
        /\ Goto(p, "recovering") /\ UNCHANGED faults
     \/ /\ \/ UNCHANGED marker
           \/ Own(p) /\ marker' = [marker EXCEPT !.written = TRUE]
        /\ Goto(p, "dead") /\ Fault

\* The guard is dropped: release_recovery_marker removes the marker if it reads
\* its own identifier there.
Finish(p) ==
  /\ pc[p] = "recovering"
  /\ Goto(p, IF Readable /\ Own(p) THEN "release" ELSE "idle")
  /\ UNCHANGED <<marker, faults>>

Release(p) ==
  /\ pc[p] = "release"
  /\ marker' = NoMarker
  /\ Goto(p, "idle") /\ UNCHANGED faults

Die(p) ==
  /\ pc[p] # "dead" /\ Fault
  /\ Goto(p, "dead") /\ UNCHANGED marker

Step(p) == Read(p) \/ Reclaim(p) \/ Create(p) \/ Write(p) \/ Finish(p) \/ Release(p)

Next == \E p \in Procs : Step(p) \/ Die(p)

Spec == Init /\ [][Next]_vars

-----------------------------------------------------------------------------
\* The marker names a process, and every process is at a step of its code.
TypeOK ==
  /\ marker \in Markers \cup {NoMarker}
  /\ pc \in [Procs -> PCs]
  /\ faults \in 0..MaxFaults

\* At most one process recovers at a time (maybe_auto_recover_active_transaction:
\* a concurrent recovery fails immediately).
OneRecovery ==
  \A p, q \in Procs : pc[p] = "recovering" /\ pc[q] = "recovering" => p = q

\* The marker excludes, however attempts, failed writes and releases interleave, for
\* as long as no process has died.
ExclusiveWhileAllLive == (\A p \in Procs : Alive(p)) => OneRecovery
=============================================================================
