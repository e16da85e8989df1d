-------------------------- MODULE EvidencePromises --------------------------
(* What is promised of the copies of a database that was moved aside or is   *)
(* about to be removed, over the state these promises are about (CacheDb).   *)
EXTENDS Naturals, Sequences, Functions

VARIABLES
  file,       \* cache.db: its kind and its content
  artifacts,  \* cache.db.corrupt-<ts>-<seq>
  job,        \* the lifecycle command the daemon performs
  hist        \* the last names published; whether their order is not that of the clock;
              \* commands and faults so far; contents so far

\* What the Core removes because it cannot open it has been kept, if the daemon's gate or
\* the command that asked for the start had a look at it: an artifact still holds it, unless
\* the names of the artifacts are out of order by then.  (cache_db_gate_for_start,
\* preserve_upgrade_evidence before a daemon without the gate.)
Removes == job.at = "spawn" /\ file.kind \in {"short", "invalid"} /\ file'.id # file.id
EvidenceFirst ==
  [][Removes /\ job.seen = file.id
       => hist.disordered \/ \E a \in artifacts : a.id = file.id]_<<file, artifacts, job, hist>>

\* Eviction takes the oldest: the last Keep artifacts that were published are there, as long
\* as names were published in the order of their seconds (next_quarantine_seq,
\* prune_cache_db_quarantine, whoever publishes at the same time).
NewestKept == ~hist.disordered => Range(hist.published) \subseteq {a.name : a \in artifacts}
=============================================================================
