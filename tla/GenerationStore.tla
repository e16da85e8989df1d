-------------------------- MODULE GenerationStore --------------------------
(***************************************************************************)
(* The generation store (src/generation.rs): immutable directories that    *)
(* hold the managed files of one release (or the baseline captured before  *)
(* it), and the three slots of the state file.  The slots are written      *)
(* whole, by an atomic replacement of the file.                            *)
(***************************************************************************)
EXTENDS Naturals, FiniteSets

CONSTANTS
  Revs,      \* contents of a managed file
  MaxGens,   \* bound: generation directories ever made
  KeepLimit, \* unreferenced generations a collection leaves (2 in the code)
  NoGen,     \* an empty slot, no binding
  NoDir,     \* there is no directory with this identifier
  Missing    \* the file does not exist

ASSUME GenAssumption == MaxGens \in Nat /\ KeepLimit \in Nat /\ Missing \notin Revs /\ NoGen \notin 1 .. MaxGens

\* Identifiers are time-stamped: a later generation has a larger one.
Ids == 1 .. MaxGens

Artifacts == {"daemon", "core"}

Scenes == [Artifacts -> Revs \cup {Missing}]

Slots == [active: Ids \cup {NoGen}, pending: Ids \cup {NoGen}, previous: Ids \cup {NoGen}]

\* A directory: its kind and files, the baseline its manifest binds, whether the
\* manifest has been written, the untrusted mark of a migration, the administrator's
\* adoption, the rename to a tombstone, the withdrawal record and the rollback proof.
Generations ==
  [kind: {"baseline", "candidate"}, art: Scenes, bound: Ids \cup {NoGen}, sealed: BOOLEAN,
   trusted: BOOLEAN, adopted: BOOLEAN, tomb: BOOLEAN, assoc: Ids \cup {NoGen}, proven: BOOLEAN]

VARIABLES
  slots,  \* generation-state.json
  gens,   \* generations/<id> and generations/<id>.withdrawn
  nextId  \* the clock that names the next generation

storeVars == <<slots, gens, nextId>>

EmptySlots == [active |-> NoGen, pending |-> NoGen, previous |-> NoGen]

\* The manifest is written last: until then a directory cannot be read.
HasManifest(g) == gens[g] # NoDir /\ gens[g].sealed

\* validate_generation: the live directory has a manifest, and its files match it.
Valid(g) == g \in Ids /\ HasManifest(g) /\ ~gens[g].tomb

Trusted(g) == g \in Ids /\ gens[g] # NoDir /\ gens[g].trusted

HasWithdrawn(g) == g \in Ids /\ gens[g] # NoDir /\ gens[g].tomb

Named == {slots.active, slots.pending, slots.previous} \ {NoGen}

Baseline(art, adopted) ==
  [kind |-> "baseline", art |-> art, bound |-> NoGen, sealed |-> TRUE, trusted |-> TRUE,
   adopted |-> adopted, tomb |-> FALSE, assoc |-> NoGen, proven |-> FALSE]

Candidate(art, base) ==
  [kind |-> "candidate", art |-> art, bound |-> base, sealed |-> TRUE, trusted |-> TRUE,
   adopted |-> FALSE, tomb |-> FALSE, assoc |-> NoGen, proven |-> FALSE]

\* Mutants: a discard is taken for a rollback; the collection forgets the baseline.
RevokeAsRollback(base) == [active |-> base, pending |-> NoGen, previous |-> NoGen]

UnreferencedBaseline ==
  {g \in Ids : gens[g] # NoDir /\ ~gens[g].tomb /\ gens[g].trusted /\ g \notin Named \ {slots.previous}}

\* The writes of the state file.
StageSlots(g, base) == [slots EXCEPT !.pending = g, !.previous = base]

CommitSlots(base) == [active |-> slots.pending, pending |-> NoGen, previous |-> base]

CompensateSlots(base) == [active |-> base, pending |-> NoGen, previous |-> NoGen]

RevokeSlots(base) == [active |-> NoGen, pending |-> NoGen, previous |-> base]

\* Collection keeps what a slot names, tombstones, migrated evidence, and the
\* newest KeepLimit of the rest.
Unreferenced ==
  {g \in Ids : gens[g] # NoDir /\ ~gens[g].tomb /\ gens[g].trusted /\ g \notin Named}

Collected ==
  {g \in Unreferenced : Cardinality({h \in Unreferenced : h > g}) >= KeepLimit}

TypeOKStore ==
  /\ slots \in Slots
  /\ gens \in [Ids -> Generations \cup {NoDir}]
  /\ nextId \in 1 .. MaxGens + 1
=============================================================================
