------------------------- MODULE MCLegacyMigration --------------------------
(***************************************************************************)
(* The instance of LegacyMigration: two processes with every disturbance   *)
(* the bounds allow, and a third with at most two of them.                 *)
(***************************************************************************)
EXTENDS LegacyMigration, FiniteSets

CONSTANT Spare   \* the third process

MaxBusy == 2           \* bound: commands that run at a time
MaxDisturbances == 2   \* bound, with the third: faults, edits and commands together

\* Contents that no step tells from these are left out.
MCInit ==
  /\ LegacyInit
  /\ snapshot # Base /\ core \in {NoCore, [id |-> 1, rev |-> Base]} /\ intent # 3

\* Which of the free processes runs a command makes no difference: it is one of the two,
\* unless both run one or are dead.
Free == {p \in Procs : At(p, "idle") /\ pc[p] = "idle"}
Busy == {p \in Procs : Alive(p) /\ cmd[p].at # "idle"}
InTurn == CHOOSE p \in Free : p = Spare => Free = {Spare}
Begins(p) == cmd[p] = Idle /\ cmd'[p] # Idle

Bounded ==
  /\ \A p \in Procs : Begins(p) => Cardinality(Busy) < MaxBusy /\ p = InTurn
  /\ \/ faults' + past'.edits + past'.commands <= MaxDisturbances
     \/ /\ pc'[Spare] = "idle" /\ cmd'[Spare] = Idle
        /\ \E p \in Procs \ {Spare} : pc'[p] # "dead"

MCSpec == MCInit /\ [][LegacyNext /\ Bounded]_legacyVars

\* The fairness of LegacyFairSpec, for the processes that may run.
MCFairSpec ==
  /\ MCSpec
  /\ \A p \in Procs : WF_legacyVars(CommandStep(p))
  /\ WF_legacyVars(\E p \in Procs : Invoke(p, "restart-yes") /\ Bounded)
=============================================================================
