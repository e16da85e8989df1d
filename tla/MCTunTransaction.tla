-------------------------- MODULE MCTunTransaction --------------------------
(* TLC instances of TunTransaction.                                        *)
EXTENDS TunTransaction, TLC

\* Concurrent commands are interchangeable.
CLISymmetry == Permutations(CLIs)

\* Two commands meet one disturbance: an edit of the intent, or a fault.
MaxDisturbances == 1
ContendedSpec == Init /\ [][Next /\ lastEdit' + faults' <= MaxDisturbances]_vars

SwitchOnAndRecover == {"tun-on", "restart-yes", "stop"}

\* The Core found at the start runs from the TUN snapshot, which is where every
\* transaction records that it runs from.
SnapshotInit == Init /\ core.src = "snapshot"

\* Nothing but a killed command goes wrong, and while the transaction is open the
\* user goes on to run both `restart --yes` and `stop`.
Recovers(c, o) == Open(journal) /\ Invoke(c) /\ op'[c] = o

KillsOnly ==
  /\ Next
  /\ faults' # faults => \E c \in CLIs : Crash(c)
  /\ \A c \in CLIs : Invoke(c) /\ op'[c] = "restart-yes" => Open(journal)

KillsSpec ==
  /\ SnapshotInit /\ [][KillsOnly]_vars
  /\ \A c \in CLIs : /\ WF_vars(Step(c))
                     /\ SF_vars(Recovers(c, "restart-yes"))
                     /\ SF_vars(Recovers(c, "stop"))
=============================================================================
