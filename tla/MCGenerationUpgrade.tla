------------------------ MODULE MCGenerationUpgrade ------------------------
(* TLC instances of GenerationUpgrade.                                     *)
EXTENDS GenerationUpgrade

\* Processes, and the contents of files, are interchangeable.
Symmetry == Permutations(Procs) \cup Permutations(Revs)

\* Bound: a fault and a change outside the protocol both happen only up to the first
\* two generations, which are one upgrade; later one of them does.
DisturbedSpec == Init /\ [][Next /\ (faults' + outside' <= 1 \/ nextId' <= 3)]_vars
=============================================================================
