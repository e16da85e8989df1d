-------------------------- MODULE MCInstanceModes --------------------------
(* Small instances of InstanceModes: the processes are interchangeable. *)
EXTENDS InstanceModes

ProcSymmetry == Permutations(Procs)
=============================================================================
