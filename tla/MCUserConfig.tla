---------------------------- MODULE MCUserConfig ----------------------------
(* One living subscription, active, and one tombstone; at most one           *)
(* tombstone is kept, so that retiring the living one evicts it.             *)
EXTENDS UserConfig

CONSTANTS i1, i2, i3, u1, u2

MCRegistered == [i \in {i1, i2} |->
  IF i = i1 THEN [url |-> u1, retired |-> 0] ELSE [url |-> u2, retired |-> 1]]

Symm == Permutations(Procs)
=============================================================================
