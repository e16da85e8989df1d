--------------------------- MODULE MCCoreLifecycle ---------------------------
EXTENDS CoreLifecycle

Symm == Permutations(Cores) \cup Permutations(Revs)
=============================================================================
